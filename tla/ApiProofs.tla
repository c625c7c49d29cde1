----------------------------- MODULE ApiProofs -----------------------------
(***************************************************************************)
(* Proofs about the ten small backends.                                    *)
(***************************************************************************)
EXTENDS ApiBackends, BackendProofs

\* The families whose objects other objects hang under, OptiX contexts aside.
Parents ==
  {"GlContext", "CudaContext", "ClContext", "L0Context", "WgpuDevice", "SyclQueue"}

\* The families with a teardown call.
Destroyed ==
  {"GlBuffer", "CudaDevicePtr", "HipDevicePtr", "ClMem", "L0DeviceMem", "WgpuBuffer",
   "SyclDevicePtr", "OptixPipeline", "OptixContext", "AmfEncoder", "VideoSession"}

LEMMA Kinds ==
  /\ DOMAIN KIND = Family
  /\ KindsApart(KIND)
  /\ Family = Parents \cup Destroyed \cup {"HipStream"}
  /\ DOMAIN OWNER \subseteq Family \ {"VideoSession"}
  /\ \A f \in DOMAIN OWNER : OWNER[f] \in Parents
  /\ Parents \cap Destroyed = {} /\ "HipStream" \notin Parents
<1>1. KIND = [GlContext |-> 10, GlBuffer |-> 11, CudaContext |-> 20, CudaDevicePtr |-> 21,
              HipDevicePtr |-> 30, HipStream |-> 31, ClContext |-> 40, ClMem |-> 41,
              L0Context |-> 50, L0DeviceMem |-> 51, VideoSession |-> 60, WgpuDevice |-> 70,
              WgpuBuffer |-> 71, OptixContext |-> 80, OptixPipeline |-> 81, SyclQueue |-> 90,
              SyclDevicePtr |-> 91, AmfEncoder |-> 100]
  BY DEF KIND, KIND_GL, KIND_CUDA, KIND_HIP, KIND_CL, KIND_L0, KIND_VIDEO, KIND_WGPU,
     KIND_OPTIX, KIND_SYCL, KIND_AMF
<1>2. DOMAIN KIND = Parents \cup Destroyed \cup {"HipStream"} /\ DOMAIN KIND = Family
  BY <1>1 DEF Parents, Destroyed, Family
<1>3. KindsApart(KIND)
  BY <1>1 DEF KindsApart
<1>4. /\ DOMAIN OWNER \subseteq Destroyed \ {"VideoSession"}
      /\ \A f \in DOMAIN OWNER : OWNER[f] \in Parents
  BY DEF OWNER, Parents, Destroyed
<1>5. Parents \cap Destroyed = {} /\ "HipStream" \notin Parents
  BY DEF Parents, Destroyed
<1> QED
  BY <1>2, <1>3, <1>4, <1>5

---------------------------------------------------------------------------
Owned ==
  \A f \in DOMAIN OWNER : \A o \in LiveObjects(tables[f]) :
    o.owner \in Handle /\ Resolves(tables[OWNER[f]], o.owner)

\* Frames are returned for sessions that were given out, and the video backend
\* gives out nothing but sessions.
Sessions ==
  /\ \A r \in returned : r.session \in issued
  /\ api = "Video" => \A h \in issued : h.kind = KIND["VideoSession"]

IInv == Sound(KIND) /\ Owned /\ Sessions /\ FramesInOrder

---------------------------------------------------------------------------
\* A step mints an object under a parent it looked up, counts a frame of an
\* encoder, decodes one, releases an object or leaves all tables alone.
MintStep ==
  /\ \E f \in Family : \E owner \in Handle \cup {None} :
       /\ Mint(f, KIND[f], owner)
       /\ f \in DOMAIN OWNER => owner \in Handle /\ Resolves(tables[OWNER[f]], owner)
       /\ api = "Video" => f = "VideoSession"
  /\ UNCHANGED <<api, returned>>

CountStep ==
  /\ \E h \in issued : Count("AmfEncoder", h)
  /\ UNCHANGED <<api, returned>>

DecodeStep ==
  /\ api = "Video"
  /\ \E h \in issued : VideoDecodeFrame(h)
  /\ UNCHANGED api

ReleaseStep ==
  /\ \E f \in Destroyed, h \in issued : Release(f, h)
  /\ UNCHANGED <<api, returned>>

LEMMA Steps ==
  ASSUME issued \subseteq Handle, [Next]_apiVars
  PROVE  \/ MintStep \/ CountStep \/ DecodeStep \/ ReleaseStep
         \/ UNCHANGED <<tables, issued, api, returned>>
<1> DEFINE Mints == \E f \in Family : \E owner \in Handle \cup {None} :
                      /\ Mint(f, KIND[f], owner)
                      /\ f \in DOMAIN OWNER =>
                           owner \in Handle /\ Resolves(tables[OWNER[f]], owner)
                      /\ api = "Video" => f = "VideoSession"
           Releases == \E f \in Destroyed, h \in issued : Release(f, h)
           Same == UNCHANGED <<tables, issued>>
<1>1. \A f : Arg(f) \subseteq issued
  BY DEF Arg, Presented
<1>2. ASSUME NEW f \in Family \ DOMAIN OWNER, Mint(f, KIND[f], None), api # "Video" PROVE Mints
  BY <1>2
<1>3. ASSUME NEW f \in DOMAIN OWNER, NEW h \in issued,
             MintUnder(f, KIND[f], OWNER[f], h), api # "Video"
      PROVE  Mints
  BY <1>3, Kinds DEF MintUnder
<1>4. ASSUME NEW f, NEW h, Check(f, h) PROVE Same
  BY <1>4 DEF Check, backendVars
<1>5. {"GlContext", "CudaContext", "HipDevicePtr", "HipStream", "ClContext", "L0Context",
       "WgpuDevice", "SyclQueue", "OptixContext", "AmfEncoder", "VideoSession"}
        \subseteq Family \ DOMAIN OWNER
  BY Kinds DEF OWNER, Parents, Destroyed
<1>6. {"GlBuffer", "CudaDevicePtr", "ClMem", "L0DeviceMem", "WgpuBuffer", "SyclDevicePtr"}
        \subseteq DOMAIN OWNER
  BY DEF OWNER
<1>7. ASSUME Gl, api # "Video" PROVE Mints \/ Releases \/ Same
  <2>1. ASSUME GlCreateContext PROVE Mints
    BY <1>2, <1>5, <1>7, <2>1 DEF GlCreateContext, KIND
  <2>2. ASSUME NEW h \in issued, GlGenBuffer(h) PROVE Mints
    BY <1>3, <1>6, <1>7, <2>2 DEF GlGenBuffer, KIND, OWNER
  <2>3. ASSUME NEW h, GlMakeCurrent(h) \/ GlSwapBuffers(h) PROVE Same
    BY <1>4, <2>3 DEF GlMakeCurrent, GlSwapBuffers
  <2>4. ASSUME NEW h \in issued, GlDeleteBuffer(h) PROVE Releases
    BY <2>4 DEF GlDeleteBuffer, Destroyed
  <2> HIDE DEF Mints, Releases, Same
  <2> QED
    BY <1>1, <1>7, <2>1, <2>2, <2>3, <2>4 DEF Gl
<1>8. ASSUME Cuda, api # "Video" PROVE Mints \/ Releases \/ Same
  <2>1. ASSUME CudaCtxCreate PROVE Mints
    BY <1>2, <1>5, <1>8, <2>1 DEF CudaCtxCreate, KIND
  <2>2. ASSUME NEW h \in issued, CudaMemAlloc(h) PROVE Mints
    BY <1>3, <1>6, <1>8, <2>2 DEF CudaMemAlloc, KIND, OWNER
  <2>3. ASSUME NEW h \in issued, CudaMemFree(h) PROVE Releases
    BY <2>3 DEF CudaMemFree, Destroyed
  <2> HIDE DEF Mints, Releases, Same
  <2> QED
    BY <1>1, <1>8, <2>1, <2>2, <2>3 DEF Cuda
<1>9. ASSUME Cl, api # "Video" PROVE Mints \/ Releases \/ Same
  <2>1. ASSUME ClCreateContext PROVE Mints
    BY <1>2, <1>5, <1>9, <2>1 DEF ClCreateContext, KIND
  <2>2. ASSUME NEW h \in issued, ClCreateBuffer(h) PROVE Mints
    BY <1>3, <1>6, <1>9, <2>2 DEF ClCreateBuffer, KIND, OWNER
  <2>3. ASSUME NEW h \in issued, ClReleaseBuffer(h) PROVE Releases
    BY <2>3 DEF ClReleaseBuffer, Destroyed
  <2> HIDE DEF Mints, Releases, Same
  <2> QED
    BY <1>1, <1>9, <2>1, <2>2, <2>3 DEF Cl
<1>10. ASSUME L0, api # "Video" PROVE Mints \/ Releases \/ Same
  <2>1. ASSUME L0ContextCreate PROVE Mints
    BY <1>2, <1>5, <1>10, <2>1 DEF L0ContextCreate, KIND
  <2>2. ASSUME NEW h \in issued, L0MemAllocDevice(h) PROVE Mints
    BY <1>3, <1>6, <1>10, <2>2 DEF L0MemAllocDevice, KIND, OWNER
  <2>3. ASSUME NEW h \in issued, L0MemFree(h) PROVE Releases
    BY <2>3 DEF L0MemFree, Destroyed
  <2> HIDE DEF Mints, Releases, Same
  <2> QED
    BY <1>1, <1>10, <2>1, <2>2, <2>3 DEF L0
<1>11. ASSUME Wgpu, api # "Video" PROVE Mints \/ Releases \/ Same
  <2>1. ASSUME WgpuRequestDevice PROVE Mints
    BY <1>2, <1>5, <1>11, <2>1 DEF WgpuRequestDevice, KIND
  <2>2. ASSUME NEW h \in issued, WgpuCreateBuffer(h) PROVE Mints
    BY <1>3, <1>6, <1>11, <2>2 DEF WgpuCreateBuffer, KIND, OWNER
  <2>3. ASSUME NEW h \in issued, WgpuDestroyBuffer(h) PROVE Releases
    BY <2>3 DEF WgpuDestroyBuffer, Destroyed
  <2> HIDE DEF Mints, Releases, Same
  <2> QED
    BY <1>1, <1>11, <2>1, <2>2, <2>3 DEF Wgpu
<1>12. ASSUME Sycl, api # "Video" PROVE Mints \/ Releases \/ Same
  <2>1. ASSUME SyclQueueCreate PROVE Mints
    BY <1>2, <1>5, <1>12, <2>1 DEF SyclQueueCreate, KIND
  <2>2. ASSUME NEW h \in issued, SyclMallocDevice(h) PROVE Mints
    BY <1>3, <1>6, <1>12, <2>2 DEF SyclMallocDevice, KIND, OWNER
  <2>3. ASSUME NEW h \in issued, SyclFree(h) PROVE Releases
    BY <2>3 DEF SyclFree, Destroyed
  <2> HIDE DEF Mints, Releases, Same
  <2> QED
    BY <1>1, <1>12, <2>1, <2>2, <2>3 DEF Sycl
<1>13. ASSUME Hip, api # "Video" PROVE Mints \/ Releases
  <2>1. ASSUME HipMalloc \/ HipStreamCreate PROVE Mints
    BY <1>2, <1>5, <1>13, <2>1 DEF HipMalloc, HipStreamCreate, KIND
  <2>2. ASSUME NEW h \in issued, HipFree(h) PROVE Releases
    BY <2>2 DEF HipFree, Destroyed
  <2> HIDE DEF Mints, Releases
  <2> QED
    BY <1>1, <1>13, <2>1, <2>2 DEF Hip
<1>14. ASSUME Optix, api # "Video" PROVE Mints \/ Releases
  <2>1. ASSUME OptixContextCreate PROVE Mints
    BY <1>2, <1>5, <1>14, <2>1 DEF OptixContextCreate, KIND
  <2>2. ASSUME NEW h \in issued, OptixPipelineCreate(h) PROVE Mints
    <3>1. /\ Mint("OptixPipeline", KIND["OptixPipeline"], h) /\ h \in Handle
      BY <2>2 DEF OptixPipelineCreate, MintUnder, KIND
    <3>2. "OptixPipeline" \in Family \ DOMAIN OWNER
      BY Kinds DEF OWNER, Destroyed
    <3> QED
      BY <1>14, <3>1, <3>2
  <2>3. ASSUME NEW h \in issued, OptixDestroy(h) PROVE Releases
    BY <2>3 DEF OptixDestroy, Destroyed
  <2> HIDE DEF Mints, Releases
  <2> QED
    BY <1>1, <1>14, <2>1, <2>2, <2>3 DEF Optix
<1>15. ASSUME Amf, api # "Video"
       PROVE  Mints \/ Releases \/ \E h \in issued : Count("AmfEncoder", h)
  <2>1. ASSUME AmfCreateEncoder PROVE Mints
    BY <1>2, <1>5, <1>15, <2>1 DEF AmfCreateEncoder, KIND
  <2>2. ASSUME NEW h \in issued, AmfDestroyEncoder(h) PROVE Releases
    BY <2>2 DEF AmfDestroyEncoder, Destroyed
  <2> HIDE DEF Mints, Releases
  <2> QED
    BY <1>1, <1>15, <2>1, <2>2 DEF Amf, AmfEncodeFrame
<1>16. ASSUME Video PROVE Mints \/ Releases
  <2>1. ASSUME VideoCreateDecodeSession PROVE Mints
    BY <1>5, <2>1 DEF VideoCreateDecodeSession, KIND
  <2>2. ASSUME NEW h \in issued, VideoDestroySession(h) PROVE Releases
    BY <2>2 DEF VideoDestroySession, Destroyed
  <2> HIDE DEF Mints, Releases
  <2> QED
    BY <1>1, <1>16, <2>1, <2>2 DEF Video
<1>17. \/ /\ Mints \/ Releases \/ Same \/ \E h \in issued : Count("AmfEncoder", h)
          /\ UNCHANGED <<api, returned>>
       \/ DecodeStep
  <2>1. CASE Serve("OpenGl", Gl) \/ Serve("Cuda", Cuda) \/ Serve("Hip", Hip)
    BY <1>7, <1>8, <1>13, <2>1 DEF Serve
  <2>2. CASE Serve("OpenCl", Cl) \/ Serve("LevelZero", L0) \/ Serve("WebGpu", Wgpu)
    BY <1>9, <1>10, <1>11, <2>2 DEF Serve
  <2>3. CASE Serve("Sycl", Sycl) \/ Serve("OptiX", Optix)
    BY <1>12, <1>14, <2>3 DEF Serve
  <2>4. CASE Serve("Amf", Amf) \/ Serve("Video", Video)
    BY <1>15, <1>16, <2>4 DEF Serve
  <2>5. CASE /\ api = "Video"
             /\ \E h \in Arg("VideoSession") : VideoDecodeFrame(h)
             /\ UNCHANGED api
    BY <1>1, <2>5 DEF DecodeStep
  <2>6. CASE Reject /\ UNCHANGED <<api, returned>>
    BY <2>6 DEF Reject
  <2>7. CASE UNCHANGED apiVars
    BY <2>7 DEF apiVars
  <2> QED
    BY <2>1, <2>2, <2>3, <2>4, <2>5, <2>6, <2>7 DEF Next
<1> QED
  BY <1>17 DEF MintStep, ReleaseStep, CountStep

---------------------------------------------------------------------------
\* What FramesInOrder says of one session, of a table t and the answers R.
AnswersFor(R, h) == {r.index : r \in {s \in R : s.session = h}}

InOrder(t, R, h) ==
  \/ AnswersFor(R, h) = 0 .. Get(t, h).count - 1
  \/ Get(t, h).count = COUNT_MAX /\ AnswersFor(R, h) = 0 .. COUNT_MAX

LEMMA FramesInOrderIs ==
  /\ FramesInOrder <=> \A h \in LiveHandles(tables["VideoSession"]) :
                         InOrder(tables["VideoSession"], returned, h)
  /\ FramesInOrder' <=> \A h \in LiveHandles(tables'["VideoSession"]) :
                          InOrder(tables'["VideoSession"], returned', h)
  BY DEF FramesInOrder, InOrder, AnswersFor

\* A live session's handle is one of the sessions' kind that resolves.
LEMMA LiveSessions ==
  ASSUME Sound(KIND)
  PROVE  LiveHandles(tables["VideoSession"]) =
           {h \in Handle : h.kind = KIND["VideoSession"] /\ Resolves(tables["VideoSession"], h)}
<1> DEFINE t == tables["VideoSession"]
           k == KIND["VideoSession"]
<1>1. "VideoSession" \in DOMAIN KIND /\ k \in Nat
  BY Kinds DEF Destroyed, KindsApart
<1>2. WellFormed(t, {k}, ObjectState)
  BY <1>1 DEF Sound
<1> HIDE DEF t, k
<1>3. LiveHandles(t) = {h \in Handle : h.kind = k /\ Resolves(t, h)}
  BY <1>1, <1>2, LiveHandlesResolve
<1> QED
  BY <1>3 DEF t, k

\* Sessions that are not touched stay in order.
LEMMA SessionsUntouched ==
  ASSUME IInv, issued \subseteq issued', UNCHANGED returned, NEW S,
         S \subseteq LiveHandles(tables["VideoSession"]),
         \A h \in S : Get(tables'["VideoSession"], h) = Get(tables["VideoSession"], h)
  PROVE  /\ \A h \in S : InOrder(tables'["VideoSession"], returned', h)
         /\ \A r \in returned' : r.session \in issued'
<1>1. \A h \in S : InOrder(tables["VideoSession"], returned, h)
  BY FramesInOrderIs DEF IInv
<1> QED
  BY <1>1 DEF InOrder, IInv, Sessions

LEMMA MintKeeps ==
  ASSUME IInv, MintStep
  PROVE  IInv' /\ issued' # issued
<1>1. PICK f \in Family, owner \in Handle \cup {None} :
        /\ Mint(f, KIND[f], owner)
        /\ f \in DOMAIN OWNER => owner \in Handle /\ Resolves(tables[OWNER[f]], owner)
        /\ api = "Video" => f = "VideoSession"
  BY DEF MintStep
<1> DEFINE n == InsertHandle(tables[f], KIND[f])
           v == "VideoSession"
<1>2. /\ MaxSlots[f] \in 0 .. SLOT_SPACE
      /\ KindsApart(KIND) /\ Sound(KIND) /\ DOMAIN KIND = Family
      /\ UNCHANGED <<api, returned>>
  BY MaxSlotsAssumption, Kinds DEF IInv, MintStep
<1>3. /\ Sound(KIND)'
      /\ n \in Handle /\ n.kind = KIND[f]
      /\ n \notin issued /\ issued' = issued \cup {n}
      /\ \A g \in Family \ {f} : tables'[g] = tables[g]
      /\ \A g \in Family, x \in Handle : Resolves(tables[g], x) =>
           Resolves(tables'[g], x) /\ Get(tables'[g], x) = Get(tables[g], x)
      /\ LiveObjects(tables'[f]) = LiveObjects(tables[f]) \cup {Object(owner)}
      /\ LiveHandles(tables'[f]) = LiveHandles(tables[f]) \cup {n}
      /\ Get(tables'[f], n) = Object(owner)
  BY <1>1, <1>2, MintFacts
<1> HIDE DEF n
<1>4. Object(owner).owner = owner /\ Object(owner).count = 0
  BY DEF Object
<1>5. Owned'
  <2>1. \A g \in Family : \A o \in LiveObjects(tables'[g]) :
          o \in LiveObjects(tables[g]) \/ (g = f /\ o = Object(owner))
    BY <1>3
  <2>2. f \in DOMAIN OWNER => owner \in Handle /\ Resolves(tables'[OWNER[f]], owner)
    BY <1>1, <1>3, Kinds
  <2>3. \A g \in DOMAIN OWNER : \A o \in LiveObjects(tables[g]) :
          o.owner \in Handle /\ Resolves(tables'[OWNER[g]], o.owner)
    BY <1>3, Kinds DEF IInv, Owned
  <2> QED
    BY <1>4, <2>1, <2>2, <2>3, Kinds DEF Owned
<1>6. v \in Family
  BY Kinds DEF Destroyed
<1> DEFINE S == LiveHandles(tables[v])
<1>7. \A h \in S : Get(tables'[v], h) = Get(tables[v], h)
  BY <1>2, <1>3, <1>6, LiveSessions
<1>8. issued \subseteq issued' /\ UNCHANGED returned
  BY <1>2, <1>3
<1>9. /\ \A h \in S : InOrder(tables'[v], returned', h)
      /\ \A r \in returned' : r.session \in issued'
  BY <1>7, <1>8, SessionsUntouched
<1>10. Sessions'
  BY <1>1, <1>2, <1>3, <1>9 DEF Sessions, IInv
<1>11. f = v => InOrder(tables'[v], returned', n)
  <2>1. f = v => Get(tables'[v], n).count = 0
    BY <1>3, <1>4
  <2>2. AnswersFor(returned', n) = {}
    BY <1>2, <1>3 DEF AnswersFor, IInv, Sessions
  <2> QED
    BY <2>1, <2>2 DEF InOrder
<1>12. \A h \in LiveHandles(tables'[v]) : h \in S \/ (f = v /\ h = n)
  BY <1>3, <1>6
<1>13. FramesInOrder'
  BY <1>9, <1>11, <1>12, FramesInOrderIs
<1> QED
  BY <1>3, <1>5, <1>10, <1>13 DEF IInv

\* A write that keeps an object's parent leaves every parent live.
LEMMA WriteKeepsOwned ==
  ASSUME IInv, NEW f \in Family, NEW h \in issued, Count(f, h)
  PROVE  /\ Sound(KIND)' /\ Owned' /\ issued' = issued
         /\ \A g \in Family : ~(tables'[g].live > tables[g].live)
         /\ \A g \in Family \ {f} : tables'[g] = tables[g]
         /\ LiveHandles(tables'[f]) = LiveHandles(tables[f])
         /\ Get(tables'[f], h).count = SatInc(Get(tables[f], h).count)
         /\ \A x \in Handle : Resolves(tables[f], x) /\ x.slot # h.slot =>
              Get(tables'[f], x) = Get(tables[f], x)
<1> DEFINE b == Get(tables[f], h)
           o == Counted(b)
<1>1. h \in Handle /\ Sound(KIND) /\ f \in DOMAIN KIND /\ DOMAIN KIND = Family
  BY Kinds DEF IInv, Sound
<1>2. /\ o \in ObjectState /\ o.count = SatInc(b.count) /\ o.owner = b.owner
      /\ b \in LiveObjects(tables[f]) /\ Writes(f, h, o)
  BY <1>1, CountWrites
<1> HIDE DEF o
<1>3. /\ Sound(KIND)'
      /\ \A g \in Family : tables'[g].live = tables[g].live
      /\ \A g \in Family \ {f} : tables'[g] = tables[g]
      /\ \A g \in Family, x \in Handle :
           Resolves(tables'[g], x) <=> Resolves(tables[g], x)
      /\ LiveObjects(tables'[f]) \subseteq LiveObjects(tables[f]) \cup {o}
      /\ LiveHandles(tables'[f]) = LiveHandles(tables[f])
      /\ Get(tables'[f], h) = o
      /\ \A x \in Handle : Resolves(tables[f], x) =>
           Get(tables'[f], x) = IF x.slot = h.slot THEN o ELSE Get(tables[f], x)
  BY <1>1, <1>2, WriteFacts
<1>4. \A g \in Family : ~(tables'[g].live > tables[g].live)
  <2>1. \A g \in Family : tables[g].live \in Int
    BY <1>1 DEF Sound, WellFormed
  <2> QED
    BY <1>3, <2>1
<1>5. Owned'
  <2>1. \A g \in DOMAIN OWNER : \A x \in LiveObjects(tables[g]) :
          x.owner \in Handle /\ Resolves(tables'[OWNER[g]], x.owner)
    BY <1>3, Kinds DEF IInv, Owned
  <2>2. \A g \in Family : \A x \in LiveObjects(tables'[g]) :
          x \in LiveObjects(tables[g]) \/ (g = f /\ x = o)
    BY <1>3
  <2> QED
    BY <1>2, <2>1, <2>2, Kinds DEF Owned
<1> QED
  BY <1>2, <1>3, <1>4, <1>5 DEF Writes

LEMMA CountKeeps ==
  ASSUME IInv, CountStep
  PROVE  IInv' /\ \A g \in Family : ~(tables'[g].live > tables[g].live)
<1>1. PICK h \in issued : Count("AmfEncoder", h)
  BY DEF CountStep
<1>2. "AmfEncoder" \in Family /\ "VideoSession" \in Family \ {"AmfEncoder"}
  BY Kinds DEF Destroyed
<1>3. /\ Sound(KIND)' /\ Owned' /\ issued' = issued
      /\ \A g \in Family : ~(tables'[g].live > tables[g].live)
      /\ \A g \in Family \ {"AmfEncoder"} : tables'[g] = tables[g]
  BY <1>1, <1>2, WriteKeepsOwned
<1>4. UNCHANGED <<api, returned>> /\ tables'["VideoSession"] = tables["VideoSession"]
  BY <1>2, <1>3 DEF CountStep
<1>5. Sessions' /\ FramesInOrder'
  BY <1>3, <1>4, FramesInOrderIs DEF IInv, Sessions
<1> QED
  BY <1>3, <1>5 DEF IInv

LEMMA OneMoreAnswer ==
  ASSUME NEW R, NEW Q, NEW r, Q = R \cup {r}
  PROVE  AnswersFor(Q, r.session) = AnswersFor(R, r.session) \cup {r.index}
<1> DEFINE h == r.session
<1>1. \A x : x \in AnswersFor(Q, h) <=> \E s \in Q : s.session = h /\ x = s.index
  BY DEF AnswersFor
<1>2. \A x : x \in AnswersFor(R, h) <=> \E s \in R : s.session = h /\ x = s.index
  BY DEF AnswersFor
<1> QED
  BY <1>1, <1>2

\* DECODE_FRAME answers with the count it then advances, until it saturates.
LEMMA DecodeKeeps ==
  ASSUME IInv, DecodeStep
  PROVE  IInv' /\ \A g \in Family : ~(tables'[g].live > tables[g].live)
<1> DEFINE t == tables["VideoSession"]
           u == tables'["VideoSession"]
<1>1. PICK h \in issued : VideoDecodeFrame(h)
  BY DEF DecodeStep
<1> DEFINE c == Get(t, h).count
<1>2. /\ Count("VideoSession", h) /\ Resolves(t, h) /\ UNCHANGED api
      /\ returned' = returned \cup {[session |-> h, index |-> c]}
      /\ h \in Handle /\ h.kind = KIND["VideoSession"] /\ Sound(KIND)
      /\ "VideoSession" \in Family /\ DOMAIN KIND = Family
  BY <1>1, Kinds DEF VideoDecodeFrame, Count, DecodeStep, IInv, Sessions, Sound, Destroyed
<1>3. /\ Sound(KIND)' /\ Owned' /\ issued' = issued
      /\ \A g \in Family : ~(tables'[g].live > tables[g].live)
      /\ LiveHandles(u) = LiveHandles(t)
      /\ Get(u, h).count = SatInc(c)
      /\ \A x \in Handle : Resolves(t, x) /\ x.slot # h.slot => Get(u, x) = Get(t, x)
  BY <1>2, WriteKeepsOwned
<1>4. Sessions'
  BY <1>2, <1>3 DEF IInv, Sessions
<1>5. LiveHandles(t) = {x \in Handle : x.kind = KIND["VideoSession"] /\ Resolves(t, x)}
  BY <1>2, LiveSessions
<1>6. \A x \in LiveHandles(t) : InOrder(t, returned, x)
  BY FramesInOrderIs DEF IInv
<1>7. c \in 0 .. COUNT_MAX
  <2>1. WellFormed(t, {KIND["VideoSession"]}, ObjectState) /\ h.slot \in Nat
    BY <1>2, HandleTypes DEF Sound
  <2>2. Get(t, h) \in ObjectState
    BY <1>2, <2>1, GetIsLive
  <2> QED
    BY <2>2 DEF ObjectState
<1>8. ASSUME NEW x \in LiveHandles(t), x # h PROVE InOrder(u, returned', x)
  <2>1. x \in Handle /\ x.kind = h.kind /\ Resolves(t, x)
    BY <1>2, <1>5
  <2>2. x.slot # h.slot
    <3>1. x.slot = h.slot => x.generation = h.generation
      BY <1>2, <2>1 DEF Resolves
    <3> QED
      BY <1>2, <1>8, <2>1, <3>1 DEF Handle
  <2>3. Get(u, x) = Get(t, x)
    BY <1>3, <2>1, <2>2
  <2>4. AnswersFor(returned', x) = AnswersFor(returned, x)
    BY <1>2, <1>8 DEF AnswersFor
  <2> QED
    BY <1>6, <2>3, <2>4 DEF InOrder
<1>9. InOrder(u, returned', h)
  <2> DEFINE A == AnswersFor(returned, h)
             d == Get(u, h).count
  <2>1. AnswersFor(returned', h) = A \cup {c}
    <3> DEFINE r == [session |-> h, index |-> c]
    <3>1. returned' = returned \cup {r} /\ r.session = h /\ r.index = c
      BY <1>2
    <3> HIDE DEF r, c
    <3> QED
      BY <3>1, OneMoreAnswer
  <2>2. A = 0 .. c - 1 \/ (c = COUNT_MAX /\ A = 0 .. COUNT_MAX)
    BY <1>2, <1>5, <1>6 DEF InOrder
  <2>3. d = IF c < COUNT_MAX THEN c + 1 ELSE COUNT_MAX
    BY <1>3 DEF SatInc
  <2> HIDE DEF A, c, d
  <2>4. CASE c < COUNT_MAX
    <3>1. A = 0 .. c - 1 /\ d = c + 1
      BY <1>7, <2>2, <2>3, <2>4, CountAssumption
    <3>2. A \cup {c} = 0 .. d - 1
      BY <1>7, <3>1, CountAssumption
    <3> QED
      BY <2>1, <3>2 DEF InOrder, d
  <2>5. CASE c = COUNT_MAX
    <3>1. d = COUNT_MAX
      BY <1>7, <2>3, <2>5, CountAssumption
    <3>2. A \cup {c} = 0 .. COUNT_MAX
      BY <1>7, <2>2, <2>5, CountAssumption
    <3> QED
      BY <2>1, <3>1, <3>2 DEF InOrder, d
  <2> QED
    BY <1>7, <2>4, <2>5, CountAssumption
<1>10. FramesInOrder'
  BY <1>3, <1>8, <1>9, FramesInOrderIs
<1> QED
  BY <1>3, <1>4, <1>10 DEF IInv

LEMMA ReleaseKeeps ==
  ASSUME IInv, ReleaseStep
  PROVE  IInv' /\ \A g \in Family : ~(tables'[g].live > tables[g].live)
<1> DEFINE v == "VideoSession"
<1>1. PICK f \in Destroyed, h \in issued : Release(f, h)
  BY DEF ReleaseStep
<1>2. /\ h \in Handle /\ Sound(KIND) /\ KindsApart(KIND)
      /\ f \in DOMAIN KIND /\ DOMAIN KIND = Family /\ v \in Family
      /\ UNCHANGED <<api, returned>>
  BY Kinds DEF IInv, Sound, ReleaseStep, Destroyed
<1>3. /\ Sound(KIND)' /\ issued' = issued
      /\ \A g \in Family : ~(tables'[g].live > tables[g].live)
      /\ \A g \in Family \ {f} : tables'[g] = tables[g]
      /\ LiveObjects(tables'[f]) \subseteq LiveObjects(tables[f])
      /\ \A x \in Handle :
           Resolves(tables'[f], x) <=> Resolves(tables[f], x) /\ x.slot # h.slot
      /\ \A x \in Handle : Resolves(tables'[f], x) =>
           Get(tables'[f], x) = Get(tables[f], x)
      /\ LiveHandles(tables'[f]) \subseteq LiveHandles(tables[f])
  BY <1>1, <1>2, ReleaseFacts
<1>4. Owned'
  <2>1. \A g \in Parents : tables'[g] = tables[g]
    BY <1>3, Kinds
  <2>2. \A g \in Family : LiveObjects(tables'[g]) \subseteq LiveObjects(tables[g])
    BY <1>3
  <2> QED
    BY <2>1, <2>2, Kinds DEF IInv, Owned
<1> DEFINE S == LiveHandles(tables'[v])
<1>5. /\ S \subseteq LiveHandles(tables[v])
      /\ \A x \in S : Get(tables'[v], x) = Get(tables[v], x)
  <2>1. CASE f # v
    BY <1>2, <1>3, <2>1
  <2>2. CASE f = v
    <3>1. S \subseteq LiveHandles(tables[v])
      BY <1>3, <2>2
    <3>2. S = {x \in Handle : x.kind = KIND[v] /\ Resolves(tables'[v], x)}
      <4> DEFINE u == tables'[v]
                 k == KIND[v]
      <4>1. WellFormed(u, {k}, ObjectState) /\ k \in Nat
        BY <1>2, <1>3 DEF Sound, KindsApart
      <4> HIDE DEF u, k
      <4>2. LiveHandles(u) = {x \in Handle : x.kind = k /\ Resolves(u, x)}
        BY <4>1, LiveHandlesResolve
      <4> QED
        BY <4>2 DEF u, k
    <3> QED
      BY <1>3, <2>2, <3>1, <3>2
  <2> QED
    BY <2>1, <2>2
<1>6. UNCHANGED returned /\ issued \subseteq issued'
  BY <1>2, <1>3
<1> HIDE DEF S
<1>7. /\ \A x \in S : InOrder(tables'[v], returned', x)
      /\ \A r \in returned' : r.session \in issued'
  BY <1>5, <1>6, SessionsUntouched
<1>8. FramesInOrder' /\ Sessions'
  BY <1>2, <1>3, <1>7, FramesInOrderIs DEF S, Sessions, IInv
<1> QED
  BY <1>3, <1>4, <1>8 DEF IInv

---------------------------------------------------------------------------
LEMMA InitIInv ==
  ASSUME Init PROVE IInv
<1>1. /\ Sound(KIND)
      /\ \A f \in DOMAIN KIND : LiveObjects(tables[f]) = {} /\ LiveHandles(tables[f]) = {}
  BY EmptySound DEF Init, Family
<1>2. DOMAIN OWNER \subseteq DOMAIN KIND /\ "VideoSession" \in DOMAIN KIND
  BY Kinds DEF Destroyed
<1> QED
  BY <1>1, <1>2 DEF Init, IInv, Owned, Sessions, FramesInOrder

\* Every step keeps the invariant and creates objects under new handles only.
LEMMA StepFacts ==
  ASSUME IInv, [Next]_apiVars
  PROVE  /\ IInv'
         /\ (\E g \in Family : tables'[g].live > tables[g].live) => issued' # issued
<1>1. issued \subseteq Handle
  BY DEF IInv, Sound
<1>2. CASE MintStep
  BY <1>2, MintKeeps
<1>3. CASE CountStep
  BY <1>3, CountKeeps
<1>4. CASE DecodeStep
  BY <1>4, DecodeKeeps
<1>5. CASE ReleaseStep
  BY <1>5, ReleaseKeeps
<1>6. CASE UNCHANGED <<tables, issued, api, returned>>
  <2>1. Sound(KIND) /\ DOMAIN KIND = Family
    BY Kinds DEF IInv
  <2>2. Sound(KIND)' /\ \A g \in Family : ~(tables'[g].live > tables[g].live)
    BY <1>6, <2>1, StutterFacts
  <2>3. Owned' /\ Sessions' /\ FramesInOrder'
    BY <1>6, FramesInOrderIs DEF IInv, Owned, Sessions
  <2> QED
    BY <2>2, <2>3 DEF IInv
<1> QED
  BY <1>1, <1>2, <1>3, <1>4, <1>5, <1>6, Steps

\* The tables of all ten backends stay sound and their references good.
THEOREM Invariance == Spec => []IInv
<1>1. Init => IInv
  BY InitIInv
<1>2. IInv /\ [Next]_apiVars => IInv'
  BY StepFacts
<1> QED
  BY <1>1, <1>2, PTL DEF Spec

\* A buffer or an allocation of OpenGL, CUDA, OpenCL, Level Zero, WebGPU or
\* SYCL hangs under a live parent as long as it exists: the handlers look the
\* parent up before they mint, and no handler removes one.
THEOREM ParentsCorrect == Spec => []ParentsLive
<1>1. IInv => ParentsLive
  BY DEF IInv, Owned, ParentsLive
<1> QED
  BY <1>1, Invariance, PTL

\* DECODE_FRAME numbers the frames of each session from 0 without gap or
\* repetition until its counter saturates, sessions in reused slots included.
THEOREM FramesCorrect == Spec => []FramesInOrder
<1>1. IInv => FramesInOrder
  BY DEF IInv
<1> QED
  BY <1>1, Invariance, PTL

\* No backend answers a creating call with a handle it gave out before.
THEOREM ReissueNever == Spec => NeverReissued
<1>1. IInv /\ [Next]_apiVars =>
        [(\E f \in Family : tables'[f].live > tables[f].live) => issued' # issued]_apiVars
  BY StepFacts
<1> QED
  BY <1>1, Invariance, PTL DEF Spec, NeverReissued

\* The teardown calls other than that of OptiX take away the object created
\* under the handle they are given, and no other.
THEOREM TeardownCorrect == Spec => DestroysWhatItNames
<1> DEFINE A == \A h \in issued :
         /\ GlDeleteBuffer(h) /\ h.kind = KIND_GL.GlBuffer => TakenAway = {h}
         /\ CudaMemFree(h) /\ h.kind = KIND_CUDA.CudaDevicePtr => TakenAway = {h}
         /\ HipFree(h) /\ h.kind = KIND_HIP.HipDevicePtr => TakenAway = {h}
         /\ ClReleaseBuffer(h) /\ h.kind = KIND_CL.ClMem => TakenAway = {h}
         /\ L0MemFree(h) /\ h.kind = KIND_L0.L0DeviceMem => TakenAway = {h}
         /\ WgpuDestroyBuffer(h) /\ h.kind = KIND_WGPU.WgpuBuffer => TakenAway = {h}
         /\ SyclFree(h) /\ h.kind = KIND_SYCL.SyclDevicePtr => TakenAway = {h}
         /\ AmfDestroyEncoder(h) /\ h.kind = KIND_AMF.AmfEncoder => TakenAway = {h}
         /\ VideoDestroySession(h) /\ h.kind = KIND_VIDEO.VideoSession => TakenAway = {h}
<1>1. ASSUME IInv PROVE A
  <2>1. /\ Sound(KIND) /\ KindsApart(KIND) /\ Destroyed \subseteq DOMAIN KIND
    BY <1>1, Kinds DEF IInv
  <2>2. ASSUME NEW f \in Destroyed, NEW h \in issued, h.kind = KIND[f], Release(f, h)
        PROVE  TakenAway = {h}
    BY <2>1, <2>2, ReleaseGone
  <2>3. ASSUME NEW h \in issued, GlDeleteBuffer(h), h.kind = KIND_GL.GlBuffer PROVE TakenAway = {h}
    BY <2>2, <2>3 DEF GlDeleteBuffer, KIND, Destroyed
  <2>4. ASSUME NEW h \in issued, CudaMemFree(h), h.kind = KIND_CUDA.CudaDevicePtr PROVE TakenAway = {h}
    BY <2>2, <2>4 DEF CudaMemFree, KIND, Destroyed
  <2>5. ASSUME NEW h \in issued, HipFree(h), h.kind = KIND_HIP.HipDevicePtr PROVE TakenAway = {h}
    BY <2>2, <2>5 DEF HipFree, KIND, Destroyed
  <2>6. ASSUME NEW h \in issued, ClReleaseBuffer(h), h.kind = KIND_CL.ClMem PROVE TakenAway = {h}
    BY <2>2, <2>6 DEF ClReleaseBuffer, KIND, Destroyed
  <2>7. ASSUME NEW h \in issued, L0MemFree(h), h.kind = KIND_L0.L0DeviceMem PROVE TakenAway = {h}
    BY <2>2, <2>7 DEF L0MemFree, KIND, Destroyed
  <2>8. ASSUME NEW h \in issued, WgpuDestroyBuffer(h), h.kind = KIND_WGPU.WgpuBuffer PROVE TakenAway = {h}
    BY <2>2, <2>8 DEF WgpuDestroyBuffer, KIND, Destroyed
  <2>9. ASSUME NEW h \in issued, SyclFree(h), h.kind = KIND_SYCL.SyclDevicePtr PROVE TakenAway = {h}
    BY <2>2, <2>9 DEF SyclFree, KIND, Destroyed
  <2>10. ASSUME NEW h \in issued, AmfDestroyEncoder(h), h.kind = KIND_AMF.AmfEncoder PROVE TakenAway = {h}
    BY <2>2, <2>10 DEF AmfDestroyEncoder, KIND, Destroyed
  <2>11. ASSUME NEW h \in issued, VideoDestroySession(h), h.kind = KIND_VIDEO.VideoSession PROVE TakenAway = {h}
    BY <2>2, <2>11 DEF VideoDestroySession, KIND, Destroyed
  <2> QED
    BY <2>3, <2>4, <2>5, <2>6, <2>7, <2>8, <2>9, <2>10, <2>11
<1>2. IInv /\ [Next]_apiVars => [A]_apiVars
  BY <1>1
<1> QED
  BY <1>2, Invariance, PTL DEF Spec, DestroysWhatItNames

\* OptiX DESTROY tries the pipelines and, only if none answers, the contexts:
\* an acknowledged call takes away exactly one object of the two families.
THEOREM OptixDestroyCorrect == Spec => OptixDestroysOne
<1> DEFINE P == "OptixPipeline"
           C == "OptixContext"
           A == \A h \in issued : OptixDestroy(h) => Cardinality(Gone(P) \cup Gone(C)) = 1
<1>1. ASSUME IInv PROVE A
  <2>1. /\ Sound(KIND) /\ KindsApart(KIND) /\ P \in DOMAIN KIND /\ C \in DOMAIN KIND
        /\ issued \subseteq Handle /\ P # C
    BY <1>1, Kinds DEF IInv, Sound, Destroyed
  <2> SUFFICES ASSUME NEW h \in issued, OptixDestroy(h)
               PROVE  Cardinality(Gone(P) \cup Gone(C)) = 1
    OBVIOUS
  <2>2. PICK f \in {P, C} : Release(f, h)
    BY DEF OptixDestroy
  <2>3. /\ \A g \in DOMAIN KIND \ {f} : tables'[g] = tables[g]
        /\ Gone(f) = {[h EXCEPT !.kind = KIND[f]]}
    BY <2>1, <2>2, ReleaseFacts
  <2>4. \A g \in {P, C} \ {f} : Gone(g) = {}
    BY <2>1, <2>3 DEF Gone
  <2>5. Gone(P) \cup Gone(C) = {[h EXCEPT !.kind = KIND[f]]}
    BY <2>1, <2>3, <2>4
  <2> QED
    BY <2>5, FS_Singleton
<1>2. IInv /\ [Next]_apiVars => [A]_apiVars
  BY <1>1
<1> QED
  BY <1>2, Invariance, PTL DEF Spec, OptixDestroysOne
===========================================================================
