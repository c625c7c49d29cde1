# GraftX: a TLA+ verification project

GraftX forwards graphics and compute API calls from a client to a server that
owns the driver. The client encodes a call as a frame, the server decodes it,
validates it, replays it on a backend and answers with a frame. Objects live on
the server and the client knows them only by 64-bit handles. This project
models the parts that have state or that two ends have to agree on: the handle
table, the backends that keep their objects in such tables, the session and its
loop, the client and its shims, the bytes between them and the streams that
carry them, the metrics that threads share, and the binaries that put these
together.

## 1. Inventory

| component | state | operations | what makes it correct |
|---|---|---|---|
| handle table (`graftx-handles`) | slots with generation, kind, value and retired mark; free list; live count | insert, try_insert, get, get_mut, remove, clear, retain, iteration | a name is given to one object ever; a stale handle never resolves; free list and count exact; exhausted slots retired |
| Vulkan backend (`graftx-server/backend.rs`) | eight tables; parents, bound memory, recorded counts | 15 opcodes | children under live parents; a binding is final; what dangles keeps dangling; teardown takes away what it names |
| ten small backends (`*_backend.rs`) | one or two tables each; frame counters | 32 opcodes | the same; frame indices in order |
| session (`session.rs`) | body limit, handshake flag, reply number, registered backends | register, handle | replies echo the request's id and are numbered; the announced limit is the one in force |
| serve loop (`serve.rs`) | position in the loop | serve, serve_with_metrics, serve_tcp | n-th reply to n-th request; ends when the peer goes; nothing sent after an error |
| client (`graftx-client`) | transport, request id and seq counters | connect, noop, typed calls | each call gets its own answer or an error; none blocks for ever |
| transport (`graftx-transport`) | two queues, or a byte stream; counters | send, recv | whole frames, once, in order; both ends count the same |
| wire protocol (`graftx-protocol`) | none | encode, decode | what one end meant is what the other reads, or it is refused |
| client shims (`graftx-client/*.rs`) | none | one per API entry point | a call with an effect succeeds; both ends agree on what is alive |
| observability (`graftx-obs`) | call statistics and latency histograms under two locks | record, record_latency, reports, reset | no call lost or counted in half under concurrency and panics; counters saturate; reports consistent |
| trace (`graftx-trace`) | recorded frames | record, replay | a replay is answered like the recording |
| server binary (`graftx-server/main.rs`) | the next session's id | serve | every connection is served, with a session of its own |
| load test (`graftx-loadtest`) | a client, a server thread, a registry | drive | ends; prints every call it made |
| cli, bench, fuzz, xtask | none that outlives a call | - | not modelled |

How they interact: a server thread owns a `Session`, which owns its backends,
which own their tables, so everything inside a session is sequential. The
concurrency is between the server thread and its peer, who share the two
directions of a transport; between connections that wait for the one that is
served; and between threads that share an `ObsRegistry`. Failure enters in four
ways: either end may drop its transport at any moment, with TCP at any byte; a
peer may send any frame; a client may present any handle (stale, of another
family, or valid by accident); a thread may panic.

The hard behaviours are therefore: reuse of slots and the end of their
generations, which a test cannot reach (2^24 removals of one slot); references
from one object to another that is destroyed; a handle that resolves in a table
it was not issued by; a peer that goes away between two steps of the loop; a
client that pairs answers with requests by order alone; renegotiation of the
body limit; field layouts and handle kinds that client, protocol and server
write down separately; a send that blocks while the peer's send blocks; a lock
whose holder panicked. `PROJECT.json` lists them at their lines under "hazards".

## 2. Modules

    HandleTableOps                 the table as operators on a value
      HandleTable                  one table and its owner    -> implements ObjectStore
      Backend                      what all backends share
        VulkanBackend              <- MCVulkanBackend
        ApiBackends                <- MCApiBackends
    Serve                          session and server loop
      Remoting                     server thread and its peer <- MCRemoting
    Wire                           opcodes, frames, bodies as bytes
      Shims                        the client's calls as data
        Calls                      client, session and backends composed
                                   (instances of VulkanBackend, ApiBackends)
                                   <- MCCalls
      Stream                       byte streams with their wrappers
        Tcp                        server binary and clients  -> implements Framed
                                   <- MCTcp
    Registry                       metrics under their locks
      LoadTest                     the threads that share them

    HandleTableOpsProofs           lemmas on table values
      HandleTableProofs            theorems about HandleTable, the refinement
      BackendProofs                lemmas all backends share
        VulkanProofs, ApiProofs    theorems about the backends
    RemotingProofs                 theorems about Serve and Remoting
    RegistryProofs                 theorems about Registry and LoadTest, and the
                                   lemmas on folds they need
    TcpProofs                      theorems about Stream and Tcp, the refinement

**HandleTableOps.** A table is a record of `len`, `slots`, `free` and `live`.
`Insert`, `Remove`, `Clear`, `Retain`, `Set` and `Resolves` are the methods of
`HandleTable<T>`. Generations live in `0 .. GENERATION_MAX` and handles mask
them like `Handle::new`; the `as u32` cast of slot indices is `% SLOT_SPACE`.
`clear` and `retain` push several slots in index order: that order is an
ascending sequence `q`.

**HandleTable.** One action per method. The handles callers present range over
every value of the handle's fields, not only over those that were issued.
`issued` is a history variable. Calls that change nothing are stuttering steps.

**ObjectStore.** The promise: create under a name never used before, write,
destroy. `HandleTable` maps a live slot to the name (slot, generation), without
the kind byte because resolution never looks at it.

**Backend, VulkanBackend, ApiBackends.** A backend is a function from families
of objects to tables. Handlers are built from `Mint`, `MintUnder`, `Check`,
`Count` and `Release`; a handler that returns an error changes nothing and ends
the session (`Reject`). Sizes, usages, codecs and offsets are stored by the
code and never read again, so objects are reduced to their parent, their bound
memory and their counter. `Stray` says whose handles are passed where another
family is expected. The ten small backends share one module; they cannot see
one another, so a behaviour follows one of them. Every one of these handlers
resolves the handles it gets before its first write, which is why rejecting and
acting are separate steps with nothing in between.

**Serve.** The position `pc` walks through recv, handle, send and record, the
points between which the peer can act. A frame is a record of the facts
`Session::handle` inspects; body lengths are kept because the limits compare
them. A call that reaches a backend either is answered with a body of one of
the lengths the backends produce, or refused. `serve` is `serve_with_metrics`
without its last step.

**Remoting.** The peer is the crate's `Client`, or any program. Client calls
are two steps, the request and the blocking receive; `connect` drops the
transport when it fails and the other calls keep it. Typed calls are not told
apart, and the checks they make on the body of an answer are left out: they
are in `Shims`.

**Wire.** A body is the list of fields that `encode` appends and the list that
`decode` takes, with their widths; `Encode` and `Decode` turn values into bytes
and back, and `Decodes` is the bounds check of `Reader`. The header is such a
body too. Every body, opcode and API number of the protocol crate is stated
here as the crate states it.

**Shims, Calls.** A shim is its opcode, its two bodies and the kind of handle it
accepts; `RequestFrame` and `Outcome` are the two halves all shims share. In
`Calls`, an application calls any shim of one API with handles of the right kind
that it was given, live or stale, or a forged one (`FITS`; the shims do not look
at the kind of an argument, and what a handle of another family does is the
subject of the backends' runs); the session decodes the bytes and routes the opcode to a handler;
the handler is an action of `VulkanBackend` or `ApiBackends`, taken with the
decoded arguments; the answer is encoded and the shim decides. Frames on the
way may be cut, padded, or carry another kind or declared length. `held` is the
application's account of the objects it owns.

**Framed, Stream, Tcp.** `Stream` writes and reads byte by byte through buffers
of `CAPACITY` bytes, so a send can block half way and a connection can break at
any byte. Every end counts and records like `CountingTransport` and
`RecordingTransport` around a `StreamTransport`. The sockets are external: a
peer reads what was written before the close, or sees a reset if the socket was
closed with bytes unread. `Tcp` adds the accept loop, `serve`, a session
reduced to its id, reply number and instance table, and three clients: one
records its calls, one replays the record and then drains the replies, one
writes bytes of its own. A frame's first byte stands for what `decode_frame`
finds in it; how that is encoded is the subject of `Wire`. `sending` holds the
frame a `send` is in the middle of, `sent` and `got` are histories of the frames
that `send` and `recv` have returned for, and `cursor` is the position of the
loop in `replay`. `Framed` is the promise: per direction a sequence of frames
sent, of which a prefix has arrived. The mapping takes for sent what an end has
written to the last byte (`HandedOver`) and for arrived what `recv` of its peer
returned (`Delivered`). It speaks of the two clients of this crate; what the
stranger writes need not be frames.

**Registry, LoadTest.** `record` takes the lock, counts the call, adds the bytes
and releases the lock in two steps; the code makes the same two kinds of update
under the lock and says of a panic in between that a "partially-applied update
is at worst a slightly stale count" (`registry.rs:11`). All else holds a lock
for one step. `LoadTest` is the program of that name, with a worker that uses
`CallGuard` and `record_latency` on the same registry, an observer that prints
reports and whoever may call `reset`; the program itself shares its registry
with its server thread only.

## 3. Runs

| run | bounds | shows |
|---|---|---|
| `handle_table` | 3 slots (all that SLOT_SPACE can number), 2 generations, 2 kinds, 2 values | type, free list, count, names and rebuilt handles exact; stale handles stay stale; the table implements `ObjectStore` |
| `vulkan` | one slot per family, two for memory, 2 generations, memory handles stray | parents alive; bindings final; freed memory and pools are never impersonated; new handles are new; teardown exact |
| `backends` | two slots of 2 generations per family, counters saturate at 2, all handles stray | the same for the ten small backends; frame order; one object per OptiX destroy |
| `remoting` | 3 frames, request ids saturate at 2, limits below, between and above the sizes of the handshake bodies | answers in order; none left over; limits as announced; metrics follow replies; every call returns and every server ends |
| `calls` | one slot of one generation per family, each scalar another value of several bytes, a handle whose bytes all differ; requests mangled while at most `FOREIGN_MAX` = 1 handle is out, replies always, and nothing is called after a mangled reply | requests are understood as meant or refused; calls with an effect succeed; results are the server's; both ends agree on what is alive |
| `tcp` | three clients, buffers of 5 bytes, frames of up to 2 bytes and their 4 bytes of length, `CALLS_MAX` = 2 calls to record, counters that saturate at 3 | the stream implements `Framed`; counters agree; a replay reproduces the replies and ends if they fit; everyone is served |
| `registry` | one round (three calls), a worker with two guarded calls, one report, one reset, one panic, counters that saturate at 3, one duration on the first bound and one on the last | statistics, histograms and reports exact; the load test's report complete; all threads end |
| `optix_destroy`, `families_apart`, `reply_limit`, `metrics`, `clean_close` | the smallest of the above | disagreements between a comment, document or test and the code (section 5) |

Why the bounds suffice. With two generations and two or three slots, each slot
is appended, reused and retired, the free list holds several slots in every
order, and two slots of different histories coexist; the theorems of section 4
remove the bounds of this run, and those of `vulkan`, `backends`, `remoting`,
`tcp` and `registry` for the properties they state. In `vulkan`, memory has two slots so that a freed
allocation can be replaced beside another live one. Three frames are a negotiation, a
renegotiation and a call, or a call in flight behind another while the peer
leaves. In `calls` one object per family is enough to make every call of every
API succeed and fail; what matters is that arguments differ in their bytes, so
that a field read in another's place is another value. In `tcp` a frame with its
length takes five or six bytes and the buffer holds five, so a frame is read in
pieces of every size and the longer ones cannot be written at once. Of two
recorded calls, the first has a reply of five bytes, which the connection just
holds while the second request is sent, or of six, one too many: then both ends
can block (TLC finds it with `CAPACITY + 1` in `RepliesFit`), so the bound of
`ReplayEnds` is met on both sides. A replay that ends gets two replies. The
stranger's bytes are a frame that is too long, an empty one, half a header, and
a request followed by the beginning of another. In `registry` the counters
saturate within the load test itself. Deadlock is checked in `handle_table`, where clear and retain are always
enabled; elsewhere a session may end, so it is not.

Fairness. In `Remoting`: weak fairness of the server's step, because the thread
is scheduled and its loop waits for nothing but a frame or a close, and of the
client's receive, because a blocked channel receive wakes up when there is
something for it or the other end is gone. Nobody is assumed to make another
call, to read a reply (arbitrary peer) or to close. In `Tcp`: weak fairness of
the server and of the two clients of this crate, which are threads that a
blocked read or write wakes up once it can go on; the stranger may stop for
ever, and nobody has to connect or crash. In `LoadTest`: weak fairness of main,
of the server thread and of the worker. `std::sync::Mutex` is not fair, but here
every thread competes for the lock with finitely many others' records; a panic,
a report or a reset is never obliged to happen.

`ReplayEnds` says that the replay and the draining of its replies come to an
end, and is conditional on purpose. `replay` reads nothing while it sends, so if the replies to all requests but the last do not fit into the connection,
server and replayer can block in `send` for ever; TLC shows it when the
condition is dropped. The comment on `replay` says that it does not read, so
this is not listed as a disagreement. Likewise `EveryoneServed` assumes that no
connection is kept for ever, since `serve_tcp` serves one at a time.

Each property has a mutant: a definition with a plausible slip that makes TLC
report the property violated (in `PROJECT.json`; the operators stand before the
definition they replace, marked "A mutant").

## 4. Proofs

The theorems are `Spec => []Inv` for invariants, `Spec => [][A]_v` for action
properties and two refinements; they hold for every value of the constants that
meets the assumptions named below. Each component has an inductive invariant
`IInv`, which TLC checked on the bounds of the component's run before it was
proved, and a lemma for each action, or for each shape of step that several
actions share.

| module | theorems (property) |
|---|---|
| `HandleTableProofs` | `Invariance`, `TypeCorrect` (`TypeOK`), `FreeListCorrect` (`FreeListExact`), `LiveCountCorrect` (`LiveCountExact`), `IssuedCorrect` (`IssuedExact`), `RebuiltCorrect` (`RebuiltHandlesWereIssued`), `StaleHandlesStayStale` (`StaleForever`), `TableImplementsStore` (`ImplementsObjectStore`) |
| `VulkanProofs` | `Invariance`, `ParentsCorrect` (`ParentsLive`), `BindingCorrect` (`BoundForLife`), `DanglingCorrect` (`DanglingStaysDangling`), `ReissueNever` (`NeverReissued`), `TeardownCorrect` (`DestroysWhatItNames`) |
| `ApiProofs` | `Invariance`, `ParentsCorrect` (`ParentsLive`), `FramesCorrect` (`FramesInOrder`), `ReissueNever` (`NeverReissued`), `TeardownCorrect` (`DestroysWhatItNames`), `OptixDestroyCorrect` (`OptixDestroysOne`) |
| `RemotingProofs` | `Invariance`, `TypeCorrect` (`TypeOK`), `AnswersCorrect` (`AnswersInOrder`), `LeftoversCorrect` (`NoLeftovers`), `UnexpectedNever` (`NeverUnexpected`), `LimitCorrect` (`AnnouncedLimitInForce`), `RecordedCorrect` (`RecordedIsSent`), `LimitNoWayBack` (`NoWayBack`) |
| `RegistryProofs` | `Invariance`, `StatsCorrect` (`StatsExact`), `ReportCorrect` (`ReportIsWhole`), `LoadReportCorrect` (`LoadReportExact`), `LatencyCorrect` (`LatencyExact`) |
| `TcpProofs` | `Invariance`, `CountsCorrect` (`CountsAgree`), `ReplayCorrect` (`ReplayReproduces`), `TcpImplementsFramed` (`ImplementsFramed`) |

**The handle table**, for every number of slots up to `SLOT_SPACE`, every
`GENERATION_MAX`, any kinds and values. `IInv` is the conjunction of the five
invariants. None is inductive alone. That `insert` does not overwrite a live
slot needs the free list to hold free slots only and each of them once; that
`remove` keeps the list free of duplicates needs a live slot not to be on it;
that the new handle is new needs the exact relation of generations and names
given out, which in turn needs that a free slot's current generation was not
given out yet; that retired slots stay out needs them off the list. The facts
about `Insert`, `Set` and `Remove` are lemmas on table values
(`HandleTableOpsProofs`), because the backends need them of every table they
keep; `clear` and `retain` are both instances of freeing a set of slots.
`StaleForever` follows from the invariant: a handle resolves newly only if its
name is given out in that step, and that name is not in `issued`.

**ObjectStore.** The mapping takes the names that resolve in the table to the
values in their slots (`ObjectsByName`: every live slot under exactly one name).
An insert is a create because its name was not used; `clear` and `retain` of
several slots are one destroy of several names; a retired or a reused slot shows
nowhere.

**The backends.** `Sound` says that each family has a well-formed table whose
handles bear the family's kind, and that every handle the client holds with that
kind came from that table. Without the last part, `NeverReissued` could not be
concluded, since `issued` is one set for all families; it is where distinct kind
bytes matter. `ParentsLive` needs that families of parents have no teardown and
that slots of other families do not touch them. `DanglingStaysDangling` needs
`BoundKnown` and `PoolKnown`: what a buffer or a command buffer refers to was
once given out by that very table, so that the table's `StaleForever` argument
applies to it (`KnownForGood`). `BIND_BUFFER_MEMORY` establishes it because it
resolves the handle in the memory table whatever kind it claims to be. For
`FramesInOrder` the video backend must have given out sessions only and frame
indices only for sessions given out (`Sessions`): otherwise a session in a reused
slot could start with the answers of another.

**Remoting**, for any peer, any number of frames and any depth of pipelining.
`Progress` counts frames received, handled and answered at each position of the
loop, `Pipe` says that what is in the channel is the end of what was sent, and
`Matched` that each answer, on the wire or about to be sent, fits the request of
its number; together they give `AnswersInOrder`, which needs no correlation by
id. `OneCall` (a client has at most one request under way) turns this into
`NoLeftovers` and `NeverUnexpected`. `Limit` and `Books` are the announced limit
and the metrics, each with its value at the points between reply, send and
record.

**The registry**, for any number of workers, rounds, calls, reports, resets and
panics, and any saturation bound. `Ledger` gives the statistics at every moment,
also while a record is half applied: what was recorded whole, what a panic cut,
and the one record the lock is held for, counted without its bytes. `StatsExact`
is its case for a free lock. That capping sums along the way equals capping the
sum is `CappedFacts`. For the reports, `Holder` says which thread holds the lock
and for which API, so that a panic of a worker cannot cut a call of the load;
`Pipe` and `Counts` say that without a reset the calls recorded are those made,
less the one on its way and the one answered and not yet recorded. When main has
joined the server thread both are nought, which gives the rows of
`LoadReportExact`; that a row is consistent after saturation is `CappedProduct`.
The total is a fold over the rows: it reaches what any two rows have together,
capped (`TotalCovers`), so it holds the load whatever else was recorded.

For `LatencyExact` a second invariant, `Histograms`, holds beside `IInv`. Each
duration belongs to the bucket `bucket_index` picks and to no other (`BucketOf`,
from the ascending bounds), so one more measurement raises one sum by one and
leaves the other sums alone (`SumBumped`, `MatchesMore`).

What a fold computes is proved by induction on the subsets of its domain
(`SubsetInduction` in `RegistryProofs`). The induction takes the set of subsets for
which the claim holds, where the library's takes a predicate the provers cannot
instantiate; a fold is then the one function that satisfies its recursion
(`FoldExists`, `FoldUnique`).

**The stream and the clients**, for buffers of any positive size, frames of any
length four bytes can write, any number of calls and any bytes from the
stranger. For each direction, `Delivery` says what the bytes on their way are.
Take everything handed to `send`, the frame under way included; let `pos[i]` be
where the i-th frame ends in the stream of bytes (`Positions`). Then the bytes
already read by the peer, those in the pipe and those still to be written are,
in this order, the encoded frames behind the last one received (`Carries`), and
the four counters are what `pos` says (`Counted`). Stated with positions, it
needs no recursion over frames: `send` extends `pos` at its end, moving a byte
leaves the concatenation as it is, and `recv` moves the number of the last frame
received up by one. `recv` cuts the right number of bytes because the four bytes
of a length give the length back (`LengthRead`). An end that has shut may have
thrown bytes away, so `Carries` is asked only while the receiver is there, and
`Prefix`, which survives it, is a part of its own. `CountsAgree` follows: with
nothing under way the last position of one end is the last position of the
other, and at all times, also when a connection broke inside a frame, the peer
is not past what was written to the last byte.

For `ReplayReproduces` four facts come together. `Replies` and `InSession` make
each reply a function of the requests up to it, with the numbers and instances
of a new session; that the session is new needs `Waiting` and `BacklogDistinct`
(a connection is accepted once, and nothing is read before). `Tape` says the
recording is request and reply in turn. `Replaying` says what the replayer has
sent is the beginning of what the recorder sent, which `cursor` finds by the
kind in a frame's header; that the recorder never leaves because a reply is too
long is `RepliesShort`. These give equal replies at equal positions
(`FitsAgree`). That the replay does not get one reply more than the recording
is the hard part: a recorder may have left without the last reply. `Refused`
says of a server that has left a client that it had met a request it does not
accept, and `Phase` keeps this fact about the recorder's last request when the
recorder leaves; the same request is then not answered in the replay.

**Framed.** The write of a frame's last byte is a send, `RecvOk` is a delivery
of the frame that is next in the sequence (by `Prefix` and `Carries`), and
everything else stutters: starting a send, moving a byte, the return of a send,
and dropping an end, which leaves a frame that was cut off out of both
histories.

Assumptions on constants, each evaluated by TLC on every run. Counts, bounds and
lengths are natural numbers; `SLOT_SPACE` is positive and tables do not grow
past it (2^32 in the code: the cast of the index, see `hazards`); request ids
have at least one value; the default body limit is not below the length of a
WELCOME, which the code's constants meet by far; a peer's frames are among those
the record `Frame` describes, where a HELLO that decodes carries a limit; the
server thread is not one of the workers; the recorder, the replayer and the
stranger are three; buffers hold at least one byte; the recorder's requests are
requests with a header and of less than 2^32 bytes, the length `send` writes in
four; the replies are not longer than what `recv` accepts (64 MiB); what the
stranger writes is a sequence of bytes; `None` differs from the values it
stands beside; the durations measured come from a finite set (they are `u64`
microseconds in the code).

Only model-checked, and why:

* liveness under fairness (`CallReturns`, `ServeEnds`, `AllEnd`, `ReplayEnds`,
  `EveryoneServed`) is outside this prover's reach;
* the properties of `Calls` (`AcceptedIsUnderstood`, `AnsweredCallsSucceed`,
  `ResultIsTheServers`, `BooksAgree`) rest on the byte codecs of `Wire`, which
  recurse over lists of fields, where what decoding gives for every value takes
  an induction over sequences; and a refusal in `Calls` is stated with the
  `ENABLED` of a handler, which this prover does not reason about.

## 5. Where code and text disagree

* **OptiX DESTROY of a context** (`optix_backend.rs:111`). It tries pipelines
  first, with a handle whose kind is not looked at. With one context and one
  pipeline, destroying the context removes the pipeline. The test
  `destroy_of_live_context_succeeds` passes because it creates no pipeline.
* **Handles across families.** HANDLES.md says a handle does not cross families;
  the tables of a backend number their slots alike, so it does.
* **The limit on replies.** `max_frame_body` is documented as what the client is
  willing to receive; the server applies it to what it receives.
* **Metrics.** A frame handled while its peer goes away is not recorded.
* **Clean close.** A close noticed by send instead of recv is an error.

More were met and have no run of their own: PROTOCOL.md says a session opens
with a handshake, and the session serves calls without one; `serve_tcp` says it
returns if accepting fails, and it continues (`AcceptFails`); `recv` of the
stream speaks of "a clean EOF on the header boundary" where the code also ends
there after part of a header (`Eof`); `reset` says it leaves "the registry
empty" and leaves the histograms (`LatencyExact` is stated accordingly); the
protocol defines three CUDA requests that no shim sends and no backend serves
(`CallUnserved`).

## 6. Not modelled, and the plan

Not modelled:

* `VecTransport` and `NullTransport`: doubles for tests, without a peer.
* The command line tool, the benchmark, the fuzz driver and xtask: sequential
  programs of input and output. xtask compares documents with source text, which
  is parsing of strings and nothing else.
* Wording and layout of reports, spans, log lines, the clock, memory (a count on
  the wire that makes a decoder reserve too much, a slot index past 2^32).
* A panic in a predicate passed to `retain`: no caller passes one that can.

The model is complete in the sense that every operation of the library crates
that changes state is an action. Every invariant and action property of the
runs is also a theorem, except those of `Calls`. What is left is proof, in this
order:

1. the codecs of `Wire`: that a body's bytes give its values back, for lists of
   fields of any length. `LengthRead` in `TcpProofs` is the case of one field of
   four bytes, and positions of fields can stand for the recursion as positions
   of frames do there;
2. in `Calls`, refusals stated by the handlers' guards instead of `ENABLED`, and
   then the facts about the books that do not depend on the codecs.
