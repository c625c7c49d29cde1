------------------------------ MODULE Registry ------------------------------
(***************************************************************************)
(* An ObsRegistry shared by threads: call statistics per API behind one    *)
(* lock, latency histograms behind another.                                *)
(*                                                                         *)
(* A record takes the first lock and updates an entry in two steps here,   *)
(* so that a thread can panic between them; the lock is then poisoned,     *)
(* which the registry ignores, and the record stays half applied.  Every   *)
(* other operation holds its lock for a single step.                       *)
(***************************************************************************)
EXTENDS Integers, FiniteSets, FiniteSetsExt, Functions

CONSTANTS
  STAT_MAX,   \* where counters saturate, u64::MAX in the code
  Durations,  \* the latencies that are measured, in microseconds
  None

ASSUME RegistryAssumption ==
  STAT_MAX \in Nat /\ Durations \subseteq Nat /\ IsFiniteSet(Durations)

VARIABLES
  inner,     \* CallStats by API name, for the names recorded so far
  latency,   \* LatencyHist by API name
  lockedBy,  \* the thread in a record and what it records, or None
  done,      \* history: per API, the records completed since the last reset
  torn,      \* history: per API, the records cut by a panic since then
  measured   \* history: how often each latency was recorded, by API name

registryVars == <<inner, latency, lockedBy, done, torn, measured>>

\* A mutant: the counters wrap.
PlusWraps(a, b) == (a + b) % (STAT_MAX + 1)

\* saturating_add.
Plus(a, b) == IF a + b > STAT_MAX THEN STAT_MAX ELSE a + b

CallStats == [calls |-> 0, bytes_out |-> 0, bytes_in |-> 0]

Merge(s, o) ==
  [calls |-> Plus(s.calls, o.calls), bytes_out |-> Plus(s.bytes_out, o.bytes_out),
   bytes_in |-> Plus(s.bytes_in, o.bytes_in)]

AddBytes(s, out, in) ==
  [calls |-> s.calls, bytes_out |-> Plus(s.bytes_out, out), bytes_in |-> Plus(s.bytes_in, in)]

\* The entry of a map, or its default.
Entry(map, api, default) == IF api \in DOMAIN map THEN map[api] ELSE default

\* The map with an entry written.
Put(map, api, v) == [a \in DOMAIN map \cup {api} |-> IF a = api THEN v ELSE map[a]]

InitRegistry ==
  /\ inner = << >>
  /\ latency = << >>
  /\ lockedBy = None
  /\ done = << >>
  /\ torn = << >>
  /\ measured = << >>

---------------------------------------------------------------------------
(***************************************************************************)
(* Call statistics.                                                        *)
(***************************************************************************)
Unlocked == lockedBy = None

\* record: take the lock, poisoned or not, find or create the entry, count.
StartRecord(t, api, out, in) ==
  /\ Unlocked
  /\ lockedBy' = [thread |-> t, api |-> api, bytes_out |-> out, bytes_in |-> in]
  /\ LET s == Entry(inner, api, CallStats)
     IN  inner' = Put(inner, api, [s EXCEPT !.calls = Plus(@, 1)])
  /\ UNCHANGED <<latency, done, torn, measured>>

Recording(t) == lockedBy # None /\ lockedBy.thread = t

\* record: add the bytes, release the lock.
FinishRecord(t) ==
  /\ Recording(t)
  /\ LET r == lockedBy
         d == Entry(done, r.api, CallStats)
     IN  /\ inner' = [inner EXCEPT ![r.api] = AddBytes(@, r.bytes_out, r.bytes_in)]
         /\ done' = Put(done, r.api,
                        [calls |-> d.calls + 1, bytes_out |-> d.bytes_out + r.bytes_out,
                         bytes_in |-> d.bytes_in + r.bytes_in])
  /\ lockedBy' = None
  /\ UNCHANGED <<latency, torn, measured>>

\* A panic while the lock is held.
PanicInRecord(t) ==
  /\ Recording(t)
  /\ torn' = Put(torn, lockedBy.api, Entry(torn, lockedBy.api, 0) + 1)
  /\ lockedBy' = None
  /\ UNCHANGED <<inner, latency, done, measured>>

\* total, and the TOTAL row of report and to_json: the sum of a copy.
Total(rows) == FoldFunction(Merge, CallStats, rows)

reset ==
  /\ Unlocked
  /\ inner' = << >>
  /\ done' = << >>
  /\ torn' = << >>
  /\ UNCHANGED <<latency, lockedBy, measured>>

---------------------------------------------------------------------------
(***************************************************************************)
(* Latency histograms.                                                     *)
(***************************************************************************)
BUCKETS == 12

\* Exclusive bounds of all buckets but the last.
UPPER_BOUNDS_US ==
  [i \in 0 .. BUCKETS - 2 |-> <<1, 2, 4, 8, 16, 32, 64, 128, 256, 512, 1024>>[i + 1]]

LatencyHist == [i \in 0 .. BUCKETS - 1 |-> 0]

\* A mutant: bounds are inclusive.
bucket_indexInclusive(micros) ==
  Min({i \in DOMAIN UPPER_BOUNDS_US : micros <= UPPER_BOUNDS_US[i]} \cup {BUCKETS - 1})

\* The first bucket the value falls under.
bucket_index(micros) ==
  Min({i \in DOMAIN UPPER_BOUNDS_US : micros < UPPER_BOUNDS_US[i]} \cup {BUCKETS - 1})

record_latency(api, d) ==
  /\ LET h == Entry(latency, api, LatencyHist)
         m == Entry(measured, api, [x \in Durations |-> 0])
     IN  /\ latency' = Put(latency, api, [h EXCEPT ![bucket_index(d)] = Plus(@, 1)])
         /\ measured' = Put(measured, api, [m EXCEPT ![d] = @ + 1])
  /\ UNCHANGED <<inner, lockedBy, done, torn>>

---------------------------------------------------------------------------
Capped(n) == IF n > STAT_MAX THEN STAT_MAX ELSE n

\* Whenever the lock is free, the statistics are those of the calls recorded
\* since the last reset, by whatever threads, capped and not wrapped; records
\* that a panic cut short are counted, without their bytes.
StatsExact ==
  Unlocked =>
    /\ DOMAIN inner = DOMAIN done \cup DOMAIN torn
    /\ \A api \in DOMAIN inner :
         LET d == Entry(done, api, CallStats)
         IN  inner[api] = [calls     |-> Capped(d.calls + Entry(torn, api, 0)),
                           bytes_out |-> Capped(d.bytes_out),
                           bytes_in  |-> Capped(d.bytes_in)]

\* The latencies between the bounds of a bucket.
Bucket(i) ==
  {d \in Durations : /\ i > 0 => d >= UPPER_BOUNDS_US[i - 1]
                     /\ i < BUCKETS - 1 => d < UPPER_BOUNDS_US[i]}

\* The histograms are exact: each bucket holds the number of latencies from
\* its lower bound to below its upper one, capped, all there ever were,
\* whatever happened to the statistics by reset or by a panic.
LatencyExact ==
  /\ DOMAIN latency = DOMAIN measured
  /\ \A api \in DOMAIN latency, i \in 0 .. BUCKETS - 1 :
       latency[api][i] = Capped(SumFunctionOnSet(measured[api], Bucket(i)))
=============================================================================
