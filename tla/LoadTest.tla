------------------------------ MODULE LoadTest ------------------------------
(***************************************************************************)
(* The load generator and its company.  The main thread drives a client    *)
(* through rounds of two Vulkan calls; the server thread answers and       *)
(* records each call after its reply is sent; main joins it and reads the  *)
(* registry.  Workers share the registry, which is what it is made for:    *)
(* they record calls of another API through a CallGuard and measure them.  *)
(* An observer prints reports, and anyone may reset the statistics.        *)
(*                                                                         *)
(* A thread may panic in a record, the case for which the registry ignores *)
(* poison, or, a worker, under its guard: unwinding drops the guard, which *)
(* records the call.                                                       *)
(***************************************************************************)
EXTENDS Registry

CONSTANTS
  Workers,
  ROUNDS,       \* rounds of the load generator
  CALLS_MAX,    \* bounds the guarded calls of a worker
  REPORTS_MAX,  \* bounds the reports
  RESETS_MAX,   \* bounds the resets
  PANICS_MAX,   \* bounds the panics
  Bytes,        \* the byte counts a worker sets, apart from zero
  FRAME         \* the length of the frames of the load generator

\* What a thread hands to record, and where it comes from.
Record ==
  [thread : Workers \cup {"server"}, api : {"core", "vulkan", "opengl"},
   bytes_out : Nat, bytes_in : Nat]

ASSUME LoadAssumption ==
  /\ ROUNDS \in Nat
  /\ CALLS_MAX \in Nat
  /\ FRAME \in Nat
  /\ Bytes \subseteq Nat
  /\ "server" \notin Workers
ASSUME NoneAssumption == None \notin Nat \cup Record

VARIABLES
  main,      \* where the main thread is
  server,    \* where the server thread is
  served,    \* the call it is serving
  worker,    \* where a worker is: its guard's bytes, calls left
  observer,  \* where the observer is, the rows and total it prints, reports made
  request, reply,  \* the frame on its way, by number; None if there is none
  issued,    \* calls the client has made
  connected, \* the client holds its end
  report,    \* what main has found: an error, or a total and rows
  resets, panics \* how often this has happened

threadVars ==
  <<main, server, served, worker, observer, request, reply, issued, connected, report,
    resets, panics>>
vars == <<registryVars, threadVars>>

\* The handshake, then the rounds.
LOAD == 1 + 2 * ROUNDS

\* api_name of the k-th call.
ApiOf(k) == IF k = 1 THEN "core" ELSE "vulkan"

Init ==
  /\ InitRegistry
  /\ main = "calling"
  /\ server = "recv"
  /\ served = None
  /\ worker = [w \in Workers |-> [at |-> "idle", bytes |-> 0, left |-> CALLS_MAX]]
  /\ observer = [at |-> "idle", rows |-> << >>, total |-> CallStats, reports |-> 0]
  /\ request = None
  /\ reply = None
  /\ issued = 0
  /\ connected = TRUE
  /\ report = None
  /\ resets = 0
  /\ panics = 0

---------------------------------------------------------------------------
(***************************************************************************)
(* main: drive and run_client.                                             *)
(***************************************************************************)
Call ==
  /\ main = "calling"
  /\ issued < LOAD
  /\ server # "panicked"
  /\ issued' = issued + 1
  /\ request' = issued + 1
  /\ main' = "waiting"
  /\ UNCHANGED <<registryVars, server, served, worker, observer, reply, connected, report,
                 resets, panics>>

CallReturns ==
  /\ main = "waiting"
  /\ reply # None
  /\ reply' = None
  /\ main' = "calling"
  /\ UNCHANGED <<registryVars, server, served, worker, observer, request, issued, connected,
                 report, resets, panics>>

\* A mutant: the client lives until drive returns.
RunClientEndsLate ==
  /\ main = "calling"
  /\ issued = LOAD
  /\ main' = "joining"
  /\ UNCHANGED <<registryVars, server, served, worker, observer, request, reply, issued, connected,
                 report, resets, panics>>

\* run_client returns and drops the client.
RunClientEnds ==
  /\ main = "calling"
  /\ issued = LOAD
  /\ connected' = FALSE
  /\ main' = "joining"
  /\ UNCHANGED <<registryVars, server, served, worker, observer, request, reply, issued, report,
                 resets, panics>>

\* The server's end is gone: send or recv fails.
RunClientFails ==
  /\ server = "panicked"
  /\ \/ main = "waiting" /\ reply = None
     \/ main = "calling" /\ issued < LOAD
  /\ connected' = FALSE
  /\ report' = [ok |-> FALSE, total |-> CallStats, rows |-> << >>]
  /\ main' = "joining"
  /\ UNCHANGED <<registryVars, server, served, worker, observer, request, reply, issued, resets,
                 panics>>

\* A mutant: drive does not wait for the server thread.
JoinDetached ==
  /\ main = "joining"
  /\ report' = IF report # None THEN report
               ELSE [ok |-> server # "panicked", total |-> CallStats, rows |-> << >>]
  /\ main' = IF report'.ok THEN "reporting" ELSE "ended"
  /\ UNCHANGED <<registryVars, server, served, worker, observer, request, reply, issued, connected,
                 resets, panics>>

\* server.join(): an error of the client comes first, then a panic.
Join ==
  /\ main = "joining"
  /\ server \in {"ended", "panicked"}
  /\ report' = IF report # None THEN report
               ELSE [ok |-> server # "panicked", total |-> CallStats, rows |-> << >>]
  /\ main' = IF report'.ok THEN "reporting" ELSE "ended"
  /\ UNCHANGED <<registryVars, server, served, worker, observer, request, reply, issued, connected,
                 resets, panics>>

\* main sums the registry, then prints its report: two visits to the lock.
TakeTotal ==
  /\ main = "reporting"
  /\ Unlocked
  /\ report' = [report EXCEPT !.total = Total(inner)]
  /\ main' = "printing"
  /\ UNCHANGED <<registryVars, server, served, worker, observer, request, reply, issued, connected,
                 resets, panics>>

PrintReport ==
  /\ main = "printing"
  /\ Unlocked
  /\ report' = [report EXCEPT !.rows = inner]
  /\ main' = "ended"
  /\ UNCHANGED <<registryVars, server, served, worker, observer, request, reply, issued, connected,
                 resets, panics>>

Main ==
  \/ Call \/ CallReturns \/ RunClientEnds \/ RunClientFails \/ Join \/ TakeTotal \/ PrintReport

---------------------------------------------------------------------------
(***************************************************************************)
(* The server thread: serve_with_metrics.                                  *)
(***************************************************************************)
ServeReply ==
  /\ server = "recv"
  /\ request # None
  /\ request' = None
  /\ served' = request
  /\ reply' = request
  /\ server' = "replied"
  /\ UNCHANGED <<registryVars, main, worker, observer, issued, connected, report,
                 resets, panics>>

ServeRecords ==
  /\ server = "replied"
  /\ StartRecord("server", ApiOf(served), FRAME, FRAME)
  /\ server' = "recording"
  /\ UNCHANGED <<main, served, worker, observer, request, reply, issued, connected, report,
                 resets, panics>>

ServeRecorded ==
  /\ server = "recording"
  /\ FinishRecord("server")
  /\ served' = None
  /\ server' = "recv"
  /\ UNCHANGED <<main, worker, observer, request, reply, issued, connected, report, resets, panics>>

ServeEnds ==
  /\ server = "recv"
  /\ request = None
  /\ ~connected
  /\ server' = "ended"
  /\ UNCHANGED <<registryVars, main, served, worker, observer, request, reply, issued,
                 connected, report, resets, panics>>

ServePanics ==
  /\ server = "recording"
  /\ panics < PANICS_MAX
  /\ PanicInRecord("server")
  /\ panics' = panics + 1
  /\ server' = "panicked"
  /\ UNCHANGED <<main, served, worker, observer, request, reply, issued, connected, report,
                 resets>>

Server == ServeReply \/ ServeRecords \/ ServeRecorded \/ ServeEnds

---------------------------------------------------------------------------
(***************************************************************************)
(* Workers: a guard, what it records, and a latency.                       *)
(***************************************************************************)
Becomes(w, state) == worker' = [worker EXCEPT ![w] = state]

othersOfWorker ==
  <<main, server, served, observer, request, reply, issued, connected, report, resets>>

Begin(w) ==
  /\ worker[w].at = "idle"
  /\ worker[w].left > 0
  /\ Becomes(w, [at |-> "guarded", bytes |-> 0, left |-> worker[w].left - 1])
  /\ UNCHANGED <<registryVars, othersOfWorker, panics>>

\* Overwrites what was set before; here, with more.
set_bytes(w) ==
  /\ worker[w].at = "guarded"
  /\ \E b \in Bytes :
       /\ b > worker[w].bytes
       /\ Becomes(w, [worker[w] EXCEPT !.bytes = b])
  /\ UNCHANGED <<registryVars, othersOfWorker, panics>>

\* The guard goes out of scope, or a panic unwinds through it.
DropGuard(w) ==
  /\ worker[w].at \in {"guarded", "unwinding"}
  /\ StartRecord(w, "opengl", worker[w].bytes, worker[w].bytes)
  /\ Becomes(w, [worker[w] EXCEPT !.at = IF @ = "guarded" THEN "dropping" ELSE "dying"])
  /\ UNCHANGED <<othersOfWorker, panics>>

Dropped(w) ==
  /\ FinishRecord(w)
  /\ Becomes(w, [worker[w] EXCEPT !.at = IF @ = "dropping" THEN "measuring" ELSE "dead"])
  /\ UNCHANGED <<othersOfWorker, panics>>

\* The elapsed time of a Timer, or of time_call, is recorded.
Measure(w) ==
  /\ worker[w].at = "measuring"
  /\ \E d \in Durations : record_latency("opengl", d)
  /\ Becomes(w, [worker[w] EXCEPT !.at = "idle"])
  /\ UNCHANGED <<othersOfWorker, panics>>

PanicUnderGuard(w) ==
  /\ worker[w].at = "guarded"
  /\ panics < PANICS_MAX
  /\ panics' = panics + 1
  /\ Becomes(w, [worker[w] EXCEPT !.at = "unwinding"])
  /\ UNCHANGED <<registryVars, othersOfWorker>>

PanicInDrop(w) ==
  /\ worker[w].at = "dropping"
  /\ panics < PANICS_MAX
  /\ PanicInRecord(w)
  /\ panics' = panics + 1
  /\ Becomes(w, [worker[w] EXCEPT !.at = "dead"])
  /\ UNCHANGED othersOfWorker

Worker(w) == Begin(w) \/ set_bytes(w) \/ DropGuard(w) \/ Dropped(w) \/ Measure(w)

---------------------------------------------------------------------------
(***************************************************************************)
(* The observer.                                                           *)
(***************************************************************************)
othersOfObserver ==
  <<main, server, served, worker, request, reply, issued, connected, report, panics>>

\* report and to_json copy the rows under the lock ...
TakeRows ==
  /\ observer.at = "idle"
  /\ observer.reports < REPORTS_MAX
  /\ Unlocked
  /\ observer' = [observer EXCEPT !.at = "summing", !.rows = inner, !.reports = @ + 1]
  /\ UNCHANGED <<registryVars, othersOfObserver, resets>>

\* A mutant: ... and call total for the last row.
SumRowsAgain ==
  /\ observer.at = "summing"
  /\ Unlocked
  /\ observer' = [observer EXCEPT !.at = "printed", !.total = Total(inner)]
  /\ UNCHANGED <<registryVars, othersOfObserver, resets>>

\* ... and sum what they have copied, without it.
SumRows ==
  /\ observer.at = "summing"
  /\ observer' = [observer EXCEPT !.at = "printed", !.total = Total(observer.rows)]
  /\ UNCHANGED <<registryVars, othersOfObserver, resets>>

Forget ==
  /\ observer.at = "printed"
  /\ observer' = [observer EXCEPT !.at = "idle", !.rows = << >>, !.total = CallStats]
  /\ UNCHANGED <<registryVars, othersOfObserver, resets>>

\* Whoever shares the registry may clear it at any time.
Reset ==
  /\ resets < RESETS_MAX
  /\ reset
  /\ resets' = resets + 1
  /\ UNCHANGED <<observer, othersOfObserver>>

Next ==
  \/ Main
  \/ Server
  \/ ServePanics
  \/ \E w \in Workers : Worker(w) \/ PanicUnderGuard(w) \/ PanicInDrop(w)
  \/ TakeRows \/ SumRows \/ Forget \/ Reset

\* Threads run; nothing obliges one to panic, and nobody to observe. A mutex
\* is not fair, but whoever waits for this one competes with finitely many
\* records, each of which releases it, and with reports, which the scheduler
\* cannot prefer for ever.
Spec ==
  /\ Init
  /\ [][Next]_vars
  /\ WF_vars(Main)
  /\ WF_vars(Server)
  /\ \A w \in Workers : WF_vars(Worker(w))

---------------------------------------------------------------------------
\* A printed report shows one moment, though threads record and reset while
\* it is put together: no call is in it by half (unless a panic cut it), and
\* its TOTAL is the sum of its rows.
ReportIsWhole ==
  observer.at = "printed" =>
    /\ observer.total = Total(observer.rows)
    /\ server # "panicked" =>
         \A api \in DOMAIN observer.rows \cap {"core", "vulkan"} :
           observer.rows[api].bytes_out = Capped(FRAME * observer.rows[api].calls)

\* What the load generator prints is exact: after the join its rows hold every
\* call it made, the last one included, which the server records after main has
\* had its reply, and none is missing from the total. It fails only if the
\* server thread itself panicked; the panic of another thread that shares the
\* registry, lock held or not, does not reach it.
LoadReportExact ==
  main = "ended" =>
    IF server = "panicked" THEN ~report.ok
    ELSE /\ report.ok
         /\ resets = 0 =>
              LET row(api) == Entry(report.rows, api, CallStats)
              IN  /\ row("core").calls = Capped(1)
                  /\ row("vulkan").calls = Capped(2 * ROUNDS)
                  /\ row("vulkan").bytes_out = Capped(FRAME * (2 * ROUNDS))
                  /\ report.total.calls >= Capped(LOAD)

\* Every thread comes to its end, the server's join included, and no lock stays
\* with a thread that panicked.
AllEnd ==
  <>[](/\ main = "ended"
       /\ server \in {"ended", "panicked"}
       /\ \A w \in Workers : worker[w].at \in {"idle", "dead"}
       /\ Unlocked)
=============================================================================
