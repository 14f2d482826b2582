# A formal model of WS-Perftester

WS-Perftester stress-tests a WebSocket echo server from many processes on many
machines. This directory holds TLA+ models of its coordination protocol and of
its WebSocket clients, of the worker that runs them, of the computation of the
report and of the TLS echo server it comes with; the TLC configurations that
check them; and TLAPS proofs.
Paths and line numbers below refer to the repository (`src/`).

## 1. The system

| Part | Source | State it keeps | Operations | Talks to |
|---|---|---|---|---|
| Controller | `controller.cpp` | counters of synchronised listeners and workers, of finished and died workers, of results; latency sums | repeat HELLO_LISTENER / HELLO_SOCKET on a 5 s timeout, answer and count requests, broadcast StartProcesses, StartWebsockets, END, collect | PUB 5561, REP 5562, REP 5563, PULL 5564 |
| Listener (one per machine) | `listener.cpp` | place in `main`, number of unfinished children | answer HELLO_LISTENER, start the workers, reap them with `waitpid`, push "Finished", end | SUB, REQ 5562, PUSH 5564; `fork`/`waitpid` |
| Worker process | `listener-websocket.cpp` | place in `main`, its clients | answer HELLO_SOCKET, run the clients (`doTheWork`), push one "Result" per client, exit | SUB, REQ 5563, PUSH 5564 |
| ZeroMQ sockets | `zmq.hpp`, `zhelpers.hpp` | subscriptions, queues | send, receive | all of the above |
| Telemetry client | `clients/base-client.hpp`, `clients/telemetry-client*.hpp` | flags, message count, start time, latency statistics, connection | run, wait, four handlers, the telemetry loop, `get_stats` | the echo server, through websocketpp |
| Mobile signaling client | `clients/mobile-signaling-client.hpp`, `plain-client.cpp` | the same over two connections | the same | two servers |
| TLS echo server | `utils/ssl-server.cpp` | one session object and buffer per connection | accept, handshake, read, write, delete | the test clients |
| TLS test client | `utils/ssl-client.cpp` | request and reply | connect, handshake, write, read | the echo server |
| Deployment, limits, build | `utils/*.sh`, `utils/*.conf`, `SConstruct`, `SConscript` | none of the program | | |

A test runs like this. The controller publishes HELLO_LISTENER every 5 seconds
until `machines` listeners have sent a request. It publishes StartProcesses;
each listener starts `processes` workers. The controller publishes HELLO_SOCKET
every 5 seconds until it has counted `machines * processes` requests, and then
StartWebsockets. Each worker runs `instances` clients, pushes a "Result" for
each and exits; its listener pushes "Finished". When the controller has counted
`machines * processes` "Finished" it prints the report and publishes END.

What is hard here, and what correctness means:

* **PUB drops silently** whatever is published before a subscription arrives.
  Correct: nobody who has been counted misses a broadcast.
* **The barriers count anonymous requests.** Correct: when a barrier opens,
  everybody is behind it.
* **Everybody waits for somebody**, and workers may be killed at any point
  (`utils/kill-clients.sh`, or a throwing client thread). Correct: the test ends,
  and each exit and each result is counted once.
* **Results and exits travel on different connections.** Their order at the
  controller is not the order in which they were sent.
* **The client has three threads** and one mutex that does not cover
  everything. Correct: a latency belongs to the message it is recorded for, a
  client comes to an end, and its report says what happened.
* **One process runs many clients** and any of them can take it down. Correct:
  a worker reports on clients that have ended, on each once, or on none.
* **The report is computed from printed numbers**, some of them missing or
  uninitialised. Correct: the frames are read for what they are, and the
  statistics are those of what was measured.

`PROJECT.json` lists these as hazards, each at its line.

## 2. Modules

| Module | Models |
|---|---|
| `Network` | the four ZeroMQ sockets |
| `Worker` | `listener-websocket.cpp` (extends `Network`) |
| `Listener` | `listener.cpp` (extends `Worker`, the parent of its processes) |
| `Controller` | `controller.cpp` (extends `Network`) |
| `TestRun` | what the coordination promises, without sockets, HELLOs and counters |
| `PerfTest` | the composition, its specification and its properties; implements `TestRun` |
| `MCPerfTest` | `PerfTest` for TLC: symmetry |
| `PerfTestProof` | proofs about `PerfTest`: its types, and the first barrier |
| `BarrierProof` | proofs about `PerfTest`: launching, the reaping loop and the second barrier (extends `PerfTestProof`) |
| `ReportProof` | proofs about `PerfTest`: what is counted and reported, and the refinement of `TestRun` (extends `BarrierProof`) |
| `ResultSink` | the collecting loop of `controller.cpp`, frame by frame and with its numbers; implements the one of `Controller` |
| `ResultSinkProof` | proofs about `ResultSink`, with a small theory of sums over finite sets |
| `ClientLife` | what a WebSocket client promises to the worker that runs it |
| `DoTheWork` | `doTheWork` in one worker: four loops over several clients of `ClientLife`; implements `Worker` |
| `DoTheWorkProof` | proofs about `DoTheWork` |
| `TelemetryClient` | `base-client.hpp`: main, asio and telemetry thread, connection, server; implements `ClientLife` |
| `TelemetryClientProof` | proofs about `TelemetryClient` |
| `MobileClient` | `mobile-signaling-client.hpp` as `plain-client.cpp` runs it: the same threads over two links |
| `MobileClientProof` | proofs about `MobileClient` |
| `EchoServer` | `utils/ssl-server.cpp` and `utils/ssl-client.cpp` |
| `MCEchoServer` | `EchoServer` for TLC: the request |
| `EchoServerProof` | proofs about `EchoServer` |

### Network

`subs[s]` is how many of the subscriptions of `s` have reached the publisher:
they travel on one connection in program order, so the publisher knows a prefix
of them. `Publish` appends to the inbox of those that are `Subscribed` and
nothing to the others. A multipart message is one message (ZeroMQ delivers it
whole); topics stand for their contents. The two REQ/REP pairs are two pairs of
sets, since each party has one request at a time. PUSH/PULL is one queue per
sender: order is kept within a connection only. ZeroMQ is external and modelled
from its use here.

HELLO messages repeat for ever; `MaxHello` bounds how many wait unread in one
inbox (a further one is not kept). Receivers ignore all but the first, so the
bound hides nothing but longer queues of ignored messages.

### Worker, Listener, Controller

`wpc`, `lpc` and `cpc` say in which blocking call each `main` is. One action is
one pass from a blocking call to the next.

* The controller's timeout is an action (`HelloListeners`, `HelloSockets`) that
  may happen even while a request is on its way: the receive gives up, the
  request arrives, HELLO is published.
* `Reap` is one pass of the `waitpid` loop that gets an outcome. `WaitPid` keeps
  all three: a zombie; none yet (no step: the loop sleeps); and -1 with no child
  left, where the status is uninitialised and therefore any status.
* "Finished" has four frames and the collecting loop reads three: the variable
  `delimiter` is the fourth, which the next pass reads and ignores.
* `WorkerReturns` may happen before all results are pushed: `main` swallows the
  exceptions of `doTheWork` and exits with 0.
* `WorkerKilled` may happen at any point of a running worker. What its ZeroMQ
  thread had not written is lost: a suffix of its results, possibly its request.
* A result is "complete" (type success and all messages echoed) or
  "incomplete": all the verdict at `controller.cpp:183` tells apart.
* `counted` is a history variable: the workers behind the counter `processes`.
* A launch may fail (`LaunchFails`): `bp::launch` throws after some of the
  children have been started, nothing catches it, and the listener is gone
  (`lpc = "crashed"`). Its children live on and answer HELLO_SOCKET.

### TestRun, and PerfTest as its refinement

`TestRun` knows four phases, the life of each worker, the set of workers that
have been waited for, and the report. Its `Start` waits until the configured number has
been launched, its `Report` until each of them has been waited for, and what it
reports are the numbers of workers that completed and died. In `PerfTest` the
phase is `cpc`, the life of a worker its `wpc` and `wstatus`, the report the two
counters once the controller has ended. The controller sees neither `wpc` nor
who has been waited for: that its counters agree with them is what the
refinement says. Subscriptions, HELLOs, requests, answers and the counting are
stuttering steps.

### ResultSink

`Controller` takes a message whole; `ResultSink` reads it with one `s_recv` per
frame, as the loop does, and with the numbers. `Connections` are what a client
can end with (the results of `ClientLife`, with the samples themselves),
`get_stats` what is printed of it and `Extract` what `>>` makes of it: at the
first field that does not parse, which is the `nan` of a mean of no samples, the
field becomes 0 and those after it stay uninitialised, that is, any member of
`Garbage`. Latencies and setup times are whole numbers of microseconds, as
`elapsed.count()` is, of any length: the clock is assumed not to run backwards, and
nothing else is assumed of them. What is printed is counted in millionths of a
microsecond ("micro-units"; of a squared one for variances), and `Print6` is what `<<` does to a
double: it rounds to six significant digits, with `SixthPlace` the place of the
last of them. The code divides by 1000 to print milliseconds, which moves the point and
leaves the digits. Three things are simplified: a double's own rounding, some ten digits
further down, is left out; a tie is rounded up; and below 0.1 microseconds, where `<<` still
has six digits, the model has only its micro-units. `Total` and `Squares` are sums over the samples, and
`Spread` is the population variance times the square of the number of samples,
which is an integer. Which process a message comes from does not matter here; messages
arrive in any order.

`ImplementsController` maps the loop to the one of `Controller`, of which the composed
test is made and which takes a message whole: the message under way stays in the
queue of one sender until its last frame that counts has been read, `delimiter`
is the frame of a "Finished" that is left, and a connection's outcome is derived
from its samples while the loop derives it from printed text.

### ClientLife and DoTheWork

`ClientLife` is the client as `doTheWork` sees it: created, running, done,
joined, or the ways in which it takes the process with it, and the statistics
it ends with. `TelemetryClient` implements it: `LifeOf` derives the life from
the states of its three threads.

`DoTheWork` has one action per pass of each of the four loops, next to the
threads of every client that has been started. Every pass may throw where the
code can: the constructor (no descriptors for asio), `run` (either thread cannot
be created), sending a result. `thread_type` is `std::thread` in this build, so
an exception that destroys a client with a joinable thread terminates the
process (`dpc = "dead"`) before the catch clause of `main` is reached; otherwise
`main` returns 0 (`"caught"`). All clients get the same uri, so `uriOk` is one
choice for all. `send_messages`, which the repository's `README.md:23` names as a
parameter of a test, is passed to `doTheWork` and never used there.

`Worker` is what the composed test is made of; `ImplementsWorker` maps one
process of `DoTheWork` to one worker of it, with `sink` as its result queue.

### TelemetryClient

Every handler, and each of the two locked blocks of `telemetry_loop`, is one
step; so is the unlocked reset after a failed send. `conn` is the state
websocketpp keeps, `event` the handler the asio thread is about to run: the
connection changes first, its handler runs later, and the telemetry thread can
act in between. Messages are numbered, and `m_start` is the number of the message whose
sending it is the time of, so that a latency sample `[echo, start]` is right iff both
agree. `close()` throws on a connection that is not open; nothing catches it in
that thread, and the process is gone (`tpc = "terminated"`). `run` may return
early, after which `wait` dereferences null pointers (`mpc = "crashed"`).

websocketpp and the server are external: an attempt to connect succeeds or
fails; an open connection delivers the echoes in order, or is ended by the
server with a close frame or by dropping it; a closing handshake ends or times
out. An echo that arrives after the client has begun to close is dropped.

### MobileClient

The threads and steps are those of `TelemetryClient`; the connection is a
function from the two links to their states, and a handler event names its
link. `on_open_primary` is two steps, because the telemetry thread may start
after `base_client::on_open` and before `connect_signaling`. (The two threads
also race on `m_hdl_signaling` there; no more than an old or a new handle is
modelled.) `send_message` gives what reaches the wire: one copy, on the first
link that takes it. `hdl` holds the handles that are assigned. websocketpp
releases a connection some time after it has closed, so `on_fail` finds a
closed primary or a null pointer, either way. The endpoint is perpetual: its
thread ends after `stop_perpetual` when no link is left.

External, besides what holds for `TelemetryClient`: an echo may come back by
either link, and what was under way on a link that its peer ends is lost or
answered by the other. `run` never sets `m_con_start`, so the setup time this
client logs is the age of the clock's epoch; it is not modelled, since only the
log and `get_stats` use it.

### EchoServer

Sessions and test clients are chains of asynchronous operations; `spc` and `cpc`
say which operation each waits for, and an action is the completion of one with
its handler (for a write, which may take several pieces, the progress of one).
The session that accepts a client carries its name. `data_` holds what has been
read and not yet written. Boost.Asio, OpenSSL and TCP are external: bytes arrive
in order and in pieces of any size, an accept may fail, a connection may break
at any time and lose what was under way. A client's process ends with its last
handler and closes its connection.

## 3. What TLC checks

| Run | Checks | Shows |
|---|---|---|
| `sync` | `TypeOK`, `NoMissedRequest`, `NoMissedStart`, `NoOrphans`, `ImplementsTestRun`, `TestEnds` | 3 listeners, 2 wanted, 1 worker each, 2 HELLOs unread: both barriers hold although subscriptions arrive at any time, requests are anonymous, workers are killed and launches fail; the protocol implements `TestRun`; the test ends unless a worker dies before its request has reached the controller or a launch fails |
| `children` | `NoPartialTest`, `ChildToReap`, `ReportedOnce`, `ResultsConserved` | 1 machine, 2 workers of 2 clients, a spare listener: the ECHILD branch is dead; every exit is counted once under the right heading; no result is lost or duplicated but the tail of a dying worker; a launch that fails half way, or a worker that dies before its request, never leads to a test of the workers that are left |
| `results` | `NoResultLeftBehind` (violated) | the report can be printed with results unread |
| `extra_listener` | `EveryListenerEnds` (violated) | a listener beyond the configured number never ends |
| `work` | `TypeOK`, `DeathBeforeReport`, `CaughtQuietly`, `ReportsInOrder`, `ImplementsWorker`, `WorkEnds` | 3 clients of 2 messages in a worker: a client can take the process down only before the first result is sent; when an exception is swallowed no client is running; results are final and in order; `Worker` allows for all of it |
| `sink` | `TypeOK`, `FramesAligned`, `MeanIsMean`, `VarianceUnderstates`, `SetupsGenuine`, `ImplementsController` | 2 exits and up to 2 results of up to 3 latencies, in any order: see below |
| `client` | `TypeOK`, `EchoPaired`, `TerminatesOnlyAfterPeer`, `StatsHonest`, `OnlyLastEchoLost`, `ImplementsClientLife`, `ClientEnds` | 4 messages, any behaviour of the server: samples, report and the cause of termination are right, the client is one of `ClientLife`, and no interleaving leaves a thread waiting |
| `client_send_error` | `StopsAfterSendError` (violated) | the loop goes on after a send error |
| `mobile` | `TypeOK`, `EchoPaired`, `CrashOnlyAfterClose`, `EndsOrHangs` | 5 messages (as in `plain-client.cpp`) over two links: latencies stay paired with their messages, and the null pointer of `on_fail` has one cause; the client ends, or hangs in one of three ways: no connection was started; a pending message that no link brings back; a link that opens after `close` met it connecting |
| `mobile_close` | `CloseStopsTelemetry` (violated) | the close handlers do not stop the telemetry |
| `mobile_fail` | `FailHandlerReturns` (violated) | `on_fail` can use a null pointer |
| `echo` | `TypeOK`, `EchoStream`, `WholeReply`, `ClientsEnd`, `SessionReclaimed` | 2 clients: no byte is lost, repeated or overwritten in a session's buffer, every client ends also after failed accepts, no session is left behind |

The five violations are disagreements between the code and its README or
comments (the last one a defect as well); `PROJECT.json` quotes both sides ("findings").

What `sink` shows of the report: the mean is that of all latencies, up to half
a unit of the sixth digit of each connection's printed mean: five parts in a
million of the mean, and a micro-unit per latency for means below the resolution. The
variance weighs population variances as if they were sample variances, so, again
up to the printing, it lies between half of the pooled variance and all of it, and it
is 0/0 exactly if no connection echoed more than one message. The setup time is
right for every connection that echoed a message; of every other connection,
opened or not, an uninitialised number enters the setup statistics, because
reading stops at `nan` before it gets there.

*Bounds.* Two machines are the smallest number at which one party can be late
at a barrier the other has passed, and a third listener is one too many. Two
children per listener are needed for the order of reaping to matter and for a
launch to fail half way, two clients per worker for results to be partly sent.
Four messages give the client room for a success, a failed send and a pending
message in one run. Three clients in `work` are one joined, one being waited
for and one still running. Two results in `sink` let sums be wrong in their
weights, and three latencies let a population variance differ from a sample's
by another factor than two. Latencies of 1, 7 and 20 microseconds give means and
variances of one or two digits before the point, so that printing does lose
digits; TLC's integers of 32 bits allow no longer ones, and it is the proof that
covers them. A request of three bytes and a buffer of two in
`echo` make a session go round more than once; with the 7 and 1024 bytes of the
code it never needs to. Larger instances of the coordination (2 machines of 2
workers: 3 million states) give the same answers, as does `MaxHello` 1 or 2.

*Deadlock* is checked in every run. Besides the polling of `telemetry_loop`,
`Stop` is the only stuttering step; it is enabled only when the test is over,
the worker gone, the report printed, or the client joined or dead. In
`EchoServer` it is `Waiting`: the server never returns.

*Fairness.* `FairSpec` of `PerfTest`: the controller, each listener, each worker
and each background connection of ZeroMQ keep going, and the controller's
timeouts expire. Weak fairness suffices, since each of them waits for something
that stays there. Nothing forces a worker to die or not to die, or a launch to
fail. `FairSpec` of
`TelemetryClient`: the three threads are scheduled, the server answers what it
gets and the closing handshake ends (websocketpp times it out). Nothing forces
the server to close first, or prevents it. A server that neither answers nor
closes is excluded: the client has no timeout for it and waits for ever.
`MobileClient` assumes the same of both links. `DoTheWork`: its main thread is
scheduled, and the threads of a running client come to an end, which is
`ClientEnds` of `TelemetryClient`. `EchoServer`: each session and each client
keeps going while its connection stands or after it has broken; nothing makes
an accept fail or a connection break.

## 4. What is proved

`TelemetryClientProof`, for every number of messages:

* `TypeCorrect`, `EchoPairing`, `TerminationCause`, `HonestStats`, `EchoLoss`:
  the invariants of the run `client`.
* The inductive invariant `Inv` adds to them `Lifecycle` (which flag may be set
  in which state of the connection), `InFlight` (at most one message is under
  way; it is the one `m_start` belongs to; the telemetry thread between its two
  locked blocks has none) and `ClosedByUs` (as long as the server stays, no send
  fails and only this client's own close ends the connection; samples, messages
  under way and failed sends add up to `m_count`). `EchoPaired` alone is not inductive: it says nothing
  of the message on the wire, which the next step records. Assumption: `Total`
  is a natural number.
* `ClientRefinement`: `ImplementsClientLife`. From `Inv`, the statistics of a client
  whose threads have ended are among those `ClientLife` allows (`StatsAllowed`); every step
  of the asio and telemetry threads is then one of a running client
  (`ThreadStep`), which stays running, ends or terminates.

`DoTheWorkProof`, for any positive number of clients and any number of messages:

* `TypeCorrect`, `DeathSilent`, `ExceptionQuiet`, `Reporting`: the invariants of the run
  `work`. The inductive invariant adds `Progress` (which lives the clients
  before and after the loop's index can have, and that nothing is sent before
  the last loop) and `Settled` (ended threads leave exactly one set of
  statistics). The core is `RunningUnreported`: while a client runs, `doTheWork` is
  in its second or third loop, and nothing has been sent.
* `WorkerRefinement`: `ImplementsWorker`. Passes that do not send are invisible;
  a pass that sends is `SendResult`, with room for it because of `Progress`; a
  death is `WorkerKilled` with nothing to lose because of `DeathBeforeReport`.

`PerfTestProof`, for any finite set of listeners and any positive numbers of machines,
processes, instances and unread HELLOs:

* `TypeCorrect`: `TypeOK`, with `ReapingCounts` (a listener in the waitpid loop
  has a child to wait for) as the strengthening, without which `unfinished`
  could go below zero.
* `RequestsReachListeners`: `NoMissedRequest`. The strengthening `Handshake`
  holds the argument: HELLO_LISTENER is the last subscription, so whoever has it
  queued or has moved on is subscribed to all three topics; and a request or an answer
  is under way only for a listener that has moved on. The lemmas
  `PublishQueued` and `ReceiveQueued` say what the two network operations do to a queue.

`BarrierProof`, with the same assumptions:

* `ReapsChildren`: `ChildToReap`. `unfinished` of a listener is the cardinality of
  its children that run or are zombies (`Unreaped`): reaping takes one away
  (`ReapsOne`), and the branch of `waitpid` that has no child is dead.
* `BarrierCorrect`: the inductive invariant `BarrierInv`, and that everybody is
  assembled when the controller collects. Its parts: `LaunchedOnce` (StartProcesses
  waits at most once for each listener, and who still has to read it has no
  children yet; a listener that crashed has left one unlaunched),
  `WorkerHandshake` (the argument of `Handshake`, for workers), `Counts` (`processes`
  is the cardinality of `counted`, and the loops are left with the configured numbers) and
  `NotBefore` (before StartWebsockets nobody works and no result exists). The
  barrier counts anonymous requests, so the step from numbers to sets is the
  heart of it (`EveryoneCounted`): every counted worker is a child of one of the
  `Machines` counted listeners, each of which has `Processes` children; a subset of
  a finite set with as many elements as the set is the set.
* `StartReachesWorkers`: `NoMissedStart`, and `IncompleteNeverStarts`: `NoPartialTest`,
  both from it: a crashed listener leaves a child that was never launched, a worker
  that died early is launched and not counted, and either contradicts what holds
  once the second loop is left.

`ReportProof`, with the same assumptions:

* `ExitsReportedOnce`: `ReportedOnce`, inductive with the finiteness of the set of
  waiting messages. The messages of a family of queues are
  a set of pairs (queue, place); pushing adds one pair, and pulling takes one away
  though it renames all that stay (`PushHolding`, `PullHolding`).
* `EndsWithoutOrphans`: `NoOrphans`. Exits counted are at most the workers waited
  for, and these are among the `Clients` workers that were counted at the barrier, who
  are all that were launched; when the numbers meet the sets are equal
  (`AllAccountedFor`).
* `ResultsAreConserved`: `ResultsConserved`, with the tail that dies with a worker
  (`TruncateEntries`); a worker that is alive has status 0, and its queue is not longer
  than what it has sent.
* `RunsTheTest`: `ImplementsTestRun`. Most steps do not change what `TestRun` sees
  (`Unseen`); the others are its actions, one lemma each (`TestGathered`, `TestLaunch`, `TestStart`,
  `TestBegin`, `TestLeave`, `TestWaitFor`, `TestReport`). `TestStart` rests on `EveryoneCounted`,
  `TestReport` on `AllAccountedFor`, and `TestLaunch` on `LaunchedOnce` and `EveryoneCounted`: nothing
  is launched before StartProcesses or after the start.

`MobileClientProof`, for every number of messages:

* `CrashCause`: `CrashOnlyAfterClose`. The inductive invariant `LinkInv` adds the
  order of the links: the signaling link is not started before the primary one
  was open (`LinkOrder`), the handle is assigned as soon as the connection
  exists (`HandleAssigned`), and a handler event agrees with its link's state
  (`EventFollowsLink`).
* `TypeCorrect` and `LatencyPaired`: `TypeOK` and `EchoPaired`. They are inductive with
  `InFlight`: the wire is empty or carries, on whichever link, the one message
  `m_start` belongs to, which is then pending; and a thread about to send has
  none pending.

`EchoServerProof`, for every set of clients, every request and every
positive size of the buffer:

* `TypeCorrect`, `EchoesInOrder`, `RepliesWhole`: the invariants of the run `echo`.
  `EchoStream` concatenates four sequences; the inductive invariant `EchoInv` says
  of each of them that it is a run of the request (`Run`), one run where the last
  ends (`Returned`, `Pending`), and where the operations of both sides stand meanwhile
  (`Chain`: the buffer is empty whenever a read is started). After a break, when `EchoStream` says nothing
  any more, what was read and what is under way back are still runs, which is
  what a client that goes on reading rests on, and with it `WholeReply`. A read or a write cuts a
  run in two or joins two (`RunSplit`, `RunJoin`).

`ResultSinkProof`, for all numbers of clients, messages and results, and any
set of latencies and any setup time in whole microseconds:

* `KeepsInStep`: `FramesAligned`. The inductive invariant `Framing` lists the unread frames
  at each `s_recv` of the loop, the leftover fourth frame of a "Finished" among them.
* `SinkCorrect` and `TypeCorrect`: `Accounting` adds that each "Finished" is counted once and
  each "Result" received once and judged once, with what has arrived and is not
  yet counted (`FinishedDue`, `ResultDue`) derived from the frames; and that a connection
  with a latency adds at least one and at most `Messages` latencies to `totalcount`.
* `MeanCorrect`, `VarianceBounded` and `SetupsRead`: `MeanIsMean`, `VarianceUnderstates` and
  `SetupsGenuine`. Four things come together:
  * Sums. What `SumFunction` of the community modules computes is not given by
    any theorem of the library. `SubsetInduction` is induction over the subsets of a
    finite set with a set of good subsets in the place of a predicate (the strict subset
    order is well-founded, so a bad subset would have a minimal one). From it
    the recursion behind the fold has a solution (`AddsExists`), only one (`AddsUnique`),
    and a sum can be taken in any order (`SumParts`, `SumWith`, `SumSame`).
  * One connection. `n` times the sum of the squares is no less than the square
    of the sum (`CauchySchwarz`, over `Distances`), so `Spread` is a natural number, and
    0 for one sample (`Latency`). `Weighted` says what the weight
    `n - 1` does to a printed variance against the deviations. A count, a
    minimum, a maximum (`Extremes`), a mean and a variance of at least one sample
    are therefore never `nan`, and what is read is what was printed (`EchoedRead`);
    of no sample, a count of 0 is read and nothing is added (`SilentRead`).
  * Printing. That the recursive function `SixthPlace` satisfies its own equation
    is a theorem to prove (`SixthPlaceAt`): `PlacesExist` builds a solution up to each
    number with `NatSetInduction`, an induction with a set in the place of a predicate.
    From the equation the unit of the sixth digit is 1 or at most a
    hundred thousandth of the number (`Unit`), so that `Print6` loses at most half a
    micro-unit or five parts in a million (`Rounding`, `Printed`, `PrintedWhole`). Over all
    connections these add up to the slack of the two properties (`Slacks`, `MeanSlack`,
    `VarianceSlack`).
  * The loop. The inductive invariant `Numbers` adds to `SinkInv` that the result
    under way is the one announced last (`Latest`), without which nothing connects
    the text being read with a connection, and the sums so far (`Sums`). Only `RecvLast`
    changes them, by exactly one connection (`NumbersGrow`, `SumsGrow`).
* `LoopRefinement`: `ImplementsController`. `Seen`, `SeenAtTop` and `SeenWithin` say what
  `Controller` sees in each state of the loop; reading the first frames of a message
  is invisible (`Invisible`), and each of the other steps is an action of `Controller` (`Pushes`,
  `TakesDelimiter`, `TakesFinished`, `TakesResult`, `Ends`). Two facts carry it: the loop condition, tested once
  per pass, still holds when the message has been read (`Awaited`), and the
  verdict read from text is the one the connection deserves (`Judged`, with `Latest`).

Only model-checked: `TestEnds`, `WorkEnds`, `ClientEnds`, `EndsOrHangs`, `ClientsEnd` and
`SessionReclaimed`, since liveness under fairness is out of the prover's reach.

## 5. Not modelled, and the plan

Left out for good:

* payload bytes, intervals and sleeps as durations, log files, TLS and socket
  options, the deployment scripts and the build: data and I/O without a
  property of their own;
* dead code: `begin_read` and `end_read` in `listener.cpp`,
  `generate_client_id`, and what `zmq.hpp` and `zhelpers.hpp` offer beyond
  sending and receiving (polling, dumps, random identities, signal handling);
* a second iteration of the controller's loop. It runs for `iteration = 16` only.
  A second one could not work, since synchronised listeners no longer answer
  HELLO_LISTENER, but no code of this commit gets there;
* an allocation of a session that fails in `ssl-server.cpp`, which ends the
  server with an exception.

Every safety invariant, every action property and all four refinements (`TestRun`,
`Worker`, `ClientLife`, `Controller`) that the runs check are proved, for every value
of the constants that satisfies the assumptions stated in the modules (section 4 names
them). What is left to TLC are the six liveness properties above.
