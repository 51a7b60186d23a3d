# Verification of the OpenTelemetry PHP distro's native core

TLA+ modules, TLC configurations and TLAPS proofs for the OpenTelemetry PHP
distro: the PHP processes, the coordinator process they share, the threads inside
both, the hooks around PHP's function calls and around the engine, and the
conversions of options, texts, arguments and telemetry that the native code does
itself.

## 1. The system

A PHP server (Apache, php-fpm, a CLI script that forks) loads the extension. At
module start the extension creates a shared-memory queue and a shared-memory
configuration area, and forks the *coordinator process*. The server then forks
workers, which inherit the extension's state.

| part | state it keeps | operations | talks to |
| --- | --- | --- | --- |
| `ChunkedMessageProcessor`, `CoordinatorSharedDataQueue` | queue of 100 chunks in shared memory; partial messages per (pid, msgId) | `sendPayload`, `tryReceiveMessage`, `cleanupAbandonedMessages` | senders in all PHP processes, dispatcher in the coordinator |
| `CoordinatorProcess`, `WorkerRegistry`, `CoordinatorMessagesDispatcher`, `WorkerRegistrar`, `CoordinatorTelemetrySignalsSender` | registered pids, `working_` | register/unregister, dispatch a command, periodic check of parent and workers | message path, HTTP transport, operating system |
| `HttpTransportAsync`, `HttpEndpoints` | payload queue, byte count, endpoints, sending thread | `initializeConnection`, `enqueue`, `prefork`/`postfork`, destructor | dispatcher or PHP thread (owner), server |
| `OpAmp` | intervals, two deadlines, heartbeat thread, current hash and files | `startCommunication`, handle an answer, heartbeat, stop | HTTP transport (both directions), watchers |
| `CoordinatorConfigurationProvider`, `ConfigurationManager`, `ConfigurationStorage`, option providers | shared revision and files; each process's revision and snapshot | store files, take over at request start, `update` | OpAMP, all PHP processes, logger |
| `Logger` and its sinks | level per sink, features, the opened file | reconfigure, log | snapshot |
| `RequestScope`, `PeriodicTaskExecutor`, `InferredSpans` | request counter and flags, thread state, interrupt flags | request start/end, sampling turn, capture, fork, destruction | Zend engine, PHP side |
| `InferredSpans.php` | the last stack trace with its spans and scopes | `captureStackTrace`, `shutdown` | extension, context storage of the OpenTelemetry SDK |
| `InternalFunctionInstrumentation`, the hook storages, `AttrHooksStorage`, the error callback of `Hooking` | hooks per function and request; original handlers and `#[WithSpan]` metadata per process | `hook()`, wrapper of internal functions, observer handlers, error callback | Zend engine, closures of the PHP side |
| `ModuleEntry`, `AgentGlobals`, `Hooking`, `ForkHandler`, `ForkableRegistry`, `SharedMemoryState`, `DependencyAutoLoaderGuard` | pointers of the engine and their originals, registered objects, the task's flag in shared memory, positions in the engine's tables | MINIT, RINIT, RSHUTDOWN, MSHUTDOWN, fork handlers, one-time task, compile a file | Zend engine, other extensions |
| OTLP converters, `AutoZval`, `CommonUtils` | maps of one batch | `convert_spans`, `convert_metrics`, `convert_logs`, readers of texts | PHP objects, server |
| PHP bootstrap, curl, diagnostics, resource detection, loader, packaging | none or I/O | | |

What is hard in it, and what makes each part correct:

* **Message path.** Chunks of several processes interleave in one queue, the
  queue refuses chunks without anybody noticing, senders die half-way, and the
  cleanup races slow senders. Correct: the dispatcher sees whole payloads, once,
  in the order of their sender; losses happen only where they must; no partial
  message stays for ever.
* **Coordinator.** Registration messages get lost, workers are killed, the
  periodic task decides while the main loop dispatches. Correct: the registry
  follows the messages; the coordinator neither leaves live workers alone nor
  outlives everybody.
* **HTTP transport.** The owner stops, forks and destroys while a thread sends
  and retries without the mutex. Correct: every accepted payload is accounted for
  once, the byte limit is exact, joins return, shutdown flushes.
* **OpAMP.** A thread with two deadlines, answers that arrive on the transport's
  thread and change the intervals under it, and an owner that stops it, over three
  mutexes and a lock in shared memory. Correct: a stop returns and leaves silence,
  heartbeats keep their distance, polling goes on.
* **Remote configuration.** One writer and many readers share memory and a mutex
  that nobody unlocks for a dead process. Correct: readers apply whole revisions;
  what is reported as applied is; request start returns.
* **Options and logging.** Each option may come from four places with a rank, in
  forms with units that are converted without looking at the size; snapshots follow each
  other under a logger and connections made from earlier ones. Correct: one snapshot, one
  meaning; the logger follows it; keys stay with their host.
* **Sampling.** A thread asks the engine for interrupts that the PHP thread meets
  at its own pace, across requests that end early in many ways, forks and fatal
  errors. Correct: sampling only inside requests that want it, one capture per
  interrupt, no thread at a fork.
* **Inferred spans.** Each trace is compared with the one before, spans are merged,
  dropped, moved back in time, while the application starts spans and detaches
  scopes between them. Correct: open spans are the frames on the stack; what is
  reported is a tree, also in time.
* **Function hooks.** Hooks call functions that are hooked, register hooks, throw,
  exit and raise errors, in the middle of a call that may be throwing itself; some
  of their state lives for a request and some for the process. Correct: to its
  caller an instrumented call looks like the plain one; pre and post hooks come in
  pairs; a span has the attribute of the code that runs; changed arguments arrive.
* **Module life cycle.** Other extensions hook the same pointers before and after,
  options and opcache differ from request to request, processes fork in the middle.
  Correct: everybody's hooks still run; a fork loses nothing; one worker has the
  one-time task; no file is declared twice.
* **Conversions.** One wrong byte makes the server refuse a whole request; PHP
  arrays hide gaps and counters; records of many resources and scopes are grouped
  by pointers that live for the batch. Correct: texts are read as defined and
  records arrive in their group with their meaning.

`PROJECT.json` lists every component with its status, the hazards at their
lines, and for each definition the source lines it stands for.

## 2. Modules

| module | models | uses |
| --- | --- | --- |
| `MessageChannel` | abstract specification: what the message path promises | |
| `ChunkedMessages` | the message path, chunk by chunk | implements `MessageChannel` |
| `ChunkedMessagesProofs` | inductive invariants, type correctness, refinement, no silent loss | `ChunkedMessages` |
| `Coordinator` | life of the coordinator and of the PHP processes | composes with `MessageChannel` |
| `CoordinatorProofs` | inductive invariant and all its safety properties | `Coordinator` |
| `HttpTransport` | one `HttpTransportAsync` object, its owner and its thread | |
| `HttpTransportProofs` | induction over the queue, accounting of bytes and payloads; what the texts' loops compute | `HttpTransport`, `Text` |
| `OpAmpHeartbeat` | the OpAMP client: heartbeat thread, answers, owner | |
| `OpAmpHeartbeatProofs` | inductive invariant and both safety properties | `OpAmpHeartbeat` |
| `RemoteConfig` | configuration from the OpAMP answer to the request's snapshot | |
| `RemoteConfigProofs` | inductive invariants and all safety properties of both | `RemoteConfig`, `Configuration` |
| `Configuration` | options of a process: texts, ranks, snapshot, logger, connections | |
| `RequestSampling` | request life cycle, executor thread, inferred-spans interrupts | |
| `RequestSamplingProofs` | inductive invariants and all safety properties of both | `RequestSampling`, `InferredSpanTree` |
| `InferredSpanTree` | from stack traces to spans, on the PHP side | |
| `FunctionHooks` | hooks around the function calls of one PHP process | |
| `FunctionHooksProofs` | two inductive invariants over the call stack, one over the values of a call, all their safety properties | `FunctionHooks`, `HookValues` |
| `HookValues` | arguments, attributes and return values of one hooked call | |
| `ModuleLifecycle` | module and request start and end, fork, one-time task, autoloader guard | |
| `ModuleLifecycleProofs` | inductive invariant and all its safety properties | `ModuleLifecycle` |
| `Text` | UTF-8 and percent-encoded pairs, byte by byte | |
| `OtlpConversion` | batches of spans, metrics and logs to requests | `Text` |
| `MCConversions` | composes `OtlpConversion` (with `Text`), `HookValues` and `Configuration` for one run | |
| other `MC*` | values of structured constants and symmetry sets for TLC | |

A module's specification is `Spec == Init /\ [][Next]_vars`, with fairness where liveness
is checked; in `Configuration` it is `ConfigSpec`, in `InferredSpanTree` `SpansSpec`, in
`Text` `TextSpec` and in `HookValues` `HookSpec`, so that one module of proofs can extend
each of them together with another.

Every module also holds, before a definition X, variants of X that no
specification uses: each is a plausible bug of X, and shows that a property can
fail (`PROJECT.json`, "mutants").

The modules are cut where the code's parts meet through one value: the message path
gives `Coordinator` its channel (by the refinement), `Coordinator` and the PHP
threads call the object of `HttpTransport`, whose thread delivers answers to
`OpAmpHeartbeat` and `RemoteConfig`; `RemoteConfig` gives a process its files, of
which `Configuration` makes a snapshot; `ModuleLifecycle` says when the request
handlers of `RequestSampling` run and which objects a fork reaches; its interrupts
bring `InferredSpanTree` its traces; `FunctionHooks` has the control of hooked
calls, `HookValues` their data.

### 2.1 MessageChannel and ChunkedMessages

`submitted[p]` is what process `p` passed to `sendPayload`, `handed` what reached
the dispatcher. `HandOver(p, id)` passes on the id-th payload of `p` unless the
same or a later one of `p` was passed on before. Any payload may be lost.

In `ChunkedMessages` one step is one call of `enqueueMessage`, so other processes,
the receiver and the cleanup come in between. `sent[p]` stands for the payloads
and its length for `msgId_`; `payloadOffset`, `queue` and `recieved` (the name is
the code's) are the variables of the code. A payload's bytes are pairs of the
payload and a position, so that reassembly can be compared with what was sent
without inventing contents. A new entry of the map has the clock's epoch as its
time of last update, hence an age above any limit (`NewMessage`). A chunk that
fails a check throws in the code after its entry was made: `RejectChunk` keeps
the entry. `dropped`, `aborted` and `expired` are history. A forked child goes on
with its parent's `msgId_`; its pid is new, so starting at 1 makes no difference.

### 2.2 Coordinator

`proc` is the operating system's view: unborn, running, leaving (it has
unregistered), zombie, gone (reaped: `kill` finds no such process). `Fork`,
`Leave` and `SendTelemetry` submit commands to the channel; `ReceiveMessage` hands
one over and dispatches it in one step, as `processReceivedChunk` calls the
dispatcher on the same thread. The periodic task is three steps, because
`verifyWorkersAlive` and `getWorkerCount` lock separately and `working_` is set
after both. `joined` is history: the workers registered since the last
verification that found `working_` set. Commands go through `Encode` and `Parse`,
which stand for protobuf. `Parsable` are the endpoints whose URL `HttpEndpoint` can
parse; for another one `initializeConnection` logs the exception and adds nothing.

When the loop ends, the members of `CoordinatorProcess` are destroyed from the last to
the first, and three of them join a thread: the executor of the periodic task
(`ShutdownTasks`, `JoinTasks`; the task may run once more in between), the OpAMP client
and the HTTP transport (`Destroy`). The destructor of the client returns (`OpAmpStops`)
or does not (`OpAmpHangs`): `OpAmpHeartbeat` says when, here both are possible. While a
response is being handled, its callback keeps client and transport alive, and the process
exits without their destructors (`OpAmpInUse`). The transport's returns by the property
`JoinsReturn` of `HttpTransport` (`TransportStops`).

### 2.3 HttpTransport

The owner (`opc`) is the thread that calls the object, `spc` is the sending
thread; a step of the sending thread reaches from one release of the mutex to the
next, since the owner cannot act in between. `prefork` and the destructor are
split at the points where the mutex is free. At a fork the behaviour goes on as
either side (`Postfork(child)`). A transfer ends with an answer that is final, one
that may be repeated, or an exception; `Attempts` is the `max(1, maxRetries)` of
`getConnection`. `elapsed` says that the shutdown timeout has passed. `leaked`
counts the bytes a child's emptied queue leaves in `payloadsByteUsage_`. Delays
are left out; `updateRetryDelay` changes only delays. So is the failing outcome of
`initializeConnection`, which changes nothing, and a failing `curl_easy_init`. In production
the coordinator alone has a transport, and nothing there calls its `prefork` and
`postfork` (the PHP processes send through `CoordinatorTelemetrySignalsSender`); they are
actions as a caller would use them.

### 2.4 RemoteConfig

`hpc` follows the HTTP thread of the coordinator from `handleServerToAgent`
through the watchers (`storeConfigFiles` file by file, then the coordinator's own
update) and back; it holds `configAccessMutex_` all the way, so the heartbeat
(`SendHeartbeat`), which takes it, runs only in "idle". The shared upgradable
mutex is `writer` and `readers`; as in Boost, a waiting writer keeps new readers
out. `wpc` follows a PHP process through `onRequestInit`. A death leaves the mutex
as it was. `published` is history: the shared files at the end of each revision.
The snapshot's other options are derived from the files and left out here. So are
processes that were disabled when they started or run under an unsupported SAPI: they
register no watcher, take nothing over and hold no lock.

### 2.5 RequestSampling

`ppc` is the PHP thread, `epc` the executor's. `RequestInit` has the early returns
of `onRequestInit` as parameters (unsupported SAPI and disabled distro are one
case); `Bootstrap` is the rest of it, after the PHP side's entry point has run.
Interrupt and capture are split where the code unlocks: `RequestInterrupt`, then
`Interrupt`; `AttachBacktraceIfInterrupted`, then `CaptureDone` or, after a fatal
error, `CaptureBails`. Whether the sampling interval has passed is left open. A
request's end clears `EG(vm_interrupt)`, as the engine does at request start.
After the last request the process destroys its globals.

### 2.6 FunctionHooks

`stack` holds a frame per call, hook or error handler: `step` says whether its PHP
code runs ("inPre", "body", "inPost", ...) or the C++ code between two pieces of
it ("pre", "post", "return"). PHP code may do anything at any of its steps: call,
hook, throw, catch, exit, raise an error, end fatally. `exception` is
`EG(exception)` and `saved` what the restorer of a running hook holds. `NextPre`
and `NextPost` are the loops of `internal_function_handler` and of the two
observer handlers, which differ only in their guards: a null hook is skipped by
the first and makes `zend_fcall_info_init` fail in the others. `Observe` is
`registerObserverHandlers`, which the engine calls at the first call of a user
function in a request. `hooks` and `observed` are per request; `handler`,
`originals` and `spans` are per process, and `RequestInit` takes any of the
`Deployments`, pairs of options and code, so that both change under a running
worker. Distro files and closures, which `debug_instrument_all` leaves out, are not
among the `User` functions. An internal function is hooked under its declaring
class. `born`, `ran`, `left`, `pres`, `posts`, `span` and `spanEnded` are history.

### 2.7 HookValues

One call, followed from its arguments to its return value. The frame is the
engine's: parameters first, local variables and temporaries behind them, then the
arguments for which there is no parameter (`SlotOf`). `argsPostProcessing` writes
the array that a pre hook returned, by position or by name, to the slots the code
computes (`Target`). `WithSpanPre` reads attribute arguments, annotated parameters
and annotated properties as the handler is given them, after the pre hooks.
`PostHook` may replace the return value when the hook declares a return type.
Exceptions are in `FunctionHooks`, so no hook throws here. `expected` is the history
the arguments are compared with: what each hook asked for (`Wanted`). A position nobody
has given a value is a gap there; a hook sees null in it, and a hook that hands this
null back has not filled it, since the frame stays undefined when the whole array is
handed back and the span then has no such attribute.

### 2.8 OpAmpHeartbeat

`owner` starts and stops the client, `thread` is `opAmpHeartbeatTask`, `handler` the
callback on the transport's thread. The heartbeat thread holds `mutex` from the end of
its wait through `sendHeartbeat`, which takes `configAccessMutex` as well, to the next
wait, and beyond it when the deadline of that wait has passed already (`LoopHead`):
`wait_until` then returns without giving the mutex back. The handler holds
`configAccessMutex` while it stores files, which needs a third lock, in shared memory,
whose dead holder is `stuck`. Steps reach from one lock to the
next. A deadline is kept as the time left (`toHeartbeat`, `toPoll`, `toWake`), so time
runs on without a bound. Intervals come with the options at the start, with an answer
of the server, and with a new configuration; only the last way refuses what is not
positive, and none refuses what is too long.

Durations are signed integers of a width given by `Half`. `Milliseconds` converts the
server's unsigned seconds as the build does, with the sign bit and the product wrapping.
`Longest` is the longest interval that can be added to the time (a sum of
nanoseconds); beyond it the deadline may be anywhere, and an interval that is not
positive makes a deadline that has passed (`TimeLeft`). `unpaced` is history: an interval
of one of these two kinds came in.
`prefork` and `postfork` exist in the code without a caller; they are actions as a
caller would use them.

### 2.9 Configuration

A text is a word, or a number with a word behind it, or a number no conversion can
represent; `parseByteUnits`, `convertDurationWithUnit`, `parseBoolean` and the others work on
these forms. `std::size_t` has `SizeLimit`, products with a unit wrap around there, and
`stoul` refuses numbers beyond it; the count of `std::chrono::milliseconds` has
`DurationLimit`, and a longer duration is converted, unchecked, to `Unrepresentable`
(the smallest integer on x86-64, the largest on ARM). The rounding of doubles beyond
2^53 is left out. `parseBoolean` reads an int, so a number that does not fit one is the
huge number there. `sources` gives each option a text in the
INI file or the environment, of the default provider or a vendor's; a vendor may add
texts from the remote files. `ModuleInit`, `RemoteArrives` and `onRequestInit` are the
three ways to a new snapshot; each is followed in the same action by what the code
does with it: copy, logger, sinks. `Connect` is the coordinator's connection for a
signal, with the TLS options found at that moment. An exception that nothing catches
ends the process ("terminated"). `SourcesAssumption`, `DynamicAssumption` and
`ItemsAssumption` say of the constants what the forms above say: settings give texts to
options, and log features are items of a feature and a level.

### 2.10 InferredSpanTree

`captureStackTrace` is one step, as PHP code is not interrupted in it. The recursive
functions in `endOldFrames` and `startNewFrames` are the two loops of
`compareStackTraces`, a turn per frame: old frames that left the stack, from the
innermost out, then new frames from the outermost in. `spans` is
every span ever started; `storage` is the SDK's context storage (external), a
sequence of scopes in which a scope is detached wherever it is. The application
starts and ends spans of its own; other instrumentation may detach or attach scopes
that are not its own (`foreign`), after which only `lastStackTrace` is promised. The
spans of a request that is not sampled do not record: `endFrameSpan` returns before it
ends them or detaches their scopes. Exceptions of the SDK, which `captureStackTrace`
catches and logs (`InferredSpans.php:90`), are left out.

### 2.11 ModuleLifecycle

`engine[p]` holds the three pointers of the engine that the extension replaces; an
extension loaded before and one loaded after it replace them as well, and `Called`
follows the chain. `ModuleInit` to `ModuleShutdown` are MINIT to MSHUTDOWN, `RequestInit`,
`Boot`, `InstallInferredSpansHooks` and `RequestEnd` a request, which options, SAPI
and opcache may cut short. `Fork` runs the `pthread_atfork` handlers over the registry.
The one-time task takes four steps, so that two processes and a death come between
the sharable and the exclusive lock. `CompileFile` is `otel_compile_file` with the
guard: `tables` are the engine's class and function tables, which shrink at the end of
a request, `guard` the positions and names that the guard remembers. Where a file comes
from is exact: the code compares the canonical path of a compiled file with a vendor path
that it takes as it was configured, so an installation behind a symbolic link, where the
guard would notice nothing, is outside the model.

### 2.12 Text, OtlpConversion and MCConversions

`Text` grows a string byte by byte; `isUtf8`, `percentDecode` and
`parseUrlEncodedKeyValueString` are recursive functions over positions, and the
property compares them with definitions that are independent of the code: Unicode's
table of well-formed sequences, and the decoding of the parts a list is made of.
`OtlpConversion` builds a PHP array by append, assign and unset as the engine does
(buckets, gaps, next free index) and converts it, and converts batches record by
record into the growing request, with the maps that group by resource and scope.
Getters throw on values of another type; an exception ends the batch (`thrown`).
Times, names and counts that are copied are left out or stand as one field.
`MCConversions` looks at one of them, at the hooks of `HookValues` or at the options of
`Configuration` in a behaviour, so that their states add up instead of multiplying.

## 3. Runs

| run | checks | bounds | states |
| --- | --- | --- | --- |
| `chunks` | NoOtherLoss, ChannelSpec, PartialMessagesLeave, EveryMessageSettles | 2 workers, one with 2 messages and one with 1, of 1 or 2 chunks, queue of 2, age limit 1, cleanup every 2 | 152 000 |
| `coordinator` | RegistryMirrorsWorkers, StopsWithoutOldWorkers, PayloadFindsItsConnection, CoordinatorEnds | parent with 2 messages and 1 worker with 1 before the last one, 2 endpoints, one of them unparsable | 622 000 |
| `transport` | UsageAccounted, EachPayloadOnce, QueuedIsHandled, JoinsReturn | 2 endpoints, 0 or 2 retries, 3 payloads, limit 3 bytes, 1 fork | 145 000 |
| `opamp` | StoppedMeansSilent, HeartbeatsAreSpaced, StopReturns, PollsContinue | durations of 3 bits, of which 1 and 2 are paced, 2 configurations, 2 answers, 2 sets of options, 1 request in flight | 107 000 |
| `remote_config` | WorkersSeeWholeRevisions, ReportedIsApplied, RequestInitReturns, ConfigArrives | 2 processes, 2 configurations with different files, 4 revisions | 125 000 |
| `remote_config_full` | FullFileMap, violated | as above, 3 revisions | |
| `configuration_documented` | DefaultsAsDocumented, violated | the processes of `conversions` | |
| `sampling` | SampledOnlyInRequests, InterruptsAccounted, NoThreadAtFork, JoinsReturn | 3 requests, 3 interrupts, 1 fork | 49 000 |
| `inferred_spans` | SpansFollowTrace, ReportedSpansNest | 2 frames, depth 3, 2 captures, 1 action of the application, clock to 2, 5 sets of options | 291 000 |
| `hooks` | ExceptionTransparent, PairsRun, SpanIsCurrent, OriginalRuns | 1 internal function, 1 method with 1 interface, 2 requests, 2 hooks, depth 2 | 2 525 000 |
| `conversions` | TextAsDefined, RecordsArrive, HookValuesArrive, SnapshotMeansSources, LoggerFollowsConfig, TlsStaysHome | strings of 4 bytes out of 16, or 7 out of 5; 5 operations on an array; batches of 4; calls with 3 arguments, 2 pre and 2 post hooks; every option with every form of text, 2 providers and 2 places, 5 remote configurations, 30 bits for sizes, durations up to 10^6 ms | 435 000 |
| `lifecycle` | OtherHooksStillRun, OneTimeTaskGivenOnce, ForkedWorkersAreWhole, OneCopyOfEachFile | master and 1 worker, 3 requests, 3 compiled files, 2 SAPIs, 3 sets of options, 3 states of opcache | 691 000 |

Five of the passing runs do not check deadlock. In `remote_config` and `lifecycle` every
process may have ended, or wait for a lock whose holder died: the code can come to
that. In `hooks`, `inferred_spans` and `conversions` the process may simply stop, or its
inputs are used up.

Why the bounds are enough for the cases that matter:

* `chunks`: a queue of two with two-chunk messages of two senders can refuse the
  first or the second chunk of a message, interleave two messages and let a second
  message of a sender overtake a damaged first one; longer messages are covered by the
  refinement theorem.
* `transport`: three payloads of two sizes against a limit of three bytes fill the
  buffer, leave one payload in flight, one queued and one refused; one fork happens at
  each of these moments.
* `opamp`: intervals of one and two make the deadlines coincide and one precede the
  other; zero, a negative one, one that is too long, and seconds whose product with the
  milliseconds of one wraps around are there. Eight values have these kinds in the order
  in which 64 bits have them.
* `conversions`, options: an option's value depends on its own texts only, so one option at
  a time goes through all forms and ranks; logger and TLS options, which depend on each
  other, have sources of their own.
* `remote_config`: four revisions let a process skip one and go back to a
  configuration it had.
* `sampling`: the preload request, an ordinary one and one with changed options.
* `inferred_spans`: depth three has an outer, a middle and an inner frame, with spans
  reduced between the others; two captures and the shutdown are three comparisons.
* `coordinator`: PayloadFindsItsConnection is about the messages of one sender, which
  here is the parent, never registered itself; the registry and the end are about who is
  registered, so one worker that registers, leaves and is killed next to it is enough.
  More workers that send are covered by the proofs.
* `hooks`: two hooks with and without a pre hook are enough for a list whose first pair
  decides nothing and for a hook that registers a hook; depth two for a hook or a body
  that calls, throws and is caught; two requests for a deploy between them. Deeper
  stacks are covered by the proofs.
* `conversions`: four bytes are the longest UTF-8 sequence, and the 16 bytes are both
  sides of every boundary of its definition; seven characters hold a pair with an
  escape and the beginning of the next; four records let a group be found again after
  another resource and another scope.
* `lifecycle`: a worker forked before, in and after the first request of its master;
  both processes can be between the two locks; three files are the distro's copy, the
  application's and one in between.

Symmetry, over the frames, is used in `inferred_spans` only, which checks no liveness.

### The violated runs

`configuration_documented`: a process that nobody configures logs to syslog at INFO, where
`docs/reference/configuration.md:78` says OFF, and its send queue has 2\*1024\*1204 bytes,
where line 69 says 2MB (`ConfigurationSnapshot.h:100` and `:103`).

`remote_config_full`: files taken out of the remote configuration stay with the PHP
processes, while the coordinator drops them: `storeConfigFiles` never erases, although
`RemoteConfigConsumerInterface.php` promises "the full file map".

### Where the properties are as weak as the code

A property says what the code does give. These are the places where one would wish
for more.

* Message path: the result of `try_send` is dropped, so `sendPayload` succeeds although
  a chunk was refused; `NoOtherLoss` counts the full queue among the places of loss.
* Coordinator: `StopsWithoutOldWorkers` leaves out the workers registered while the
  periodic task decides; such a worker is left alone. An endpoint with a URL that cannot
  be parsed stays unknown without the sender's knowledge, and its payloads are thrown away
  one by one (`PayloadFindsItsConnection`). `CoordinatorEnds` lets the process hang in the
  destructor of its OpAMP client, since that may wait for ever (`StopReturns`).
* Transport: a destructor that is faster than the start of the thread loses the queue
  (`EachPayloadOnce` speaks of a thread that reached its loop); a forked child keeps
  counting the bytes of the queue it emptied (`UsageAccounted` says by how much).
* OpAMP: the server's interval and those of `startCommunication` are taken over
  unchecked, where `updateHeartbeatInterval` refuses what is not positive. With zero, with
  seconds that become negative in their conversion, or with a duration that overflows when
  it is added to the time, the thread sends without pause (`HeartbeatsAreSpaced`). Such a
  thread, and one whose messages take as long as its interval, also never gives its mutex
  back, and `prefork` or the destructor waits for ever: `StopReturns` asks for a return
  where the thread is not late for ever, and leaves out a PHP process that died with the
  shared lock. A shorter interval does not cut a running wait short.
* Options: a number out of range in a size or duration option ends the process, since
  only `std::invalid_argument` is caught; sizes wrap at 2^64 and PHP reads them as
  signed; a duration beyond the range of its count becomes whatever the build makes of it,
  a negative one on x86-64, which `phpinfo()` then shows as a text that means nothing;
  signals that share a host share the TLS options of the first, and an endpoint with the
  path of another signal gets that signal's; a process that is disabled at its start never
  watches the remote configuration; what arrives during MINIT reaches the process's copy
  at its first request. The defaults in `SnapshotMeansSources` are those compiled in; `DefaultsAsDocumented` has the two that
  the documentation gives otherwise. In the name of the log file `%p` and `%t` stand for
  themselves. `TlsStaysHome` lets the signals of one host share a client key.
* Sampling: a fatal error in a capture leaves its flag set, and the process infers no
  spans any more (`InterruptsAccounted`).
* Hooks: `PairsRun` leaves out hooks registered after the first call of a user function
  in the request, which the engine never asks for again, and those registered during
  the call. The metadata of `#[WithSpan]` is never removed, so a method that lost the
  attribute may still get spans; `SpanIsCurrent` speaks of methods that have it.
* Hook values: in a user function with local variables, replaced or added arguments
  without a parameter go to the wrong slots; a hook that returns only names adds a null
  argument to a call without arguments; a name for a parameter that was not passed
  does not add it.
* Inferred spans: in a request that is not sampled every scope of a frame stays attached,
  also after `shutdown()`, because `endFrameSpan` returns before `detach()`
  (`InferredSpans.php:403`); `SpansFollowTrace` says so of these requests and asks for
  the opposite in the others. When other code detaches a scope that is not its own, spans
  may be left open or hang elsewhere, and nothing is asked for; dropping short spans may
  cut off spans of the application.
* Module: RINIT installs the hooks for inferred spans even where MINIT returned before it
  fetched the original ones, and covers a later extension's hook; a process whose
  options were disabled remotely does not take its hooks out; the application's copy
  of a file compiled before the distro's is not noticed; only the first `/vendor/` of a
  path counts, and an installation behind a symbolic link is not recognised; a file that
  the guard discards and a call in whose capture a fatal error happens reach no other
  extension (`OtherHooksStillRun` does not ask for that); a process killed inside the lock
  of the one-time task blocks the processes that ask for it in their first requests.
* OTLP: arrays with unset elements, gaps or keys of both kinds lose keys or elements,
  an empty array becomes a list of pairs, a PHP reference becomes an empty value; a
  record that throws takes its batch with it; a metric of an unknown class has no data.
  Pointers into the request are positions in the model and cannot dangle.

## 4. Fairness

* `ChunkedMessages`: the coordinator's loop and periodic task run, and time
  passes. Nothing is assumed of the workers, so every property holds with workers
  that stop anywhere.
* `Coordinator`: the loop, the task and the destructors at the end run (loop and task are
  threads that never block for ever: `timed_receive` returns after 100 ms, the task sleeps
  100 ms; of the destructors one may hang, which is an outcome of its own), and dead
  processes are reaped, by init if not by their parent. Nothing makes a message
  arrive.
* `HttpTransport`: the sending thread runs and transfers end (curl has a timeout),
  and an owner inside `prefork`, fork or the destructor goes on. Nothing makes the
  owner start any of them.
* `OpAmpHeartbeat`: threads run and time passes (weak fairness); a thread that waits for
  a mutex has it in the end although others take it again and again (strong fairness on
  `LoopHead`, `WaitEnds`, `sendHeartbeat`, `LockConfig` and `shutdownThread`), which the
  code earns by sleeping between two heartbeats. A thread that does not sleep because it is
  late for a deadline each time keeps its mutex through `LoopHead`, so that
  `shutdownThread` is not enabled and its fairness asks for nothing; `StopReturns` has
  `<>[]~Late` as its condition for the runs in which the mutex is free now and then by
  luck of the schedule. Nothing makes the server answer or the owner stop.
* `RemoteConfig`: the HTTP thread goes on, processes in `onRequestInit` go on when
  the mutex lets them, and requests keep coming. Nothing makes a heartbeat or a new
  configuration happen. Weak fairness is enough for the readers because a waiting
  writer that gets the mutex releases it, and the number of revisions is bounded.
* `RequestSampling`: the executor's thread runs, captures end, and a fork or the
  destructor goes on.

The other modules state safety only and have no fairness.

## 5. Proofs

Each module `XProofs` proves theorems of the form `Spec => []P` for every value of the
constants of `X` that satisfies the named assumptions of `X`. The safety property `P`
is seldom inductive; each proof states the invariant that is, shows that `Init` gives
it and that each action keeps it, and derives the property. TLC checked each of these
invariants, on the instances of section 3, before it was proved.

### 5.1 Message path

`ChunkedMessagesProofs` assumes that payloads are not empty and that chunk and queue
sizes are positive, and proves

* `TypeCorrect`: `Spec => []TypeOK`, with the bound of the shared queue;
* `Refinement`: `Spec => ChannelSpec`, the specification of `MessageChannel` with
  `sent` for `submitted` and `delivered` for `handed`;
* `OnlyKnownLosses`: `Spec => []NoOtherLoss`.

None is inductive as it stands. Refinement needs to know, when a chunk
completes a message, that the bytes gathered are the whole payload and that no
later message of the sender was delivered before. The inductive invariant is the conjunction of
`TypeOK` and:

* `SenderInv`: where a sender stands in its payload, and how many payloads it has
  submitted, fit together;
* `QueueInv`: each chunk in the queue is the slice of its payload that its offset
  says; the chunks of one sender are in the order they were sent, and behind what
  the sender has still to send;
* `PartialInv`: a partial message is a proper prefix of its payload;
* `DeliveredInv`: nothing that is still queued or being sent belongs to a
  delivered message or to an earlier one of the same sender.

Its `Invariance` proves it action by action; `Refinement` uses it for the single step
that is not a stutter or a `Submit`: `CompleteMessage` maps to `HandOver`.

Those parts say that what arrives is right, `OnlyKnownLosses` that it arrives.
It needs a second invariant on top of the first, `QueueHoldsRest`: of a message that is
neither lost nor delivered, each byte that the sender has passed on and the coordinator
has not got is in a chunk of the queue, and the queue has none of the bytes before. A
message that was sent to its end and has no chunk in the queue has then arrived with
all its bytes, and a partial message never has all of them (`PartialInv`). `Holds`
states it for one message; one lemma per way the queue changes (`HoldsAppended`,
`HoldsTaken` and their counterparts for chunks of other messages) keeps the arithmetic out
of the actions.

### 5.2 Coordinator

`CoordinatorProofs` assumes only that the parent is not a worker and that parsable
endpoints are endpoints (`ParsableAssumption`). It proves `TypeCorrect`, `RegistryAgrees`
(RegistryMirrorsWorkers), `StopsAlone` (StopsWithoutOldWorkers) and `ConnectionsFirst`
(PayloadFindsItsConnection) for any number of processes, endpoints and messages. The invariant adds:

* `StopInv`: beyond its first test the periodic task knows that the parent is gone,
  and from the count on the registry holds only workers that joined since;
* `ChannelInv`: what was handed over is what was submitted under its number, and
  WORKER_STARTED is the first message of its process. So nothing of a process was
  dispatched before its registration, and its last message cannot be overtaken;
* `TransportInv`: dispatched connections to parsable endpoints are known, and an enqueued
  payload is among the messages handed over. So a connection dispatched after it has a higher number.

### 5.3 Function hooks

`FunctionHooksProofs` proves `TypeCorrect`, `Transparency` (ExceptionTransparent),
`BodyRunsOnce` (OriginalRuns) and `NoNestedErrorHandler` (no error handler starts inside
another) for any functions, interfaces, attributes, deployments and any depth of the
stack. The properties are about the top frame only, and popping a frame uncovers the
one below. The invariant therefore speaks of the whole stack:

* `FrameInv`, of every frame: its body has run or not according to its step, and
  while a hook runs the restorer holds what the call must end with;
* only the top frame may be between two pieces of PHP code (`StackInv`), so a frame
  that is uncovered is in PHP code and any exception may arrive there;
* `TopInv`, of the top frame: what `ExceptionTransparent` says;
* an error handler on the stack has set `errorHandling`, and there is one at most;
* `HandlersInv`: the wrapper is installed only where the original handler is known.

The lemmas `StackReplace`, `StackPush`, `StackPop` say that the three ways in which
actions change the stack keep `StackInv`; the steps of the actions use them.

The theorems `HooksRunInPairs` (PairsRun) and `CurrentSpans` (SpanIsCurrent) rest on a
second invariant, `PInv`, proved on top of the first:

* `ListsInv`: the pairs of a function are in the order of their numbers, and an
  internal function with pairs has the wrapper. The debug pair that
  `registerObserverHandlers` puts in front has number 0 and comes once, when the engine
  first asks for the function;
* `ObservedInv`: a function the engine has asked about has the begin and end handlers
  that its timely pairs and its attribute call for, and the storage has the attribute
  of the code that runs now: the request that observed it has replaced the older one;
* `CallsInv`, of every frame: how far the loops over the pre and post hooks have come
  and that exactly the hooks up to there have run (`RanTo`), and the frame's span.

The second part is what makes the third survive an action of a deeper frame: a hook
registers further pairs while a loop over the same list is in the middle, and these are
beyond the position of the loop or late. It also takes that an internal function, a user
function and an interface are different things (`DisjointAssumption`), as they are in
the function and class tables.

`HookValuesFollow` (HookValuesArrive, of `HookSpec`) is about `HookValues`, for any
parameters, variables and temporaries of a function, any arrays and any number of hooks.
It assumes what PHP guarantees (parameters are the first variables, an annotated one is
among them, property names differ, hooks return values) and that the frame has room for
the arguments (`FrameAssumption`, which also bounds the sequences). Three steps:

* the loop of `argsPostProcessing` leaves in a slot the value of the last entry for its
  position (`PutSoFar`), because `Target` never sends two positions to one slot
  (`TargetFacts`); it is extended before by slots that belong to no argument the call
  has (`ExtendedFacts`);
* the loop of `callWithSpanHandlerPre` leaves under a key the last value that was added
  for it (`AddedSoFar`), which `SpanAttributes` applies to static attributes, parameters
  and properties one behind the other;
* `HookInv` says of every covered position (`Covered`: those where the code and the
  engine agree on the slot) that the frame has the wanted value, and of a gap, or of a
  parameter beyond the arguments, that its slot is undefined, null or was given by name.
  The last part is needed because a later hook may move the number of arguments past such
  a parameter. It also keeps the span equal to what the handler computes from the frame,
  and the return value equal to that of the last post hook that counts.

The attempt to prove the property as it was first stated failed on a hook that hands back
the null it was shown in a gap; `Wanted` and the arrays of the run have that case now.

### 5.4 HTTP transport

`HttpTransportProofs` proves `TypeCorrect`, `BytesAccounted` (UsageAccounted) and
`PayloadsOnce` (EachPayloadOnce) for any sizes, limit, retries and numbers of payloads
and forks. `QueueBytes` is a recursive function over the length of the queue; what
appending a payload or taking the first one does to the sum is proved by induction,
which is carried out from the least element of the set of lengths where a claim fails
(`LeastElement`, from the library's well-foundedness of `<` on the naturals). The two
properties are almost inductive; they need

* `ControlInv`: which places of the owner and of the thread go together with
  `working`, `forceFlush` and the existence of the thread. So a payload is with a
  thread only while there is one, and a forked child has none;
* `FlushInv`: a thread that has reached its loop ends under the destructor only when
  the queue is empty or the timeout has passed.

`Placed` says where the identifiers are as four sets; the steps that move a payload
from one to the next are lemmas about these sets, not about the sequences.

### 5.5 OpAMP client

`OpAmpHeartbeatProofs` proves `TypeCorrect`, `SilentWhenStopped` (StoppedMeansSilent)
and `SpacedHeartbeats` (HeartbeatsAreSpaced). The first takes where the thread may hold
its mutex (`MutexInv`: at the head of its loop or while it sends, and always while it
sends) and where a client without a thread is (`StoppedInv`). The second takes `SpacingInv`: while no interval came in that sets no distance, both intervals are
paced, and from a heartbeat until time passes both deadlines lie ahead. The options of a
remote configuration keep this unless they are too long, because `updateHeartbeatInterval`
and `updatePollingInterval` refuse what is not positive; they are looked up only for an
answer with a configuration (`ConfigInv`). The width of a duration, what a second is in
the smaller unit and the longest interval are any numbers (`WidthAssumption`); `SignedFits`
and `MillisecondsFit` say that a conversion that wraps stays within the width, by which
`TypeCorrect` holds for all that a server can send. `DeadlineAhead` says that the deadline
of a paced interval has not passed.

### 5.6 Remote configuration

`RemoteConfigProofs` proves `TypeCorrect`, `WholeRevisions` (WorkersSeeWholeRevisions)
and `AppliedWhenReported` (ReportedIsApplied) for any number of PHP processes. `LockInv` is
the heart: the shared memory is as it was at the end of the current revision, or the
exclusive lock is held, nobody reads, and the coordinator is storing or died doing so.
A reader therefore copies a whole revision under its number. `ProgressInv` says how far
the current configuration has come (what is stored already, what is in `todo`), so that
the memory includes all its files once the lock is given back; `ReportedInv` carries
that on to the hash in the next heartbeat.

The same module proves the three properties of `Configuration`, which meets
`RemoteConfig` in what arrives through the shared memory: `SnapshotFromSources`
(SnapshotMeansSources), `LoggerFollows` (LoggerFollowsConfig) and `TlsAtHome`
(TlsStaysHome). They hold for any settings, remote configurations, log features, files that
cannot be opened, sizes of `std::size_t` and of the count of milliseconds, outcome of a
conversion that does not fit and priority of the vendor's provider, within the assumptions
of `Configuration` (section 2.9; `SizeLimitAssumption` and `DurationAssumption` say that
the defaults fit).

* Conversions, one lemma per type of option (`LevelParsed`, `DurationParsed`,
  `BytesParsed`, `BooleanParsed`, put together in `ConversionMeansText`): a text in a form
  that is understood converts to what it means, another one does not convert, with the
  exceptions the property names, and only a number that `stoul` or `stod` cannot convert is
  out of range. `ShownText`: the text `phpinfo()` shows converts back to the value, unless
  that is a negative duration.
* `FetchedText`: the text the three places and the two providers yield is the one of
  highest rank, which the property defines without following the search.
* `ConvertedMeansSources` joins them, for each option of a new snapshot.
* `ProcessInv`: the copy of the process holds the defaults or was made (`Made`) of the
  sources and of a configuration that arrived; a started process has such a copy, and its
  logger follows it (`Follows`) except for a file left open; the file sink has no file
  that cannot be opened; and a process that terminated had a number out of range.
* `FeaturesParsed` and `FeaturesPass`: the first item of a feature counts, so the level
  the logger applies is the one the property asks for.

### 5.7 Request life cycle and sampling

`RequestSamplingProofs` proves `TypeCorrect`, `ResumedInRequests`
(SampledOnlyInRequests), `InterruptsInStep` (InterruptsAccounted) and `ThreadlessFork`
(NoThreadAtFork) for any number of requests, forks and interrupts. Captures and forks
interrupt a request and return to it, so the flags are related to `Place`, where the
thread of PHP is or will be again (`ReturnInv`, `RequestInv`). `LateInv` says that a
suspended thread is in no turn but the one it had begun, `CaptureInv` where an interrupt
is that was asked for, `ThreadInv` when there is a thread and who told it to leave.

The same module proves both properties of `InferredSpanTree`, whose captures those
interrupts are: `SpansFollow` (SpansFollowTrace) and `SpansNest` (ReportedSpansNest), for
stacks of any depth, any frames of hooks, combinations of options, captures, times and
spans of the application, within `HookAssumption`, `DepthAssumption` and
`OptionsAssumption`, which are the types of these constants. `TreeInv` is inductive. It
says that the frames kept are those of the trace, and

* of a request that is not sampled, that no inferred span ends, none is dropped and, as long
  as nobody else touches them, every scope stays in the storage (`Quiet`);
* of a sampled one whose scopes nobody else touched, that its spans are a tree (`IsTree`):
  `WellFormed`: the storage holds the root and the open spans, in the order of their start.
  `OnStack`: the open inferred spans are those of the frames, a later span further in.
  `Hanging`: a frame hangs under the frame below, a span of the application or the root;
  frames of one capture start together, and of two such frames the lower has no child but
  the upper. This is why reducing a capture to one span cuts off nobody: whatever
  hangs under a span that is dropped is itself one of the group.
  `Timed`: no inferred span starts or ends after the last capture, and one that ended was
  as long as `minDuration`. `Nested`: the property itself, and that an open inferred span
  has no inferred parent that was ended or dropped.
* Once another party has touched the scopes, only types and the trace remain, as in the
  property.

A comparison is proved turn by turn. `EndLoop` and `StartLoop` unfold the two recursive
functions into a sequence of turns, over which `Induct` carries an invariant (an induction
over a set of numbers, which needs no operator as parameter). Between two turns the tree is
`IsTree(sp, st, fr, lo, n, ...)`: `lo` frames are done, and of the frame above the `n`-th
nothing is known yet. `EndStep` is the span of a frame that ends or is dropped,
`MoveStep` that of a group moved under the group's outermost parent, `EndTurn` both;
`EndLoopTree` all turns; `Reindex` takes the frames that are done off the stack;
`StartStep`, `StartsFrame` and `StartsInternal` a new frame and an internal function that
ends at once; `CompareStep` is the whole.
`UserStarts` and `UserEnds` are the steps of the application.

### 5.8 Module life cycle

`ModuleLifecycleProofs` proves `TypeCorrect`, `TaskGivenOnce` (OneTimeTaskGivenOnce),
`WholeAfterFork` (ForkedWorkersAreWhole), `HooksReached` (OtherHooksStillRun) and
`NoFileTwice` (OneCopyOfEachFile) for any number of processes, requests and files:

* `TaskInv`: the flag in shared memory says whether the task was given;
* `JoinedInv`: only a process with the fork handlers makes an executor, which then is in
  the registry, and such a process is the master or has announced itself. So a fork
  restarts every thread it stopped;
* `HookInv`: what is on top of each hook, what the later extension saved and what the
  distro hands on to; the chain never leads back to where it was;
* `PathInv`, `SeenInv`, `CopyInv`: no file of the distro is compiled before the guard
  knows the vendor path, the guard knows the names of the distro's files up to the
  positions it remembers in both tables, and with its hook in place no second copy
  is in the tables or in what preloading keeps for the next requests.

The assumptions are the types of the options, of opcache's states and of the files
(`ConfigsAssumption`, `OpcacheAssumption`, `FilesAssumption`).

### 5.9 Texts

`HttpTransportProofs`, whose transport is configured with such texts, also proves
`TextsAsDefined` (TextAsDefined) for strings of any length over any bytes, from
`AlphabetAssumption` alone (alphabets are sets of bytes). The invariant is only that the
text is a string of bytes; the work is what four recursive functions compute, two of the
code and two of the definition it is compared with. For each there is a lemma that a
function with these equations exists (it is extended by one round at a time), and then

* UTF-8: `MultibyteForms` turns the bit tests of the code into ranges of bytes and
  `CharRow` shows that a character is read at a position exactly where a row of the
  table describes the bytes, with the same length. The code reads from the left, the
  definition takes rows off the right end; `Utf8Reading` lets the two meet in the middle:
  a well-formed prefix, followed by a rest that can be read, makes the whole both;
* pairs: after any number of rounds the code has the counted items that begin before the
  next position (`RoundAddsItem`, `PairsOfItems`); that keeping the first pair of a key
  is the same as counting the first item of a key needs the least such item
  (`FirstCounts`); an item that a final comma opens has no equal sign and is missed by
  neither;
* escapes: what has been decoded before a kept position, followed by what the code makes
  of the rest, is the same at every kept position (`ValueDecoded`), as no escape begins
  within another: a hexadecimal digit is not a percent sign.

### 5.10 What is proved and not run, and what is only model-checked

Type correctness, `OneErrorHandler` and the inductive invariants are proved and in no
configuration: the theorems cover every instance.

Only model-checked:

* all liveness properties: fairness and ENABLED are out of the prover's reach;
* `RecordsArrive`, which compares the conversion of a batch with its definition:
  `convertAnyValue` is a RECURSIVE operator, which the prover does not take.

## 6. Not modelled

* I/O and formatting: curl, diagnostics, resource detection, the wording of logs, names
  and attributes of inferred spans, INI registration.
* Steps without a choice: the PHP side's bootstrap and its thin transport, the loader,
  functions for PHP that pass a value on.
* Not part of the running system: the bridge extension for the PHP tests, packaging,
  build, tools.
* Details inside modelled parts: delays between retries, the SIGSEGV handler (whose
  condition at `SigSegvHandler.cpp:49` is inverted, so that it is never taken out),
  files opcache does not compile again, vendor directories inside vendor directories,
  references among arguments, and a VM stack page without room for added arguments.

Hazards no module covers: a pid that the system gives to another process within the ten
seconds of the cleanup or while its worker is registered (pids are names here, and never
reused); unsynchronised reads of the snapshot through `ConfigurationStorage::get` and of
`agentUid_`, and an unsynchronised `setLogFeatures` (the outcome of a torn read of a
structure has no useful bound); a fatal error inside the error handler, which leaves
`errorHandling` set for the process (`FunctionHooks` ends the request there); an internal
method hooked under the name of a subclass; shared memory that is too small for the files;
messages that are still in the queue when the coordinator's loop ends, which the channel
counts as lost; and an OpAMP client whose last reference is given up by the callback on
the transport's thread, if it then takes the transport with it, which joins that thread.

## 7. Plan

Done, in this order: `MessageChannel` and `ChunkedMessages` with its proofs,
`HttpTransport`, `Coordinator` and its proofs, `RemoteConfig`, `RequestSampling`,
`FunctionHooks` and its first proofs; then `InferredSpanTree`, `OpAmpHeartbeat`,
`Configuration`, `Text`, `OtlpConversion`, `ModuleLifecycle` and `HookValues`; then the
proofs of the safety properties of `RequestSampling`, `HttpTransport`, `OpAmpHeartbeat`,
`RemoteConfig` and `ModuleLifecycle`, and the rest of those of `ChunkedMessages` and
`FunctionHooks`; then those of `Configuration`, `InferredSpanTree`, `Text` and
`HookValues`.

What would come next: `RecordsArrive`, which needs `convertAnyValue` as a function over a
bounded depth of values.
