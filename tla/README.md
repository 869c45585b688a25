# TLA+ models of ISML

These are TLA+ models of the ISML messaging library (`src/`), checked with TLC.
Every action is translated from the C++ source. `PROJECT.json` maps each
definition to the lines it models. It also lists the runs, the mutants that
show each passing property can fail, the findings and the hazards.

## The system and how its parts interact

- A **MessagingService** (`messaging_service.cpp`) owns a boost.asio `io_context`.
  - It runs the context on one thread launched by `std::async` (the *reactor*).
  - It also owns a **TransportRegistry** and a **SessionManager**.
- `connect(url)` finds a transport factory and creates a **TcpTransport**. It then
  asks the SessionManager to `createSession`.
- A **Session** (`session.cpp`) owns its transport through a `unique_ptr`. Sessions
  are shared through `std::shared_ptr`. Their holders are the manager's map, the
  application, and every **PubSubMessageChannel** the session subscribed to.
- **TcpTransport** (`tcp_transport.cpp`):
  - keeps an outgoing and an incoming `ConcurrentMessageQueue`;
  - keeps two tables of pending requests (promises and timestamps) under one mutex;
  - chains `async_write` and `async_read` on the reactor. The handlers capture a
    raw `this`.
- Messages are built by the **MessageFactory** from a **MessageDescriptor**.
  - A **FieldSet** is a `std::list` of fields.
  - The binary codec writes the list front to back.
  - A frame is a `uint16` length followed by the message.
- A field's value is written by the **binary serializer**
  (`binary_serializer.hpp`): scalars, enums, optionals, pairs, sequences,
  arrays, sets and maps, a container as a `uint16` count and its items.
- A **MessageDispatcher** calls the handler registered for a message's type
  when its **filter chain** admits it, or passes the message to a
  delegated dispatcher that has a handler.
- **Listenable** is the listener fan-out that `Transport` derives from.
- **Tasks** run on a `ThreadPoolTaskExecutor`, a `TaskScheduler`, or the
  application's own thread (`Task::run`, `Task::runAsync`).
- **Url** parses and prints the addresses given to `connect`.
- A **ServiceManager** (`service_manager.hpp`) publishes services such as the
  MessagingService, and stops and erases them in `terminate`. A **SignalInterceptor**
  (`signal_interceptor.cpp`) passes OS signals to handlers on the reactor. Signals sit
  around this core. `ThreadJoiner` (`thread_joiner.hpp`) joins a container of
  threads when its scope ends, through `DeferredCall`.

## Modules

| module | models | state ↔ code |
|---|---|---|
| `TcpTransport` | one transport: send, request, receive, stop, the write loop, the read loop with request correlation, `removeExpiredRequests` | `outgoing`/`incoming` are the two queues, with `push`, `size` and `pull` (an empty `std::optional` when the queue is empty) as operators; `pendingRequests`/`pendingRequestsTs` are `m_pending_requests`/`_ts`; `pendingMtx` is their mutex; `inflight` is the messages of started `async_write`s; `pc` is the program counter of each application thread and of the reactor, at the lock sections of `doSend`, `doRequest` and `doReceive` |
| `SessionManager` | `createSession` (with `SessionFactory::generateId` and the `Session` constructor that starts the transport), `terminate`, `terminateAll`, `findSessionByProperty`, the pointer drops, and the aborted read's handler | `sessions` is `m_sessions` (`"null"` is a moved-from pointer); `refs` is the holders of each `shared_ptr`; `alive`, `socketOpen`, `tstate` and `readArmed` are the parts of the transport that the manager's behaviour depends on |
| `SessionProperties` | each session's `PropertySet` (`operator[]`, `remove`, `removeAll`, `Property::operator=`/`operator==`) and the manager's scans `find`/`findSessionByProperty` and `forEach`; EXTENDS `SessionManager` | `props` is each session's `m_properties` (`"absent"` for a key not in the map, `"valueless"` for a default `Property`); `tagged` is the keys the application set and did not remove; a scan visits an unspecified subset of entries in map order and crashes on a null one |
| `PubSubChannel` | `internal_subscribe`, `internal_unsubscribe`, `internal_send`, `publishWithProducer` and `helper_unsubscribe`; EXTENDS `SessionManager` | `subscribers` is `m_subscribers`; `bpc` is the broadcasting thread holding `m_subscribers_guard` across the loop and the evictions; `broken` is `broken_subscriber_ids` |
| `MessagingService` | `doStart`, the reactor thread's loop, `doStop`; `connect` with `TransportRegistry::registerFactory`/`getFactory`, `TcpTransportFactory::supports`/`createTransport`, and the parts of `Result` and `Maybe<T&>` they use; EXTENDS `SessionManager` | `svc` is the atomic `m_state`; `iopc` is the reactor thread; `iocStopped` is `io_context::stop()`; `mainpc` is the thread in `stop()`; `mainpc = "halted"` is a `stop()` returned on a service that was not running; `registry` is `m_factories` (a factory is the set of protocols it supports); `conn` is the `connect()` in progress: the factory found (0 for an empty `Maybe`), the transport's `Result` and the `Result` returned |
| `FieldList` | the `std::list` inserts shared by `FieldSet::add`/`assign`, `MessageDescriptor::addFieldDescriptor`/`copy` and the `Message` constructor; the copy and move constructors of `FieldSet` and `MessageDescriptor` (`assign`/`copy`, and `swap` with an empty object), and `FieldSet::clear` | pure operators; `InsertBeforeLast` and `CopyList` are the two list-insertion loops of the source (RECURSIVE) |
| `FieldOrder` | the order of one schema's fields: `registerField`, `addDescriptor` (copied or moved), `createMessage`, `clone`; EXTENDS `FieldList` | the sequences are the `std::list`s of field names |
| `MessageSchema` | `MessageFactory::addDescriptor` (both overloads) and `createMessage`, `MessageDescriptor` construction and `registerField` with its duplicate-name throw, the `Message` constructors (build, copy, move) and release, `generateId`, `FieldSet::add`/`contains<T>`/`get<T>` (a `Maybe<ValueField<T>&>`) and `Message::field<T>`; EXTENDS `FieldList` | `descriptors` is `m_descriptors` (a function on the registered types); `draft` is the descriptor being configured; a field is its name and value type; `msgs` holds each message's `m_id`, `m_type`, fields, and whether it was moved from or released; `lastId` is the static atomic counter, wrapping modulo `2^IdBits` |
| `ServiceManager` | `publish`, `terminate<T>` and `terminate()` around the `MessagingService`; EXTENDS `MessagingService` | `manager` is the service's entry in `m_services`: absent, published, being stopped under `m_services_guard`, erased |
| `Framing` | `writeMessage`'s frame, `readMessageLength`, `readMessage`, `createMessageFromStream` (with `MessageFactory::hasDescriptor` and the `Maybe<Message::Ptr>` it returns) over a byte stream | `wire` is the socket's bytes; `pos`/`rpc`/`want` are the reader and `m_incoming_data_length` |
| `SignalInterceptor` | `addHandler` (its two steps), `run`'s `async_wait` and completion handler, `cancel`, and the OS raising a signal, with `signal_set` queueing a signal raised while no wait is pending | `inSet`/`handlers` are the `signal_set`'s signals and the keys of `m_signal_handlers`; `waits` and `undelivered` are the set's pending waits and queued notifications; `posted` is the completions the reactor has yet to run; `owed` is the signals raised while intercepting and not yet handled |
| `TaskContract` | the abstract life of a `Task` as `TaskBase::Status` documents it: created, then running and resolved, or cancelled and rejected | `task` is each task's phase |
| `TaskPool` | the `Task` constructor (`State::create`, `Action::create`), `isCancelled`/`isCompleted`, `Task::tryCancel`, `Task::run`, `Task::runAsync`, `Action::perform` (check, CAS, run, store the result, CAS to Completed), `ThreadPoolTaskExecutor`'s `doExecute`, `startWorker`, `doTerminate` and destructor | `status` is `m_status`; `promise` is whether the promise holds a value; `queue` is `m_actions`; `done` is `m_done`; `pc` is each worker, with `"wait"`/`"woken"` for `m_cv.wait`, and each runner (the thread of `run()` or a detached `runAsync()` thread); `"abort"` is `std::terminate`; `appPc` is the application thread (submit, run, cancel, destroy, join) |
| `Dispatcher` | `addHandler`, `addDelegatedDispatcher`, `filter().addFilter`, `dispatch`/`doDispatch` with `searchWithinDelegatedDispatchers`, `MessageFilterChain::matches`, `RuleBasedMessageFilter::matches` under its three policies | `handlers`, `delegates` and `chain` are `m_handlers`, `m_delegated_dispatchers` and the chain's `m_filters`; `stack` is the nested `dispatch` calls that handlers make on the caller's thread; a rule is the set of types it holds for |
| `Listenable` | `addListener`, `removeListener`, `removeListeners`, `invoke` and `invokeOnce`, with listener methods that call back into the object | `listeners` is `m_listeners`; `cap`/`gen` are its capacity and buffer (a `push_back` past the capacity reallocates); `it`, `endIt` and `loopGen` are the range-for's iterators; `pc = "ub"` is a read through an invalidated iterator |
| `BinaryCodec` | `BinarySerializer::serialize`, `deserialize` and `size` for every shape, `ByteUtils::swap`, `ValueField::serialize`/`deserialize`/`serializedSize` through the field's `CompositeSerializer` (tag dispatch on the `SerializationContext`, `IOException` when no serializer has the tag), `FieldSet::serialize`/`deserialize`/`serializedSize`, `Message::serialize`/`deserialize`/`serializedSize`, and the `Serializable` specialisation that hands a message to them; the enum and array specialisations are operators of their own | pure operators (RECURSIVE over the type's shape); `message` is a field set to encode, `previous` the object a decode reuses, `serializer` the tags of the `CompositeSerializer<Ss...>` its fields were registered with |
| `Url` | `Url::parse` (the RFC 3986 groups, `std::stoi` of the port, the parameter loop), `UrlBuilder::build`, `Url::toString` | pure operators over strings as sequences of characters; `input` is the string given to `parse` |
| `TaskScheduler` | the constructor, `schedule` (wrapping the function in a `Task`) and `doSchedule` (insert, then notify unless the top is unchanged), `doTerminate`, `watcherFn` with its three `m_suspend_reason` cases, the destructor; EXTENDS `TaskPool` | `sched` is `m_scheduled_actions` with each deadline as ticks left; `mDelay`, `elapsed` and `reason` are `m_delay`, now minus `m_delay_update_ts`, and `m_suspend_reason`; `wpc`/`wleft` are the watcher thread and its `wait_for` timeout |
| `ThreadJoiner` | `ThreadJoiner(Container&)` with the `DeferredCall` it derives from: `~DeferredCall` running `join(container)` in its `try`/`catch (...)`, `join(thread)`, and the container's destruction after the joiner | `th` is each `std::thread` of the container (empty, running, finished, joined, detached); `pc` is the scope (body, the destructor's loop, the container's destructor, done, `std::terminate`); `i` is the loop's element |

Where model values, numbers and strings suffice, the `.cfg` gives them to
the module itself (`TcpTransport`, `TaskPool`, `TaskScheduler`, `SessionManager`,
`PubSubChannel`, `MessagingService`, `ServiceManager`, `Dispatcher`,
`Listenable`, `FieldOrder`, `MessageSchema`, `SessionProperties`, `Framing`,
`SignalInterceptor`, `ThreadJoiner`). `BinaryCodec` and `Url` need constants
that a `.cfg` cannot write (records and sequences built by an expression).
Each keeps them in a "model values" section of its own, between the
specification and the properties, and its `.cfg` substitutes them with `<-`.
Each `.cfg` selects one question.

`TcpTransport` treats a frame as already decoded (a message of a kind).
`Framing` shows that the real bytes never decode. The two are kept separate
so that the transport's concurrency can still be checked.

## Runs (listed in PROJECT.json)

| run | expect | what it shows |
|---|---|---|
| transport | pass | Two application threads request, send and receive while the reactor reads and writes and requests expire (about 2 million states). The pending tables stay in step (`PendingTableSound`), and a reply completes only the request it answers (`NoReplyMisrouted`). That every sent message is written (`SentEventuallyWritten`) is not claimed: two senders lose a write (`MCTcpTransport_lost.cfg`). |
| session_freed_handler | violation | create, terminate, application release, then the aborted read's handler runs on the destroyed transport. |
| session_null_deref | violation | `onSessionTerminating` throws after `terminateSessionNoLock` moved the pointer out of the map entry; the catch leaves a null entry, and the next `terminateAll`, `terminate` or find dereferences it (`NoNullSessionDereference`). |
| pubsub_fanout | pass | A broadcast reaches every subscriber that is active at the end of its loop, against concurrent terminations and the reactor (`FanOutReachesActive`); a session removed by `terminate()` eventually stops being `active()` (`TerminatedSessionBecomesInactive`). |
| pubsub_freed_callback | violation | `helper_unsubscribe` erases the map element and then passes the reference bound to it to `onUnsubscribed`; the session may already be destroyed (`UnsubscribedCallbackOnLiveSession`). |
| service_lifecycle | pass | Whenever a `stop()` of a running service has returned, the service is `Stopped`, across start, stop, a restart and stops of a service not running (`StoppedAfterStopReturns`). A `connect()` racing them and `registerFactory` returns the session it created, or the error of the step that failed: `protocol_not_supported`, the transport's error, or `0xFF` only when `createSession` threw (`ConnectResultNamesCause`). |
| tasks | pass | One worker, one `run()`/`runAsync()` thread and two tasks, with submit, run, cancel and destroy, in a build with `assert()` enabled and a CAS that does not fail spuriously (as on x86; `MCTaskPool_weak.cfg` and `MCTaskPool_ndebug.cfg` drop each assumption): a task whose `tryCancel` returned Success never runs, every queued task is eventually resolved, cancelled, abandoned at shutdown or lost with an aborted process, and the pool implements `TaskContract` (`TaskRefinesContract`). |
| scheduler | pass | With `wait_for` returning on a notification, a timeout, or spuriously, every scheduled action is handed to the pool eventually unless the watcher has returned (`ScheduledEventuallyHanded`), whatever order `doSchedule`'s `notify_one` and the watcher's waits come in. That none is handed early (`NoTaskRunsEarly`) is not claimed: a spurious return does it (`MCTaskScheduler_spurious.cfg`). |
| scheduler_destructor_hang | violation | `~TaskScheduler` joins the watcher before terminating it; a scheduler destroyed without an earlier `terminate()`, or one whose `doTerminate` was overwritten by a later `schedule`, never finishes its destructor (`DestructorReturns`). |
| dispatch | pass | Two dispatchers that may delegate to each other or to themselves, handlers that dispatch again and register handlers, delegates and filters: a handler is called only for a message every filter of its dispatcher's chain admits, as the chain is when the call reaches it (`HandlerOnlyForAdmitted`). A delegated message passes only the delegate's chain, not the delegating dispatcher's; neither the source nor the spec says otherwise, so no property claims it. |
| codec | pass | Over integers at their limits, enums, booleans, nested optionals, pairs, sequences, arrays, sets and maps, and each field serializer: whenever `serialize()` returns, `size()` is the number of bytes it wrote, and decoding into a fresh field set gives back the message and leaves the following bytes unread. A serializer without the binary tag throws on both sides; one with a second serializer ahead of the binary one writes and reads only through the binary one. |
| framing_delivery | violation | `writeMessage` writes no `MessageType`, and the reader takes the length's own two bytes as body. No frame is ever decoded as the message sent. |

### Further configurations kept beside the runs

Each of these reproduces another divergence found while modelling. TLC finds
each one violated; they are kept for the next sittings, but PROJECT.json does
not list them among its runs:
- `MCTcpTransport_write.cfg`: `writeMessage` pulls the message before its write completes. The next `doSend` sees an empty queue and starts a second `async_write` over the same buffer (`SingleWriteInFlight`).
- `MCMessagingService_hang.cfg`: `stop()` before the reactor thread's first statement: the thread overwrites `StopPending` with `Started` and spins, so `stop()` never returns (`StopReturns`).
- `MCTaskPool_cancel.cfg`: a `tryCancel` between `perform`'s `isCancelled()` check and its CAS: the CAS fails, `perform` returns, and the promise is never set, so `getResult()` blocks forever (`GetResultReturns`).
- `MCSessionProperties.cfg`: `findSessionByProperty`'s predicate `session->properties[key] == val` goes through `unordered_map::operator[]`, which inserts a valueless `Property` into every session the scan visits, so after a lookup sessions contain keys nobody set (`ContainsOnlyWhatWasSet`).
- `MCTcpTransport_lost.cfg`: two concurrent senders leave a message queued with no write.
- `MCTcpTransport_receive.cfg`: `receive()` returns an engaged optional holding `nullptr`.
- `MCTcpTransport_badreply.cfg`: a reply whose `srcMsgId` has the wrong type is dropped.
- `MCSessionManager_connect.cfg`: `connect()` reports Failure, but the session stays registered and open.
- `MCPubSubChannel_reason.cfg`: a producer exception evicts a healthy subscriber as "transport stopped".
- `MCPubSubChannel_shutdown.cfg`: a broadcast queues to a terminated session, because `doStop` leaves `m_state` Started.
- `MCMessagingService_connect.cfg`: a `connect()` whose `createSession` runs after `stop()`'s `terminateAll` registers a started session that is still in the manager when `stop()` returns (`NoSessionOutlivesStop`).
- `MCMessagingService_restart.cfg`: the `io_context` is never `restart()`ed, so after a restart no handler runs.
- `MCMessageSchema.cfg` passes: over two types, duplicate field names, re-registration, copied and moved descriptors, and built, cloned, moved and released messages, live messages have distinct non-zero ids (`MessageIdsUnique`), `field<T>(name)` succeeds exactly for the name and type the schema registered (`TypedAccessMatchesSchema`), and no registered schema changes (`RegisteredSchemaImmutable`). Each of the three fails under a mutant: `Clone` keeping the id, `registerField` without its duplicate check, `addDescriptor` overwriting.
- `MCMessageSchema_wrap.cfg`: `generateId`'s counter wraps to 0, the id the spec reserves, and then reuses ids. The width is 2 bits here, so the wrap happens at the 4th message instead of the 2^32-th.
- `MCServiceManager.cfg`: `terminate` right after `publish` calls `stop()` on a service that was never started. `m_io.wait()` throws `no_state` into `doStop`'s catch, and the service is erased in `StopPending`. A second `stop()` ends the same way (`TerminatedServiceStopped`).
- `MCFieldOrder_peer.cfg`: `assign`/`copy` reverse the list, so a clone, or a factory given a copied descriptor, sends its fields in an order the peer decodes wrongly.
- `MCTaskScheduler_terminate.cfg`: `watcherFn` tests `isTerminating()` before it takes the lock, so a `terminate()` between the test and `wait_for` notifies nobody; with nothing scheduled the watcher then waits `maxWaitTime()` and never returns (`TerminateStopsWatcher`).
- `MCTaskPool_weak.cfg`: with `compare_exchange_weak` failing spuriously, `tryCancel` returns Success for a task that then runs.
- `MCTaskPool_ndebug.cfg`: under `NDEBUG` the final CAS sits inside `assert` and is compiled out, so the status never becomes Completed.
- `MCTaskPool_rerun.cfg`: a cancelled task performed twice (submitted and also `run()`/`runAsync()`, or run twice) calls `set_exception` a second time inside `perform`'s catch block; the `future_error` leaves a `noexcept` function and `std::terminate` ends the process (`PerformNeverAborts`).
- `MCSignalInterceptor.cfg`: `run()` arms one `async_wait` and its handler never arms another, so a second signal after `run()` is queued in the `signal_set` and never reaches its handler (`SignalEventuallyHandled`).
- `MCUrl.cfg`: `parse` accepts `a://b:-1`; the unsigned port prints as `4294967295`, which `stoi` rejects, so the printed URL no longer parses (`ParsePrintRoundTrip`).
- `MCListenable.cfg`: a listener that adds a listener during `invoke()` makes `push_back` reallocate, and the loop reads the freed buffer (`EveryListenerNotified`).
- `MCBinaryCodec_endian.cfg`: the wire is little-endian (`swapBytesIfNeeded` swaps on big-endian hosts), while the spec's endian law is big-endian (`WireIsBigEndian`).
- `MCBinaryCodec_reuse.cfg`: decoding into an object that held a value leaves an absent optional holding the old value (`DecodeReusedInvertsEncode`).
- `MCTaskScheduler_spurious.cfg`: a spurious wakeup of `wait_for` in the ExecuteTask case hands the top action to the pool before its delay.
- `MCThreadJoiner.cfg`: `join(thread)` calls `detach()` on an element that is not joinable (a default-constructed thread, or one the application joined or detached); `std::thread::detach` throws, `~DeferredCall` swallows the exception, and the later elements are neither joined nor detached, so the container's destructor calls `std::terminate` (`JoinerLeavesNoJoinableThread`).

## Bounds, and why they are enough

- **TcpTransport:** two threads plus the reactor, two messages and up to 3
  inbound frames. That is enough for two requests racing a reply, an expiry,
  and a receive. No symmetry is declared: the liveness configuration
  (`MCTcpTransport_lost.cfg`) cannot use it, and the two-thread run finishes
  in under a minute without it.
- **Sessions and the channel:** two sessions, so one can be terminated while the
  other is broadcast to. Callbacks either return or throw.
- **Session properties:** two sessions, one key and one value: a lookup that
  matches the second session visits the first, a lookup with no match visits
  both, and a `forEach` can stop after either.
- **MessagingService:** one session and two `start()` calls. That is the smallest
  case with a restart. Two protocols, the TCP factory and one application
  factory that supports both, two registrations and two connects: enough for
  an unsupported protocol, a lookup that finds the later of two factories, and
  each way `createTransport` can fail, including a URL with no port.
- **MessageSchema:** two types, two names and two value types, so a name
  can be registered twice with different types and a type registered twice;
  two `registerField` calls per descriptor and three messages, so a clone of
  a moved message exists; 2-bit ids, so the three ids 1 to 3 are the last
  before the wrap.
- **ServiceManager:** one publish, one session, one start and one connect.
- **Fields:** three names (the smallest list on which insert-before-last and
  reversal differ from the identity) and four messages, so there is a clone of
  a clone.
- **Framing:** two message types with one and two fields (type `t` has `t`
  fields), and three sends.
- **SignalInterceptor:** two signals, two raises and two `run()` calls: a
  signal after the first one handled, a signal between `addHandler`'s two
  steps, and a `cancel` racing a raise.
- **Tasks:** one worker, one runner and two tasks: a task can be performed by
  the pool and by `run()`/`runAsync()`, cancelled while the other runs, and
  the worker can be waiting when the pool is destroyed. The violation runs
  use two workers and no runner.
- **Dispatcher:** two dispatchers, two types, one rule, one delegate and one
  filter each, and two nested `dispatch` calls: enough for mutual and self
  delegation and for a handler that changes the configuration and dispatches.
- **Listenable:** three listeners and a vector of at most three, so a
  `push_back` reallocates during an `invoke()` and a listener can remove
  itself or a later one.
- **Codec:** `int8`, `uint16` and `int32` values at 0, ±1 and their limits,
  containers of zero to two items, and nesting two levels deep. The field
  serializers are `CompositeSerializer<BinarySerializer>` (what the
  repository's tests register fields with), one that lists a name-addressed
  serializer first, and one without `BinarySerializer`. A composite names
  each serializer once.
- **Url:** every combination of a small set of protocols, hosts, ports
  (empty, zero, signed, trailing garbage), paths, queries and fragments.
- **ThreadJoiner:** a container of three threads, each started or empty:
  an element that is not joinable ahead of one still running.
- **Scheduler:** one worker, two tasks and delays 1 and 2, so a shorter delay
  can arrive during a longer wait. Time is relative: deadlines, the wait's
  timeout and `now - m_delay_update_ts` are kept as ticks left or elapsed and
  clamped just past the largest delay, where no comparison of the code
  changes; `maxWaitTime()` is a value no clamp reaches.

TLC finds every violation listed here within these bounds.

## Fairness

- **The reactor:** weak fairness on the handlers of aborted reads. The reactor
  is a single thread that runs queued completion handlers, and a read is
  aborted only once the socket is closed.
- **The service:** weak fairness on the reactor thread's own steps and on a
  `stop()` in progress. Both are OS threads.
- **The transport:** weak fairness on a thread finishing a `doSend`, `doRequest` or
  `doReceive` it has begun, on an actor finishing a `writeMessage` it entered, and
  on the OS completing or failing every `async_write` it was given. Nobody is
  assumed to call `removeExpiredRequests`.
- **Dispatch and listeners:** weak fairness on the steps of a call in progress;
  they run on the caller's thread.
- **Tasks and the scheduler:** weak fairness on each worker's and runner's steps, on the
  watcher's steps, on the joins, and on the clock. Workers and the watcher
  are OS threads; a condition-variable wait is not enabled until notified
  (or timed out), so a lost notification is not hidden by fairness. A
  spurious return of the watcher's `wait_for` may happen but is never owed
  (`WakeOwed`): fairness would otherwise force one and wake a watcher that
  lost its notification.
- **Not assumed:** the application's calls and the peer's traffic.

## Refinement

`TaskPool` maps each task's `m_status` and promise to a `TaskContract`
phase (`Phase`) and checks `TaskRefinesContract == Contract!Spec` as a
property of the `tasks` run: every step of the pool is a step of the
contract or leaves the phases unchanged.

## Not modelled

- **A serializer exception in the write loop:** `writeMessage`
  (`src/src/transport/tcp_transport.cpp:140-141`) pulls the message and then
  serializes it. A field registered with a `CompositeSerializer` that has no
  binary serializer throws `IOException` there. Called from `doSend`, the
  exception reaches the application and the message is lost. Called from the
  `async_write` completion, it is swallowed by `doStart`'s reactor loop, and
  the write loop is never re-armed. Every message queued after that stays
  queued, because `doSend` writes only when the queue was empty.
  `TcpTransport` treats message contents as opaque, and `BinaryCodec` shows
  which serializers throw. Combining the two would take a kept run and a
  hazard slot, and both are full, so this is documented here and not checked.
- **Out of the spec's scope:** logging. `ServiceManager`
  is modelled with one service type published once.
- **Message model:** the factory's own copy, move and `swap`, the session a
  message holds, and field values (`BinaryCodec` has those).
- **Tasks:** the Task moves and the executor constructor's start-up sleep.
- **Serialization context:** `SerializationContext::stream<S>()` throws
  `InvalidCastException` when `S` is not the stream the context was created
  over. `TcpTransport` creates every context with
  `create<BinarySerializer>(std::stringstream&)`, and `BinarySerializer` asks
  for `std::stringstream`, so the check never fails in this library and the
  model keeps only the context's serializer tag (`ContextTag`).
- **Codec:** strings and floats (their bytes are library conversions); the
  text serializers themselves (none is in the repository; a composite's
  other tags only matter by not matching the context). `ByteUtils::swap` is
  modelled on the object's bytes. The uint32 and uint64 values its masks
  produce are past TLC's 32-bit integers.
- **MessageController:** `init` only calls `doInit`, whose two hooks are pure
  virtuals the application writes; the dispatcher it holds is `Dispatcher`.
- **HandlerMapping:** `handler_mapping.hpp` includes
  `isml/utility/nullable_reference.hpp`, which is not in the repository, so
  the template cannot be instantiated, and nothing uses it.
- **Session properties:** the application's writes to a `PropertySet` are
  atomic steps; the data race between them and a scan is not modelled.
- **SignalInterceptor:** `signal_set::add`'s `system_error` (an invalid
  signal number) and signals outside the set.
- **Utilities:** `Guard`'s variadic constructor passes a pack to
  `defer`, which takes one callable and its arguments, so it does not compile
  when instantiated; `DeferredCall`'s moves and the single-thread
  `ThreadJoiner` constructor are not modelled. Nothing in the library uses
  these classes.
- **Re-entrant callbacks:** a session callback that calls back into the
  `SessionManager`, or a channel callback into the `PubSubMessageChannel`,
  locks a non-recursive `std::mutex` its own thread holds. That is undefined
  behaviour that deadlocks in practice, by construction and on every path, so
  a model has nothing to find.
- **Unused helpers:** most of `Maybe` (only what `getFactory`, `FieldSet::get`
  and `createMessageFromStream` use is modelled), the `Url` constructors and
  accessors, and the singletons' `getInstance`.
- **Declarations and compile-time code:** the exception classes
  (`exceptions.hpp`), the concepts and type traits, class declarations and
  their doc comments, and the `const` twins of accessors are not state
  changes and have nothing to translate. `JsonUtils` is file and string
  I/O through jsoncpp. `ValueHolder` is an unused wrapper.
  Together with the unused helpers these are most of the lines the map
  does not name: the map covers about 27% of the source's lines, and the rest has no state change a model could translate.
- **Abstractions:** the
  socket I/O of `TcpTransportFactory::createTransport` is abstracted to its
  outcome; `registerFactory` is unguarded, and a lookup is taken as one step.

## Further work

1. An abstract `RequestCorrelation` specification, with `TcpTransport` shown to
   implement it by `INSTANCE ... WITH` a refinement mapping.
2. A reactor thread decoding with `createMessage` while the application
   still registers descriptors: the unordered_map has no lock.
