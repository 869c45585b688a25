-------------------------- MODULE MessagingService --------------------------
(***************************************************************************)
(* MessagingService (src/messaging_service.cpp): the facade that owns the *)
(* io_context, the thread std::async runs it on, and the SessionManager.  *)
(* doStart sets StartPending and launches the thread; the thread sets     *)
(* Started and calls m_ioc.run() (kept busy by a work guard) until it     *)
(* sees StopPending. doStop sets StopPending, terminates every session,   *)
(* stops the io_context and waits for the thread. The completion handlers *)
(* of sessions run only while the thread is inside a run() of an          *)
(* io_context that is not stopped. m_state is a std::atomic, so each      *)
(* access is one step.                                                    *)
(*                                                                         *)
(* connect(url) runs on the application's thread: TransportRegistry's     *)
(* getFactory picks a factory for url.protocol() (a Maybe<TransportFactory&>),*)
(* its createTransport resolves and connects a socket and returns a       *)
(* Result, and createSession wraps the transport; whatever throws becomes *)
(* Failure 0xFF. A Result is a variant of monostate, value and error.     *)
(***************************************************************************)
EXTENDS SessionManager, SequencesExt

CONSTANTS
    MaxStarts,     \* bound on the calls of start()
    Protocols,     \* protocol strings of the URLs given to connect
    AppFactories,  \* the application's factories, each the protocols it supports
    MaxFactories,  \* bound on registerFactory calls
    MaxConnects    \* bound on connect calls

ASSUME MaxStarts \in Nat \ {0}
ASSUME AppFactories \subseteq SUBSET Protocols

VARIABLES
    svc,         \* MessagingService::m_state
    iopc,        \* the reactor thread: "none", "launched", "check", "run", "done"
    iocStopped,  \* io_context::stop() was called (nothing calls restart())
    mainpc,      \* the thread calling start() and stop()
    starts,      \* start() calls so far
    stopAt,      \* sessionId when the last stop() began
    registry,    \* TransportRegistry::m_factories
    conn,        \* the connect() in progress on the application's thread
    connects     \* connect calls so far

svcVars == <<svc, iopc, iocStopped, mainpc, starts, stopAt>>
connVars == <<registry, conn, connects>>
vars == <<smVars, svcVars, connVars>>

ServiceStates == {"Stopped", "StartPending", "Started", "StopPending"}

TypeOKService ==
    /\ TypeOK
    /\ svc \in ServiceStates
    /\ iopc \in {"none", "launched", "check", "run", "done"}
    /\ iocStopped \in BOOLEAN
    /\ mainpc \in {"idle", "running", "terminate", "halt", "wait", "stopped", "halted"}
    /\ starts \in 0..MaxStarts
    /\ stopAt \in 0..MaxSessions
    /\ registry \in Seq(SUBSET Protocols) /\ Len(registry) <= MaxFactories
    /\ conn.pc \in {"idle", "create", "session", "returned"}
    /\ conn.fac \in 0..Len(registry)
    /\ connects \in 0..MaxConnects

(***************************************************************************)
(* Result<T, E> (include/isml/base/result.hpp): the variant m_variant of   *)
(* monostate, Value and Error. Success and Failure convert into a Result; *)
(* operator bool is holds_alternative<Value>, and error() is               *)
(* std::get<Error>, which throws bad_variant_access on another            *)
(* alternative.                                                            *)
(***************************************************************************)
ResultNone == [alt |-> "none", v |-> "none"]
Success(v) == [alt |-> "value", v |-> v]
Failure(e) == [alt |-> "error", v |-> e]
ResultBool(r) == r.alt = "value"

\* Result::error(): std::get<Error>(m_variant).
ResultError(r) == r.v

\* TcpTransportFactory::supports: protocol == "tcp".
TcpTransportFactory == {"tcp"}

Factories == {TcpTransportFactory} \cup AppFactories

\* A URL as connect() reads it: the protocol, and the port (0 when the URL
\* has none, which std::to_string turns into the service "0").
Urls == [protocol : Protocols, port : {0, 1}]

\* Mutant: the lookup returns the first factory that supports the protocol.
GetFirstFactory(reg, protocol) == SelectInSeq(reg, LAMBDA f : protocol \in f)

\* Maybe<T&>(None): m_ptr stays nullptr. A Maybe<TransportFactory&> is the
\* position in m_factories of the factory it refers to, 0 for nullptr.
MaybeNone == 0

\* Maybe<T&>::operator=(U&&): m_ptr = std::addressof(value), whatever it
\* referred to before.
MaybeRebind(m, ref) == ref

(* TransportRegistry::getFactory: the Maybe starts as none and the loop   *)
(* over m_factories rebinds it to every factory that supports the         *)
(* protocol, so the last one registered wins.                              *)
GetFactory(reg, protocol) ==
    FoldLeft(LAMBDA maybe, i : IF protocol \in reg[i] THEN MaybeRebind(maybe, i) ELSE maybe,
             MaybeNone, [i \in 1..Len(reg) |-> i])

\* Maybe<T&>::isNone: m_ptr == nullptr.
MaybeIsNone(m) == m = 0

\* Maybe<T&>::operator->: m_ptr, unchecked.
MaybeArrow(m) == m

(* What createTransport may return for the URL. TcpTransportFactory       *)
(* resolves hostname and port, which fails for an unknown host, then      *)
(* connects the socket, which is refused on port 0; an application's      *)
(* factory may succeed or fail either way.                                *)
TransportOutcomes(f, url) ==
    IF f = TcpTransportFactory /\ url.port = 0 THEN {"resolve", "refused"}
    ELSE {"ok", "resolve", "refused"}

\* createTransport's Result: Success with the transport or Failure with the
\* error_code.
CreateTransport(outcome) ==
    IF outcome = "ok" THEN Success("transport") ELSE Failure(outcome)

NoConnect == [pc |-> "idle", url |-> [protocol |-> "", port |-> 0], fac |-> 0,
              tres |-> ResultNone, sid |-> 0, res |-> ResultNone]

ServiceInit ==
    /\ Init
    /\ svc = "Stopped"
    /\ iopc = "none"
    /\ iocStopped = FALSE
    /\ mainpc = "idle"
    /\ starts = 0
    /\ stopAt = 0
    /\ registry = <<>>
    /\ conn = NoConnect
    /\ connects = 0

\* The reactor dispatches handlers.
ReactorRunning == iopc = "run" /\ ~iocStopped

(* doStart: m_state = StartPending, then std::async launches the thread, *)
(* which has not run yet. A later start() follows a completed stop().    *)
DoStart ==
    /\ mainpc \in {"idle", "stopped", "halted"}
    /\ starts < MaxStarts
    /\ svc' = "StartPending"
    /\ iopc' = "launched"
    /\ mainpc' = "running"
    /\ starts' = starts + 1
    /\ UNCHANGED <<smVars, connVars, iocStopped, stopAt>>

\* The first statement of the thread: m_state = Started.
IoSetStarted ==
    /\ iopc = "launched"
    /\ svc' = "Started"
    /\ iopc' = "check"
    /\ UNCHANGED <<smVars, connVars, iocStopped, mainpc, starts, stopAt>>

(* The loop condition: while (m_state != StopPending) run, else set      *)
(* m_state = Stopped and return.                                         *)
IoCheck ==
    /\ iopc = "check"
    /\ IF svc # "StopPending"
         THEN /\ iopc' = "run"
              /\ UNCHANGED svc
         ELSE /\ iopc' = "done"
              /\ svc' = "Stopped"
    /\ UNCHANGED <<smVars, connVars, iocStopped, mainpc, starts, stopAt>>

(* m_ioc.run() holds a work guard, so it returns only once the io_context *)
(* is stopped; on a stopped io_context it returns at once.               *)
IoRunReturns ==
    /\ iopc = "run"
    /\ iocStopped
    /\ iopc' = "check"
    /\ UNCHANGED <<smVars, connVars, svc, iocStopped, mainpc, starts, stopAt>>

\* doStop: m_state = StopPending.
StopBegin ==
    /\ mainpc = "running"
    /\ svc' = "StopPending"
    /\ mainpc' = "terminate"
    /\ stopAt' = sessionId
    /\ UNCHANGED <<smVars, connVars, iopc, iocStopped, starts>>

\* doStop: m_session_manager.terminateAll().
StopTerminateAll ==
    /\ mainpc = "terminate"
    /\ \/ \E os \in [DOMAIN sessions -> CallbackOutcomes] : TerminateAll(os)
       \/ sessions = <<>> /\ UNCHANGED smVars
    /\ mainpc' = "halt"
    /\ UNCHANGED <<connVars, svc, iopc, iocStopped, starts, stopAt>>

\* doStop: m_ioc.stop().
StopHalt ==
    /\ mainpc = "halt"
    /\ iocStopped' = TRUE
    /\ mainpc' = "wait"
    /\ UNCHANGED <<smVars, connVars, svc, iopc, starts, stopAt>>

\* Mutant: doStop returns without m_io.wait().
StopJoinNoWait ==
    /\ mainpc = "wait"
    /\ mainpc' = "stopped"
    /\ UNCHANGED <<smVars, connVars, svc, iopc, iocStopped, starts, stopAt>>

\* doStop: m_io.wait() returns once the thread has finished.
StopJoin ==
    /\ mainpc = "wait"
    /\ iopc = "done"
    /\ mainpc' = "stopped"
    /\ UNCHANGED <<smVars, connVars, svc, iopc, iocStopped, starts, stopAt>>

(* stop() on a service that is not running: never started, or stopped   *)
(* already. doStop sets StopPending, terminates every session and stops  *)
(* the io_context; m_io.wait() then throws future_error(no_state) on the *)
(* default-constructed future, which the catch swallows, or returns at   *)
(* once on the finished thread's. No thread is left to write Stopped.    *)
StopNotRunning ==
    /\ mainpc \in {"idle", "stopped", "halted"}
    /\ svc' = "StopPending"
    /\ \/ \E os \in [DOMAIN sessions -> CallbackOutcomes] : TerminateAll(os)
       \/ sessions = <<>> /\ UNCHANGED smVars
    /\ iocStopped' = TRUE
    /\ mainpc' = "halted"
    /\ UNCHANGED <<connVars, iopc, starts, stopAt>>

\* A session handler runs on the reactor thread.
ReactorHandler(id) ==
    /\ ReactorRunning
    /\ ReadHandlerError(id)
    /\ UNCHANGED <<svcVars, connVars>>

\* TransportRegistry::registerFactory: push_back, with no lock.
RegisterFactory(f) ==
    /\ Len(registry) < MaxFactories
    /\ registry' = Append(registry, f)
    /\ UNCHANGED <<smVars, svcVars, conn, connects>>

(* connect(url): getFactory(url.protocol()); with none, return            *)
(* Failure{protocol_not_supported}.                                       *)
ConnectLookup(url) ==
    /\ conn.pc = "idle" /\ connects < MaxConnects
    /\ LET maybe == GetFactory(registry, url.protocol) IN
       conn' = IF MaybeIsNone(maybe)
               THEN [NoConnect EXCEPT !.pc = "returned", !.url = url,
                                      !.res = Failure("protocol_not_supported")]
               ELSE [NoConnect EXCEPT !.pc = "create", !.url = url, !.fac = maybe]
    /\ connects' = connects + 1
    /\ UNCHANGED <<smVars, svcVars, registry>>

\* Mutant: createSession(std::move(transport_res.value())) without the check.
ConnectCreateTransportNoCheck(outcome) ==
    /\ conn.pc = "create"
    /\ outcome \in TransportOutcomes(registry[MaybeArrow(conn.fac)], conn.url)
    /\ LET tres == CreateTransport(outcome) IN
       conn' = IF ResultBool(tres) THEN [conn EXCEPT !.pc = "session", !.tres = tres]
               ELSE [conn EXCEPT !.pc = "returned", !.tres = tres,
                                 !.res = Failure("internal")]
    /\ UNCHANGED <<smVars, svcVars, registry, connects>>

(* maybe_factory->createTransport(url); if (!transport_res) return         *)
(* Failure{transport_res.error()}.                                        *)
ConnectCreateTransport(outcome) ==
    /\ conn.pc = "create"
    /\ outcome \in TransportOutcomes(registry[MaybeArrow(conn.fac)], conn.url)
    /\ LET tres == CreateTransport(outcome) IN
       conn' = IF ResultBool(tres) THEN [conn EXCEPT !.pc = "session", !.tres = tres]
               ELSE [conn EXCEPT !.pc = "returned", !.tres = tres,
                                 !.res = Failure(ResultError(tres))]
    /\ UNCHANGED <<smVars, svcVars, registry, connects>>

(* m_session_manager.createSession(std::move(transport_res.value())), then *)
(* Success{session}; an exception out of createSession (onSessionOpened    *)
(* threw) is caught by catch (...): Failure{0xFF}.                         *)
ConnectCreateSession(outcome) ==
    /\ conn.pc = "session"
    /\ CreateSession(outcome)
    /\ conn' = [conn EXCEPT !.pc = "returned", !.sid = sessionId',
                             !.res = IF outcome = "return" THEN Success(sessionId')
                                     ELSE Failure("internal")]
    /\ UNCHANGED <<svcVars, registry, connects>>

\* connect() returns its Result to the application.
ConnectReturns ==
    /\ conn.pc = "returned"
    /\ conn' = NoConnect
    /\ UNCHANGED <<smVars, svcVars, registry, connects>>

ConnectStep ==
    \/ \E url \in Urls : ConnectLookup(url)
    \/ \E o \in {"ok", "resolve", "refused"} : ConnectCreateTransport(o)
    \/ \E o \in CallbackOutcomes : ConnectCreateSession(o)
    \/ ConnectReturns

IoStep == IoSetStarted \/ IoCheck \/ IoRunReturns
StopStep == StopTerminateAll \/ StopHalt \/ StopJoin

ServiceNext ==
    \/ SMSessionNext /\ UNCHANGED <<svcVars, connVars>>
    \/ \E f \in Factories : RegisterFactory(f)
    \/ ConnectStep
    \/ \E id \in Ids : ReactorHandler(id)
    \/ DoStart \/ StopBegin \/ StopNotRunning
    \/ IoStep \/ StopStep

(* The reactor thread and a stop() in progress are scheduled by the OS;  *)
(* the reactor runs every handler whose read was aborted. Calls of       *)
(* start(), stop() and the application's steps are not assumed.          *)
ServiceFairness ==
    /\ WF_vars(IoStep)
    /\ WF_vars(StopStep)
    /\ \A id \in Ids : WF_vars(~socketOpen[id] /\ ReactorHandler(id))

ServiceSpec == ServiceInit /\ [][ServiceNext]_vars /\ ServiceFairness

---------------------------------------------------------------------------
(* Properties *)

(* The unit test RunService asserts service.stopped() once stop() of a  *)
(* running service returns (start, then stop):                          *)
(* m_io.wait() joins the thread whose last act is m_state = Stopped.     *)
StoppedAfterStopReturns == mainpc = "stopped" => svc = "Stopped"

(* Spec 4.6: stop sets StopPending, halts the reactor and joins the      *)
(* thread; stop() returns. If it runs before the new thread's first      *)
(* statement, the thread overwrites StopPending with Started and spins   *)
(* on a stopped io_context, so m_io.wait() never returns.                *)
StopReturns == (mainpc = "wait") ~> (mainpc = "stopped")

(* While the service is Started and no stop() is in progress, its       *)
(* reactor dispatches handlers. After a stop(), a start() runs an        *)
(* io_context that was stopped and never restart()ed: run() returns at   *)
(* once, the thread spins and no handler ever runs.                      *)
ReactorServesWhileStarted ==
    (svc = "Started" /\ mainpc = "running")
        ~> (ReactorRunning \/ mainpc # "running")

(* Spec 4.6 and 7: connect() returns the session it created or an error  *)
(* that names the step that failed: protocol_not_supported when the       *)
(* registry had no factory for the protocol, the transport's own error    *)
(* when createTransport failed, 0xFF only when createSession threw; never *)
(* an empty Result.                                                        *)
ConnectResultNamesCause ==
    conn.pc = "returned" =>
        CASE MaybeIsNone(conn.fac) -> conn.res = Failure("protocol_not_supported")
          [] ~ResultBool(conn.tres) -> conn.res = Failure(conn.tres.v)
          [] conn.sid \in failed -> conn.res = Failure("internal")
          [] OTHER -> conn.res = Success(conn.sid) /\ conn.sid \in Created

(* Spec 4.6: stop terminates all sessions before it halts the reactor    *)
(* and joins its thread; when stop() returns the manager holds none.      *)
(* connect() does not look at the service's state, so a createSession     *)
(* that runs after doStop's terminateAll registers a session that         *)
(* outlives stop(), its read armed on a halted io_context.               *)
NoSessionOutlivesStop ==
    [][mainpc = "wait" /\ mainpc' = "stopped" => DOMAIN sessions' = {}]_vars

(* Spec 4.6: stop terminates every session, and shutdown() makes a       *)
(* session stop being active(). Once stop() returns, no session that     *)
(* existed when it began is still active(): the reactor is halted right  *)
(* after terminateAll, before the aborted reads' handlers set            *)
(* StopPending.                                                          *)
NoActiveSessionAfterStop ==
    mainpc = "stopped" => \A id \in 1..stopAt : ~Active(id)
====
