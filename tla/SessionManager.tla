--------------------------- MODULE SessionManager ---------------------------
(***************************************************************************)
(* SessionManager (src/session/session_manager.cpp) together with the     *)
(* lifetime of the sessions it owns. A Session owns its TcpTransport; it  *)
(* is destroyed when the last std::shared_ptr to it goes away, and its    *)
(* socket is closed by the destructor. The holders modelled are the       *)
(* manager's map, the application (the pointer returned by createSession  *)
(* or find) and, in PubSubChannel, a channel.                             *)
(*                                                                         *)
(* Of the transport only what the manager relies on is kept: whether the  *)
(* socket is open, m_state, and whether an async_read is outstanding. An  *)
(* outstanding read completes on the reactor when the peer closes or the  *)
(* socket is closed (operation_aborted), and its handler writes m_state   *)
(* of the transport object it captured as `this`.                         *)
(***************************************************************************)
EXTENDS Naturals, FiniteSets, Functions, TLC

CONSTANTS
    MaxSessions,      \* bound on SessionFactory::generateId
    CallbackOutcomes  \* what a user callback may do: {"return", "throw"}

ASSUME MaxSessions \in Nat \ {0}
ASSUME CallbackOutcomes \subseteq {"return", "throw"} /\ CallbackOutcomes # {}

Ids == 1..MaxSessions

VARIABLES
    sessionId,   \* SessionFactory::m_session_id
    sessions,    \* m_sessions: id -> "ptr" | "null" (a moved-from shared_ptr)
    refs,        \* holders of the shared_ptr of every created session
    alive,       \* the Session (and its transport) has not been destroyed
    socketOpen,  \* TcpTransport::m_socket is open
    tstate,      \* TcpTransport::m_state
    readArmed,   \* an async_read of the transport is outstanding
    failed,      \* sessions whose connect() returned a Failure
    crashed,     \* a null Session::Ptr was dereferenced
    freedAccess  \* a handler ran on a destroyed transport

smVars == <<sessionId, sessions, refs, alive, socketOpen, tstate, readArmed,
            failed, crashed, freedAccess>>

Holders == {"manager", "app", "channel"}

TypeOK ==
    /\ sessionId \in 0..MaxSessions
    /\ DOMAIN sessions \subseteq 1..sessionId
    /\ \A id \in DOMAIN sessions : sessions[id] \in {"ptr", "null"}
    /\ refs \in [Ids -> SUBSET Holders]
    /\ alive \in [Ids -> BOOLEAN]
    /\ socketOpen \in [Ids -> BOOLEAN]
    /\ tstate \in [Ids -> {"Stopped", "Started", "StopPending"}]
    /\ readArmed \in [Ids -> BOOLEAN]
    /\ failed \subseteq Ids
    /\ crashed \in BOOLEAN /\ freedAccess \in BOOLEAN

Created == 1..sessionId

\* Session::active()
Active(id) == tstate[id] \in {"StartPending", "Started"}

(* Dropping holder h of every session in S. Where it was the last one   *)
(* the Session destructor runs at once and ~TcpTransport closes the      *)
(* socket, which aborts the outstanding read: its handler is still       *)
(* queued on the reactor.                                                *)
ReleaseSet(S, h) ==
    LET gone == {id \in S : refs[id] \ {h} = {}} IN
    /\ refs' = [id \in Ids |-> IF id \in S THEN refs[id] \ {h} ELSE refs[id]]
    /\ alive' = [id \in Ids |-> alive[id] /\ id \notin gone]
    /\ socketOpen' = [id \in Ids |-> socketOpen[id] /\ id \notin gone]

Init ==
    /\ sessionId = 0
    /\ sessions = <<>>
    /\ refs = [id \in Ids |-> {}]
    /\ alive = [id \in Ids |-> FALSE]
    /\ socketOpen = [id \in Ids |-> FALSE]
    /\ tstate = [id \in Ids |-> "Stopped"]
    /\ readArmed = [id \in Ids |-> FALSE]
    /\ failed = {}
    /\ crashed = FALSE
    /\ freedAccess = FALSE

\* SessionFactory::generateId: ++m_session_id.
GenerateId == sessionId + 1

(* The Session constructor: setOwner, then m_transport->start(), whose   *)
(* doStart sets Started and arms the read of a message length on the     *)
(* connected socket.                                                      *)
NewSession(id) ==
    /\ alive' = [alive EXCEPT ![id] = TRUE]
    /\ socketOpen' = [socketOpen EXCEPT ![id] = TRUE]
    /\ tstate' = [tstate EXCEPT ![id] = "Started"]
    /\ readArmed' = [readArmed EXCEPT ![id] = TRUE]

\* Mutant: generateId returns m_session_id++ (the old value), so the first id is 0.
CreateSessionPostIncrement(outcome) ==
    /\ sessionId < MaxSessions
    /\ LET id == sessionId IN
       /\ sessionId' = sessionId + 1
       /\ sessions' = sessions @@ (id :> "ptr")
       /\ NewSession(id)
       /\ refs' = [refs EXCEPT ![id] = IF outcome = "throw" THEN {"manager"}
                                       ELSE {"manager", "app"}]
       /\ failed' = IF outcome = "throw" THEN failed \cup {id} ELSE failed
    /\ UNCHANGED <<crashed, freedAccess>>

(***************************************************************************)
(* createSession, reached from MessagingService::connect: under the lock  *)
(* a new id is generated, the Session constructor starts the transport   *)
(* (Started, read loop armed), the session is inserted and               *)
(* onSessionOpened runs. If it throws, the exception leaves createSession *)
(* with the session inserted; connect catches it and returns a Failure,  *)
(* dropping the pointer it was never given.                              *)
(***************************************************************************)
CreateSession(outcome) ==
    /\ sessionId < MaxSessions
    /\ LET id == GenerateId IN
       /\ sessionId' = id
       /\ sessions' = sessions @@ (id :> "ptr")
       /\ NewSession(id)
       /\ refs' = [refs EXCEPT ![id] = IF outcome = "throw" THEN {"manager"}
                                       ELSE {"manager", "app"}]
       /\ failed' = IF outcome = "throw" THEN failed \cup {id} ELSE failed
    /\ UNCHANGED <<crashed, freedAccess>>

(***************************************************************************)
(* terminateSessionNoLock on an id present in the map. The shared_ptr is  *)
(* moved out of the entry first. A null entry is dereferenced by          *)
(* session->shutdown(). If onSessionTerminating throws, the catch leaves *)
(* the moved-from (null) entry in the map and the local pointer is       *)
(* dropped. Otherwise shutdown() closes the socket (doStop leaves m_state *)
(* alone), the entry is erased and onSessionTerminated runs; whatever it *)
(* does, the local pointer is dropped at the end of the block.           *)
(***************************************************************************)
TerminateOne(id, outcome, s) ==
    IF s[id] = "null"
      THEN [s EXCEPT ![id] = "crash"]
    ELSE IF outcome = "throw"
      THEN [s EXCEPT ![id] = "null"]
    ELSE [s EXCEPT ![id] = "erased"]

\* Mutant: terminateSessionNoLock erases the entry without session->shutdown().
ApplyTerminationsNoShutdown(result) ==
    LET done   == {id \in DOMAIN result : result[id] \in {"null", "erased"}
                                          /\ sessions[id] = "ptr"}
        left(id) == refs[id] \ {"manager"}
    IN /\ refs' = [id \in Ids |-> IF id \in done THEN left(id) ELSE refs[id]]
       /\ alive' = [id \in Ids |-> alive[id] /\ ~(id \in done /\ left(id) = {})]
       /\ socketOpen' = [id \in Ids |-> socketOpen[id]
                                        /\ ~(id \in done /\ left(id) = {})]
       /\ sessions' = [id \in {i \in DOMAIN result : result[i] # "erased"} |->
                         IF result[id] = "crash" THEN "null" ELSE result[id]]
       /\ crashed' = (crashed \/ \E id \in DOMAIN result : result[id] = "crash")

\* The effect of a set of terminations on everything but the map.
ApplyTerminations(result) ==
    LET done   == {id \in DOMAIN result : result[id] \in {"null", "erased"}
                                          /\ sessions[id] = "ptr"}
        closed == {id \in DOMAIN result : result[id] = "erased"
                                          /\ sessions[id] = "ptr"}
        left(id) == refs[id] \ {"manager"}
    IN /\ refs' = [id \in Ids |-> IF id \in done THEN left(id) ELSE refs[id]]
       /\ alive' = [id \in Ids |-> alive[id] /\ ~(id \in done /\ left(id) = {})]
       /\ socketOpen' = [id \in Ids |-> socketOpen[id] /\ id \notin closed
                                        /\ ~(id \in done /\ left(id) = {})]
       /\ sessions' = [id \in {i \in DOMAIN result : result[i] # "erased"} |->
                         IF result[id] = "crash" THEN "null" ELSE result[id]]
       /\ crashed' = (crashed \/ \E id \in DOMAIN result : result[id] = "crash")

\* SessionManager::terminate(id)
Terminate(id, outcome) ==
    /\ id \in DOMAIN sessions
    /\ ApplyTerminations(TerminateOne(id, outcome, sessions))
    /\ UNCHANGED <<sessionId, tstate, readArmed, failed, freedAccess>>

(* SessionManager::terminateAll: collects session->id() of every entry   *)
(* (a null entry is dereferenced there), then terminates each id.        *)
TerminateAll(outcomes) ==
    /\ sessions # <<>>
    /\ IF \E id \in DOMAIN sessions : sessions[id] = "null"
         THEN /\ crashed' = TRUE
              /\ UNCHANGED <<sessions, refs, alive, socketOpen>>
         ELSE ApplyTerminations([id \in DOMAIN sessions |->
                                   IF outcomes[id] = "throw" THEN "null"
                                   ELSE "erased"])
    /\ UNCHANGED <<sessionId, tstate, readArmed, failed, freedAccess>>

(* findSessionByProperty: find_if over the unordered map calls the       *)
(* predicate, which reads session->properties, on entries in an          *)
(* unspecified order until one matches. The match is handed to the       *)
(* application; a null entry visited first is dereferenced.              *)
FindSessionByProperty(id) ==
    /\ id \in DOMAIN sessions
    /\ IF sessions[id] = "null"
         THEN /\ crashed' = TRUE
              /\ UNCHANGED refs
         ELSE /\ refs' = [refs EXCEPT ![id] = @ \cup {"app"}]
              /\ UNCHANGED crashed
    /\ UNCHANGED <<sessionId, sessions, alive, socketOpen, tstate, readArmed,
                   failed, freedAccess>>

\* The application drops its Session::Ptr.
AppRelease(id) ==
    /\ "app" \in refs[id]
    /\ ReleaseSet({id}, "app")
    /\ UNCHANGED <<sessionId, sessions, tstate, readArmed, failed, crashed,
                   freedAccess>>

(* The reactor runs the completion handler of the outstanding read: the *)
(* peer closed the connection (eof) while the socket is open, or the    *)
(* socket was closed (operation_aborted). Either way the handler sets   *)
(* m_state = StopPending through the captured `this`.                   *)
ReadHandlerError(id) ==
    /\ readArmed[id]
    /\ readArmed' = [readArmed EXCEPT ![id] = FALSE]
    /\ tstate' = [tstate EXCEPT ![id] = "StopPending"]
    /\ freedAccess' = (freedAccess \/ ~alive[id])
    /\ UNCHANGED <<sessionId, sessions, refs, alive, socketOpen, failed, crashed>>

\* The steps of application threads on sessions that exist.
SMSessionNext ==
    \/ \E id \in Ids, o \in CallbackOutcomes : Terminate(id, o)
    \/ \E os \in [DOMAIN sessions -> CallbackOutcomes] : TerminateAll(os)
    \/ \E id \in Ids : FindSessionByProperty(id) \/ AppRelease(id)

SMAppNext == (\E o \in CallbackOutcomes : CreateSession(o)) \/ SMSessionNext

SMNext == SMAppNext \/ \E id \in Ids : ReadHandlerError(id)

(* The reactor keeps running the handlers of aborted reads. Closing by  *)
(* the peer is not assumed; an aborted read is enabled only once the    *)
(* socket is closed, and then completes.                                *)
SMFairness == \A id \in Ids : WF_smVars(~socketOpen[id] /\ ReadHandlerError(id))

Spec == Init /\ [][SMNext]_smVars /\ SMFairness

---------------------------------------------------------------------------
(* Properties *)

(* Spec 4.4: terminateAll must tolerate a failing session shutdown and   *)
(* callback exceptions are swallowed. A throwing onSessionTerminating    *)
(* leaves a moved-from null pointer in m_sessions, and a later           *)
(* terminate, terminateAll or findSessionByProperty dereferences it.     *)
NoNullSessionDereference == ~crashed

(* A completion handler never runs on a transport that was destroyed:    *)
(* terminate() closes the socket and drops the manager's pointer at once,*)
(* while the aborted read's handler, which captured `this`, is still     *)
(* queued on the reactor.                                               *)
NoHandlerOnFreedTransport == ~freedAccess

(* Spec 4.4 and 7: connect() returns a result or an error and callback   *)
(* exceptions are swallowed; a connect that reported a Failure leaves    *)
(* no session open in the manager.                                      *)
FailedConnectLeavesNoSession ==
    \A id \in failed : id \notin DOMAIN sessions \/ ~socketOpen[id]

(* A session that terminate() removed from the manager stops being       *)
(* active(), so that a channel evicts it, as long as the reactor runs:  *)
(* shutdown() only closes the socket, and m_state changes when the      *)
(* aborted read's handler runs.                                          *)
TerminatedSessionBecomesInactive ==
    \A id \in Ids :
        (id \in Created /\ id \notin DOMAIN sessions) ~> ~Active(id)
====
