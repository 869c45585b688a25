---------------------------- MODULE TcpTransport ----------------------------
(***************************************************************************)
(* The framed TCP transport of ISML (src/transport/tcp_transport.cpp):    *)
(* one TcpTransport object driven by application threads (Session::send, *)
(* Session::request, Session::receive, Session::shutdown), by the single  *)
(* reactor thread that runs the asio completion handlers, and by whoever  *)
(* calls removeExpiredRequests.                                           *)
(*                                                                         *)
(* Data is abstracted: an outgoing message is a model value of Msgs (its  *)
(* MessageId), an inbound frame is a record saying whether its type is    *)
(* registered and whether it carries a srcMsgId field, and of which type. *)
(* Control is kept: every lock acquisition of ConcurrentMessageQueue is   *)
(* its own step, so doSend's size() check, push() and writeMessage's      *)
(* pull() can interleave with other threads exactly as in the code.       *)
(***************************************************************************)
EXTENDS Naturals, Sequences, SequencesExt, FiniteSets, Functions

CONSTANTS
    Threads,      \* application threads calling into the session
    Msgs,         \* MessageIds of the messages the application sends
    Reactor,      \* the thread running io_context::run (handlers)
    None,         \* no owner / no message
    MaxInbound    \* bound on frames the peer sends

ASSUME Reactor \notin Threads /\ None \notin Threads \cup Msgs \cup {Reactor}
ASSUME MaxInbound \in Nat

Actors == Threads \cup {Reactor}

\* Service::State
States == {"StartPending", "Started", "StopPending", "Stopped"}

(* Inbound frames after the length prefix: "unknown" = MessageType with  *)
(* no descriptor; "plain" = no srcMsgId field; "reply" = srcMsgId of type *)
(* MessageId; "badreply" = a field named srcMsgId of another type.        *)
Frames == [kind : {"unknown", "plain"}, src : {None}]
          \cup [kind : {"reply", "badreply"}, src : Msgs]

VARIABLES
    state,             \* m_state
    socketOpen,        \* m_socket not yet closed by doStop
    readArmed,         \* an async_read of the read loop is outstanding
    outgoing,          \* m_outgoing_messages
    inflight,          \* messages whose async_write has not completed
    wire,              \* messages the peer has received, in order
    incoming,          \* m_incoming_messages
    pendingRequests,   \* DOMAIN m_pending_requests
    pendingRequestsTs, \* m_pending_requests_ts: id -> "fresh" | "old"
    pendingMtx,        \* owner of m_pending_requests_mtx
    promise,           \* state of the promise created by doRequest
    pc,                \* program counter of every actor
    held,              \* the message an actor is sending / has pulled
    inProgress,        \* doSend's local in_progress
    inRequest,         \* the thread's doSend runs inside doRequest
    used,              \* messages already handed to send/request
    inboundCount,      \* frames read so far (bounded by MaxInbound)
    received,          \* what each thread's last receive() returned
    dropped            \* decoded messages discarded by onMessageRead

vars == <<state, socketOpen, readArmed, outgoing, inflight, wire, incoming,
          pendingRequests, pendingRequestsTs, pendingMtx, promise, pc, held,
          inProgress, inRequest, used, inboundCount, received, dropped>>

PromiseStates == {"none", "waiting", "value", "expired"}

TypeOK ==
    /\ state \in States
    /\ socketOpen \in BOOLEAN /\ readArmed \in BOOLEAN
    /\ outgoing \in Seq(Msgs)
    /\ inflight \subseteq Msgs
    /\ wire \in Seq(Msgs)
    /\ incoming \in Seq(Frames)
    /\ pendingRequests \subseteq Msgs
    /\ DOMAIN pendingRequestsTs \subseteq Msgs
    /\ \A id \in DOMAIN pendingRequestsTs : pendingRequestsTs[id] \in {"fresh", "old"}
    /\ pendingMtx \in Actors \cup {None}
    /\ promise \in [Msgs -> PromiseStates]
    /\ pc \in [Actors -> {"idle", "push", "pull", "write", "unlock", "rpull"}]
    /\ held \in [Actors -> Msgs \cup {None}]
    /\ inProgress \in [Threads -> BOOLEAN]
    /\ inRequest \in [Threads -> BOOLEAN]
    /\ used \subseteq Msgs
    /\ inboundCount \in 0..MaxInbound
    /\ received \in [Threads -> {"none", "message", "null"}]
    /\ dropped \in 0..MaxInbound

(***************************************************************************)
(* Session::Session calls start(): doStart sets Started and arms the read *)
(* loop (readMessageLength).                                              *)
(***************************************************************************)
Init ==
    /\ state = "Started"
    /\ socketOpen = TRUE
    /\ readArmed = TRUE
    /\ outgoing = <<>>
    /\ inflight = {}
    /\ wire = <<>>
    /\ incoming = <<>>
    /\ pendingRequests = {}
    /\ pendingRequestsTs = <<>>
    /\ pendingMtx = None
    /\ promise = [m \in Msgs |-> "none"]
    /\ pc = [a \in Actors |-> "idle"]
    /\ held = [a \in Actors |-> None]
    /\ inProgress = [t \in Threads |-> FALSE]
    /\ inRequest = [t \in Threads |-> FALSE]
    /\ used = {}
    /\ inboundCount = 0
    /\ received = [t \in Threads |-> "none"]
    /\ dropped = 0

\* Where a thread continues once its doSend has returned.
AfterSend(t) == IF inRequest[t] THEN "unlock" ELSE "idle"

Return(a) == IF a = Reactor THEN "idle" ELSE AfterSend(a)

(* The ConcurrentMessageQueues m_outgoing_messages and m_incoming_messages:*)
(* each operation is one step under m_queue_guard.                        *)

\* MessageQueue::internal_push: m_queue.push(msg).
QueuePush(q, m) == Append(q, m)

\* MessageQueue::internal_size: m_queue.size().
QueueSize(q) == Len(q)

\* MessageQueue::internal_pull: the front, moved out and popped, or nullptr
\* (None) when the queue is empty.
QueuePull(q) ==
    IF q = <<>> THEN [msg |-> None, rest |-> q] ELSE [msg |-> Head(q), rest |-> Tail(q)]

---------------------------------------------------------------------------
(* Application threads *)

\* doSend: const auto in_progress = m_outgoing_messages.size() > 0;
DoSend(t, m) ==
    /\ pc[t] = "idle"
    /\ m \notin used
    /\ used' = used \cup {m}
    /\ held' = [held EXCEPT ![t] = m]
    /\ inProgress' = [inProgress EXCEPT ![t] = QueueSize(outgoing) > 0]
    /\ inRequest' = [inRequest EXCEPT ![t] = FALSE]
    /\ pc' = [pc EXCEPT ![t] = "push"]
    /\ UNCHANGED <<state, socketOpen, readArmed, outgoing, inflight, wire,
                   incoming, pendingRequests, pendingRequestsTs, pendingMtx,
                   promise, inboundCount, received, dropped>>

\* doSend: m_outgoing_messages.push(msg); if (!in_progress) writeMessage();
DoSendPush(t) ==
    /\ pc[t] = "push"
    /\ outgoing' = QueuePush(outgoing, held[t])
    /\ held' = [held EXCEPT ![t] = None]
    /\ pc' = [pc EXCEPT ![t] = IF inProgress[t] THEN AfterSend(t) ELSE "pull"]
    /\ UNCHANGED <<state, socketOpen, readArmed, inflight, wire, incoming,
                   pendingRequests, pendingRequestsTs, pendingMtx, promise,
                   inProgress, inRequest, used, inboundCount, received, dropped>>

(* doRequest: lock m_pending_requests_mtx, insert the promise and the     *)
(* timestamp, then send(msg) -- whose first step is the size() check --   *)
(* while still holding the lock.                                          *)
DoRequest(t, m) ==
    /\ pc[t] = "idle"
    /\ m \notin used
    /\ pendingMtx = None
    /\ pendingMtx' = t
    /\ used' = used \cup {m}
    /\ pendingRequests' = pendingRequests \cup {m}
    /\ pendingRequestsTs' = IF m \in DOMAIN pendingRequestsTs
                              THEN pendingRequestsTs
                              ELSE pendingRequestsTs @@ (m :> "fresh")
    /\ promise' = [promise EXCEPT ![m] = "waiting"]
    /\ held' = [held EXCEPT ![t] = m]
    /\ inProgress' = [inProgress EXCEPT ![t] = QueueSize(outgoing) > 0]
    /\ inRequest' = [inRequest EXCEPT ![t] = TRUE]
    /\ pc' = [pc EXCEPT ![t] = "push"]
    /\ UNCHANGED <<state, socketOpen, readArmed, outgoing, inflight, wire,
                   incoming, inboundCount, received, dropped>>

\* doRequest returns: the lock_guard is released.
DoRequestUnlock(t) ==
    /\ pc[t] = "unlock"
    /\ pendingMtx' = None
    /\ pc' = [pc EXCEPT ![t] = "idle"]
    /\ UNCHANGED <<state, socketOpen, readArmed, outgoing, inflight, wire,
                   incoming, pendingRequests, pendingRequestsTs, promise, held,
                   inProgress, inRequest, used, inboundCount, received, dropped>>

\* doReceive: m_incoming_messages.size() > 0 ? ... : std::nullopt
DoReceive(t) ==
    /\ pc[t] = "idle"
    /\ QueueSize(incoming) > 0
    /\ pc' = [pc EXCEPT ![t] = "rpull"]
    /\ UNCHANGED <<state, socketOpen, readArmed, outgoing, inflight, wire,
                   incoming, pendingRequests, pendingRequestsTs, pendingMtx,
                   promise, held, inProgress, inRequest, used, inboundCount,
                   received, dropped>>

(* doReceive: std::make_optional(m_incoming_messages.pull()); pull()      *)
(* returns nullptr when another thread emptied the queue meanwhile.       *)
DoReceivePull(t) ==
    /\ pc[t] = "rpull"
    /\ received' = [received EXCEPT ![t] =
                      IF QueuePull(incoming).msg = None THEN "null" ELSE "message"]
    /\ incoming' = QueuePull(incoming).rest
    /\ pc' = [pc EXCEPT ![t] = "idle"]
    /\ UNCHANGED <<state, socketOpen, readArmed, outgoing, inflight, wire,
                   pendingRequests, pendingRequestsTs, pendingMtx, promise,
                   held, inProgress, inRequest, used, inboundCount, dropped>>

(* Session::shutdown -> Service::stop -> doStop: cancel() and close() the *)
(* socket. m_state is left as it is; the aborted handlers change it.     *)
DoStop ==
    /\ socketOpen
    /\ socketOpen' = FALSE
    /\ UNCHANGED <<state, readArmed, outgoing, inflight, wire, incoming,
                   pendingRequests, pendingRequestsTs, pendingMtx, promise, pc,
                   held, inProgress, inRequest, used, inboundCount, received, dropped>>

---------------------------------------------------------------------------
(* writeMessage, run by a sending thread or by the reactor *)

\* Mutant: the `if (!msg) return;` guard is missing.
WriteMessagePullNoNullCheck(a) ==
    /\ pc[a] = "pull"
    /\ held' = [held EXCEPT ![a] = IF outgoing = <<>> THEN None ELSE Head(outgoing)]
    /\ outgoing' = IF outgoing = <<>> THEN outgoing ELSE Tail(outgoing)
    /\ pc' = [pc EXCEPT ![a] = "write"]
    /\ UNCHANGED <<state, socketOpen, readArmed, inflight, wire, incoming,
                   pendingRequests, pendingRequestsTs, pendingMtx, promise,
                   inProgress, inRequest, used, inboundCount, received, dropped>>

\* auto msg = m_outgoing_messages.pull(); if (!msg) return;
WriteMessagePull(a) ==
    LET r == QueuePull(outgoing) IN
    /\ pc[a] = "pull"
    /\ outgoing' = r.rest
    /\ IF r.msg = None
         THEN /\ pc' = [pc EXCEPT ![a] = Return(a)]
              /\ UNCHANGED held
         ELSE /\ held' = [held EXCEPT ![a] = r.msg]
              /\ pc' = [pc EXCEPT ![a] = "write"]
    /\ UNCHANGED <<state, socketOpen, readArmed, inflight, wire, incoming,
                   pendingRequests, pendingRequestsTs, pendingMtx, promise,
                   inProgress, inRequest, used, inboundCount, received, dropped>>

(* Serialize into m_outgoing_data_buffer and start async_write. Nothing   *)
(* checks whether another async_write is still running.                  *)
WriteMessageStart(a) ==
    /\ pc[a] = "write"
    /\ inflight' = inflight \cup {held[a]}
    /\ held' = [held EXCEPT ![a] = None]
    /\ pc' = [pc EXCEPT ![a] = Return(a)]
    /\ UNCHANGED <<state, socketOpen, readArmed, outgoing, wire, incoming,
                   pendingRequests, pendingRequestsTs, pendingMtx, promise,
                   inProgress, inRequest, used, inboundCount, received, dropped>>

---------------------------------------------------------------------------
(* Completion handlers, run one at a time by the reactor *)

\* write handler, no error: writeMessage() for the next queued message
WriteHandler(m) ==
    /\ pc[Reactor] = "idle"
    /\ m \in inflight
    /\ socketOpen
    /\ inflight' = inflight \ {m}
    /\ wire' = Append(wire, m)
    /\ pc' = [pc EXCEPT ![Reactor] = "pull"]
    /\ UNCHANGED <<state, socketOpen, readArmed, outgoing, incoming,
                   pendingRequests, pendingRequestsTs, pendingMtx, promise,
                   held, inProgress, inRequest, used, inboundCount, received, dropped>>

(* write handler with an error: eof/connection_refused (disconnected) or *)
(* any other error, operation_aborted after doStop included: StopPending *)
(* and no further writeMessage.                                          *)
WriteHandlerError(m) ==
    /\ pc[Reactor] = "idle"
    /\ m \in inflight
    /\ inflight' = inflight \ {m}
    /\ state' = "StopPending"
    /\ UNCHANGED <<socketOpen, readArmed, outgoing, wire, incoming,
                   pendingRequests, pendingRequestsTs, pendingMtx, promise, pc,
                   held, inProgress, inRequest, used, inboundCount, received, dropped>>

(* Mutants of onMessageRead: the timestamp entry is not erased with the *)
(* promise; the srcMsgId lookup is skipped and every reply is queued.    *)
ReadHandlerKeepsTs(f) ==
    /\ pc[Reactor] = "idle"
    /\ readArmed /\ socketOpen
    /\ inboundCount < MaxInbound
    /\ f.kind \in {"reply", "badreply"} => f.src \in ToSet(wire)
    /\ f.kind = "reply" => pendingMtx = None
    /\ inboundCount' = inboundCount + 1
    /\ IF f.kind = "reply" /\ f.src \in pendingRequests
         THEN /\ promise' = [promise EXCEPT ![f.src] = "value"]
              /\ pendingRequests' = pendingRequests \ {f.src}
              /\ UNCHANGED <<incoming, pendingRequestsTs>>
         ELSE /\ incoming' = IF f.kind \in {"plain", "reply"}
                               THEN QueuePush(incoming, f) ELSE incoming
              /\ UNCHANGED <<promise, pendingRequests, pendingRequestsTs>>
    /\ dropped' = IF f.kind = "badreply" THEN dropped + 1 ELSE dropped
    /\ UNCHANGED <<state, socketOpen, readArmed, outgoing, inflight, wire,
                   pendingMtx, pc, held, inProgress, inRequest, used, received>>

ReadHandlerNoCorrelation(f) ==
    /\ pc[Reactor] = "idle"
    /\ readArmed /\ socketOpen
    /\ inboundCount < MaxInbound
    /\ f.kind \in {"reply", "badreply"} => f.src \in ToSet(wire)
    /\ inboundCount' = inboundCount + 1
    /\ incoming' = IF f.kind \in {"plain", "reply"}
                      THEN QueuePush(incoming, f) ELSE incoming
    /\ dropped' = IF f.kind = "badreply" THEN dropped + 1 ELSE dropped
    /\ UNCHANGED <<state, socketOpen, readArmed, outgoing, inflight, wire,
                   pendingMtx, pc, held, inProgress, inRequest, used, received,
                   promise, pendingRequests, pendingRequestsTs>>

(* readMessage handler, no error: onMessageRead() then readMessageLength.*)
(* A frame of unknown type is dropped; a message with a srcMsgId of the   *)
(* wrong type makes field<MessageId>() throw and the catch drops it; a    *)
(* reply takes m_pending_requests_mtx and completes the promise of a      *)
(* pending request, any other message is queued.                         *)
ReadHandler(f) ==
    /\ pc[Reactor] = "idle"
    /\ readArmed /\ socketOpen
    /\ inboundCount < MaxInbound
    /\ f.kind \in {"reply", "badreply"} => f.src \in ToSet(wire)
    /\ f.kind = "reply" => pendingMtx = None
    /\ inboundCount' = inboundCount + 1
    /\ IF f.kind = "reply" /\ f.src \in pendingRequests
         THEN /\ promise' = [promise EXCEPT ![f.src] = "value"]
              /\ pendingRequests' = pendingRequests \ {f.src}
              /\ pendingRequestsTs' = Restrict(pendingRequestsTs,
                                        DOMAIN pendingRequestsTs \ {f.src})
              /\ UNCHANGED incoming
         ELSE /\ incoming' = IF f.kind \in {"plain", "reply"}
                               THEN QueuePush(incoming, f) ELSE incoming
              /\ UNCHANGED <<promise, pendingRequests, pendingRequestsTs>>
    /\ dropped' = IF f.kind = "badreply" THEN dropped + 1 ELSE dropped
    /\ UNCHANGED <<state, socketOpen, readArmed, outgoing, inflight, wire,
                   pendingMtx, pc, held, inProgress, inRequest, used, received>>

\* read handler with an error (eof, reset, aborted): StopPending, loop ends
ReadHandlerError ==
    /\ pc[Reactor] = "idle"
    /\ readArmed
    /\ readArmed' = FALSE
    /\ state' = "StopPending"
    /\ UNCHANGED <<socketOpen, outgoing, inflight, wire, incoming,
                   pendingRequests, pendingRequestsTs, pendingMtx, promise, pc,
                   held, inProgress, inRequest, used, inboundCount, received, dropped>>

---------------------------------------------------------------------------
(* Request expiry *)

\* Time passes: a timestamp becomes older than 30 seconds.
ClockAdvance(id) ==
    /\ id \in DOMAIN pendingRequestsTs
    /\ pendingRequestsTs[id] = "fresh"
    /\ pendingRequestsTs' = [pendingRequestsTs EXCEPT ![id] = "old"]
    /\ UNCHANGED <<state, socketOpen, readArmed, outgoing, inflight, wire,
                   incoming, pendingRequests, pendingMtx, promise, pc, held,
                   inProgress, inRequest, used, inboundCount, received, dropped>>

(* removeExpiredRequests, atomic under m_pending_requests_mtx: every id   *)
(* whose timestamp is old loses it; if it is still pending its promise   *)
(* gets the "Request is expired" exception and the entry is erased.      *)
RemoveExpiredRequests ==
    /\ pendingMtx = None
    /\ LET ids == {id \in DOMAIN pendingRequestsTs : pendingRequestsTs[id] = "old"}
       IN /\ ids # {}
          /\ pendingRequestsTs' = Restrict(pendingRequestsTs,
                                           DOMAIN pendingRequestsTs \ ids)
          /\ promise' = [id \in Msgs |->
                           IF id \in ids \cap pendingRequests
                             THEN "expired" ELSE promise[id]]
          /\ pendingRequests' = pendingRequests \ ids
    /\ UNCHANGED <<state, socketOpen, readArmed, outgoing, inflight, wire,
                   incoming, pendingMtx, pc, held, inProgress, inRequest, used,
                   inboundCount, received, dropped>>

---------------------------------------------------------------------------
Next ==
    \/ \E t \in Threads, m \in Msgs : DoSend(t, m) \/ DoRequest(t, m)
    \/ \E t \in Threads : \/ DoSendPush(t) \/ DoRequestUnlock(t)
                          \/ DoReceive(t) \/ DoReceivePull(t)
    \/ \E a \in Actors : WriteMessagePull(a) \/ WriteMessageStart(a)
    \/ \E m \in Msgs : WriteHandler(m) \/ WriteHandlerError(m)
    \/ \E f \in Frames : ReadHandler(f)
    \/ ReadHandlerError
    \/ DoStop
    \/ \E id \in Msgs : ClockAdvance(id)
    \/ RemoveExpiredRequests

(***************************************************************************)
(* Fairness: a thread inside a call keeps running until it returns, the  *)
(* reactor keeps running the writeMessage it entered, and the operating  *)
(* system completes (or fails) every async_write it was given. Whether    *)
(* the application calls anything, the peer sends anything, or anybody    *)
(* calls removeExpiredRequests is left open.                             *)
(***************************************************************************)
Fairness ==
    /\ \A t \in Threads : WF_vars(DoSendPush(t) \/ DoRequestUnlock(t)
                                  \/ DoReceivePull(t))
    /\ \A a \in Actors : WF_vars(WriteMessagePull(a) \/ WriteMessageStart(a))
    /\ \A m \in Msgs : WF_vars(WriteHandler(m) \/ WriteHandlerError(m))

Spec == Init /\ [][Next]_vars /\ Fairness

---------------------------------------------------------------------------
(* Properties *)

(* Spec 3, pending requests: an id is in the pending table exactly while  *)
(* its promise is neither completed by a reply nor expired, and the       *)
(* timestamp table never holds an id the promise table has lost. Broken   *)
(* if the reactor's reply path and removeExpiredRequests disagree on what *)
(* they erase.                                                           *)
PendingTableSound ==
    /\ \A m \in Msgs : (m \in pendingRequests) <=> (promise[m] = "waiting")
    /\ DOMAIN pendingRequestsTs = pendingRequests

(* Request correlation: a reply whose request is still waiting is never  *)
(* put on the incoming queue, where it would be lost to the requester.   *)
(* This relies on doRequest inserting the promise before send() and on   *)
(* onMessageRead looking the id up under the same mutex.                 *)
NoReplyMisrouted ==
    \A i \in DOMAIN incoming :
        incoming[i].kind = "reply" => promise[incoming[i].src] # "waiting"

(* Spec 4.3 write loop: at most one async_write is in flight on the      *)
(* socket, since each writeMessage overwrites the one shared             *)
(* m_outgoing_data_buffer. doSend decides from the queue size, which is   *)
(* zero while a write of the last pulled message is still running.        *)
SingleWriteInFlight == Cardinality(inflight) <= 1

(* Every message handed to send() is eventually written to the socket,   *)
(* unless the transport failed or was stopped. doSend's size() check and *)
(* its push() are two separate critical sections.                        *)
SentEventuallyWritten ==
    \A m \in Msgs :
        (m \in ToSet(outgoing)) ~> (m \in ToSet(wire) \/ ~socketOpen
                                    \/ state # "Started")

(* Session::receive either reports "no message" or yields a message: it  *)
(* never yields an engaged optional that holds a null pointer.           *)
ReceiveNeverNull == \A t \in Threads : received[t] # "null"

(* Spec 4.3 read loop: every decoded message of a registered type either *)
(* completes a pending request or is pushed to the incoming queue; none  *)
(* is swallowed by onMessageRead's catch-all.                            *)
DecodedMessagesDelivered == dropped = 0
====
