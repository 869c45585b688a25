--------------------------- MODULE PubSubChannel ----------------------------
(***************************************************************************)
(* PubSubMessageChannel (src/message/channels/pubsub_message_channel.cpp) *)
(* composed with the sessions of SessionManager. The channel keeps a      *)
(* Session::Ptr per subscriber, so it is one more holder of a session.    *)
(* A broadcast (send or publishWithProducer) holds m_subscribers_guard    *)
(* across the whole loop and the evictions after it, while other threads *)
(* terminate sessions and the reactor runs their handlers. The loop       *)
(* visits the subscribers in the unspecified order of the unordered_map.  *)
(***************************************************************************)
EXTENDS SessionManager

VARIABLES
    subscribers,   \* m_subscribers (its keys; the values hold "channel" refs)
    bpc,           \* the broadcasting thread: "idle", "loop" or "evict"
    kind,          \* the broadcast running: "send" or "produce"
    todo,          \* subscribers the loop has not visited yet
    broken,        \* broken_subscriber_ids, with why each one was pushed
    sentTo,        \* subscribers handed the message by this broadcast
    lostSend,      \* a message was handed to a session whose socket is closed
    misEvicted,    \* an active subscriber left as SubscriberTransportHasBeenStopped
    freedCallback  \* onUnsubscribed was given a destroyed session

chVars == <<subscribers, bpc, kind, todo, broken, sentTo,
            lostSend, misEvicted, freedCallback>>
vars == <<smVars, chVars>>

TypeOKChannel ==
    /\ TypeOK
    /\ subscribers \subseteq Ids
    /\ bpc \in {"idle", "loop", "evict"}
    /\ kind \in {"send", "produce"}
    /\ todo \subseteq subscribers
    /\ broken \subseteq (Ids \X {"inactive", "threw"})
    /\ sentTo \subseteq Ids
    /\ lostSend \in BOOLEAN /\ misEvicted \in BOOLEAN
    /\ freedCallback \in BOOLEAN

ChannelInit ==
    /\ Init
    /\ subscribers = {}
    /\ bpc = "idle"
    /\ kind = "send"
    /\ todo = {}
    /\ broken = {}
    /\ sentTo = {}
    /\ lostSend = FALSE
    /\ misEvicted = FALSE
    /\ freedCallback = FALSE

\* m_subscribers_guard is free unless a broadcast is running.
LockFree == bpc = "idle"

(* internal_subscribe by a thread that holds the session's pointer: a new *)
(* id is inserted with a copy of the pointer.                             *)
Subscribe(id) ==
    /\ LockFree
    /\ "app" \in refs[id]
    /\ id \notin subscribers
    /\ subscribers' = subscribers \cup {id}
    /\ refs' = [refs EXCEPT ![id] = @ \cup {"channel"}]
    /\ UNCHANGED <<sessionId, sessions, alive, socketOpen, tstate, readArmed,
                   failed, crashed, freedAccess, bpc, kind, todo, broken,
                   sentTo, lostSend, misEvicted, freedCallback>>

(***************************************************************************)
(* helper_unsubscribe for every id of S, each present in m_subscribers:   *)
(* `const auto&& subscriber` binds to the map element, erase() destroys   *)
(* that shared_ptr (and the session, when it was the last holder), and   *)
(* onUnsubscribed is then called with the reference. `reason` is the     *)
(* ReasonForLeaving passed; evicting an active session as stopped is     *)
(* recorded.                                                              *)
(***************************************************************************)
HelperUnsubscribe(S, reason) ==
    /\ subscribers' = subscribers \ S
    /\ ReleaseSet(S, "channel")
    /\ freedCallback' = (freedCallback \/ \E id \in S : ~alive'[id])
    /\ misEvicted' = (misEvicted \/ (reason = "stopped" /\ \E id \in S : Active(id)))

\* Mutant: internal_unsubscribe does not take m_subscribers_guard.
UnsubscribeNoLock(id) ==
    /\ "app" \in refs[id]
    /\ id \in subscribers
    /\ HelperUnsubscribe({id}, "left")
    /\ UNCHANGED <<sessionId, sessions, tstate, readArmed, failed, crashed,
                   freedAccess, bpc, kind, todo, broken, sentTo, lostSend>>

\* internal_unsubscribe by a thread holding the session's pointer.
Unsubscribe(id) ==
    /\ LockFree
    /\ "app" \in refs[id]
    /\ id \in subscribers
    /\ HelperUnsubscribe({id}, "left")
    /\ UNCHANGED <<sessionId, sessions, tstate, readArmed, failed, crashed,
                   freedAccess, bpc, kind, todo, broken, sentTo,
                   lostSend>>

\* internal_send or publishWithProducer takes the lock and starts the loop.
BroadcastBegin(k) ==
    /\ LockFree
    /\ bpc' = "loop"
    /\ kind' = k
    /\ todo' = subscribers
    /\ broken' = {}
    /\ sentTo' = {}
    /\ UNCHANGED <<smVars, subscribers, lostSend, misEvicted,
                   freedCallback>>

\* Mutant: the loop tests !subscriber->active() before sending.
BroadcastVisitInverted(id, outcome) ==
    /\ bpc = "loop"
    /\ id \in todo
    /\ todo' = todo \ {id}
    /\ IF Active(id)
         THEN /\ broken' = broken \cup {<<id, "inactive">>}
              /\ UNCHANGED <<sentTo, lostSend>>
         ELSE /\ sentTo' = sentTo \cup {id}
              /\ lostSend' = (lostSend \/ ~socketOpen[id])
              /\ UNCHANGED broken
    /\ UNCHANGED <<smVars, subscribers, bpc, kind, misEvicted, freedCallback>>

(***************************************************************************)
(* One iteration of the loop. An active subscriber is sent msg->clone()   *)
(* or producer(subscriber); Session::send only queues the message on the  *)
(* transport (TcpTransport::doSend does not throw), so a closed socket    *)
(* loses it. A producer that throws, like an inactive subscriber, puts   *)
(* the id on broken_subscriber_ids.                                       *)
(***************************************************************************)
BroadcastVisit(id, outcome) ==
    /\ bpc = "loop"
    /\ id \in todo
    /\ todo' = todo \ {id}
    /\ IF ~Active(id)
         THEN /\ broken' = broken \cup {<<id, "inactive">>}
              /\ UNCHANGED <<sentTo, lostSend>>
       ELSE IF kind = "produce" /\ outcome = "throw"
         THEN /\ broken' = broken \cup {<<id, "threw">>}
              /\ UNCHANGED <<sentTo, lostSend>>
       ELSE /\ sentTo' = sentTo \cup {id}
            /\ lostSend' = (lostSend \/ ~socketOpen[id])
            /\ UNCHANGED broken
    /\ UNCHANGED <<smVars, subscribers, bpc, kind, misEvicted,
                   freedCallback>>

BroadcastEndLoop ==
    /\ bpc = "loop"
    /\ todo = {}
    /\ bpc' = "evict"
    /\ UNCHANGED <<smVars, subscribers, kind, todo, broken, sentTo, lostSend, misEvicted, freedCallback>>

\* The eviction loop, then the lock is released.
BroadcastEvict ==
    /\ bpc = "evict"
    /\ HelperUnsubscribe({b[1] : b \in broken}, "stopped")
    /\ bpc' = "idle"
    /\ UNCHANGED <<sessionId, sessions, tstate, readArmed, failed, crashed,
                   freedAccess, kind, todo, broken, sentTo, lostSend>>

ChannelNext ==
    \/ SMNext /\ UNCHANGED chVars
    \/ \E id \in Ids : Subscribe(id) \/ Unsubscribe(id)
    \/ \E k \in {"send", "produce"} : BroadcastBegin(k)
    \/ \E id \in Ids, o \in CallbackOutcomes : BroadcastVisit(id, o)
    \/ BroadcastEndLoop
    \/ BroadcastEvict

\* The reactor runs the aborted read's handler of every closed socket, as
\* in SessionManager; the channel's lock does not hold it back.
ChannelFairness ==
    \A id \in Ids : WF_vars(~socketOpen[id] /\ ReadHandlerError(id) /\ UNCHANGED chVars)

ChannelSpec == ChannelInit /\ [][ChannelNext]_vars /\ ChannelFairness

---------------------------------------------------------------------------
(* Properties *)

(* Spec: a broadcast reaches every active subscriber. When the loop ends, *)
(* each subscriber still active (and so active throughout, since a        *)
(* transport never returns to Started) was handed the message, unless   *)
(* the producer threw for it.                                            *)
FanOutReachesActive ==
    bpc = "evict" =>
        \A id \in subscribers :
            Active(id) => id \in sentTo \/ <<id, "threw">> \in broken

(* A subscriber leaves as SubscriberTransportHasBeenStopped only when its *)
(* session is not active; publishWithProducer also evicts one whose      *)
(* producer threw.                                                        *)
EvictionReasonTruthful == ~misEvicted

(* onUnsubscribed is given a live session: helper_unsubscribe erases the *)
(* entry its reference is bound to, which destroys the session when the  *)
(* channel held the last pointer.                                         *)
UnsubscribedCallbackOnLiveSession == ~freedCallback

(* A broadcast never hands a message to a session shut down by           *)
(* terminate(): doStop closes the socket but leaves m_state Started, so  *)
(* active() is still true until the reactor runs the aborted read.       *)
NoSendToShutDownSession == ~lostSend
====
