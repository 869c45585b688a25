------------------------- MODULE SignalInterceptor -------------------------
(***************************************************************************)
(* SignalInterceptor (src/sys/signal_interceptor.cpp,                     *)
(* include/isml/sys/signal_interceptor.hpp): a boost::asio::signal_set    *)
(* and an unordered_map from signal to the application's handler.         *)
(*                                                                         *)
(* addHandler adds the signal to the set and then stores the handler;     *)
(* run() starts one async_wait whose completion handler looks the signal  *)
(* up and calls the handler, swallowing what it throws; cancel() cancels  *)
(* the set's pending waits. The completion runs on whichever thread runs  *)
(* the io_context (the reactor).                                          *)
(*                                                                         *)
(* signal_set, as boost documents it: a signal of the set raised while no *)
(* wait is pending is queued (a count per signal) and the next async_wait *)
(* takes the lowest-numbered queued one at once; otherwise it completes   *)
(* one pending wait. cancel() completes every pending wait with           *)
(* operation_aborted and keeps the set. Signals outside the set keep     *)
(* their default disposition and are not this object's concern.          *)
(***************************************************************************)
EXTENDS Naturals, Sequences

CONSTANTS
    Signals,    \* signal numbers the application intercepts
    MaxRaises,  \* bound on the signals the OS raises
    MaxRuns     \* bound on the run() calls

ASSUME Signals \subseteq Nat /\ MaxRaises \in Nat /\ MaxRuns \in Nat

VARIABLES
    inSet,        \* the signals added to m_signal_set
    handlers,     \* the keys of m_signal_handlers
    adding,       \* the signal of an addHandler between add() and the map write, or 0
    undelivered,  \* notifications the signal_set queued for each signal
    waits,        \* pending async_wait operations
    posted,       \* completed waits whose handler the io_context has yet to run
    raises,       \* signals raised so far
    runs,         \* run() calls so far
    intercepting, \* run() has been called and cancel() has not since
    owed          \* signals raised while intercepting and not handled since

vars == <<inSet, handlers, adding, undelivered, waits, posted, raises, runs,
          intercepting, owed>>

\* A completion: the error_code and the signal number (0 when aborted).
Completions == [ec : {"ok", "aborted"}, sig : Signals \cup {0}]

TypeOK ==
    /\ inSet \subseteq Signals /\ handlers \subseteq Signals
    /\ adding \in Signals \cup {0}
    /\ undelivered \in [Signals -> 0..MaxRaises]
    /\ waits \in 0..MaxRuns
    /\ posted \in Seq(Completions)
    /\ raises \in 0..MaxRaises /\ runs \in 0..MaxRuns
    /\ intercepting \in BOOLEAN /\ owed \subseteq Signals

\* The constructor: an empty map and a signal_set on the io_context.
Init ==
    /\ inSet = {} /\ handlers = {} /\ adding = 0
    /\ undelivered = [s \in Signals |-> 0]
    /\ waits = 0 /\ posted = <<>>
    /\ raises = 0 /\ runs = 0
    /\ intercepting = FALSE /\ owed = {}

\* addHandler: m_signal_set.add(signal); adding a signal twice is allowed.
AddToSet(s) ==
    /\ adding = 0
    /\ inSet' = inSet \cup {s}
    /\ adding' = s
    /\ UNCHANGED <<handlers, undelivered, waits, posted, raises, runs, intercepting, owed>>

\* addHandler: m_signal_handlers[signal] = std::move(handler).
StoreHandler ==
    /\ adding # 0
    /\ handlers' = handlers \cup {adding}
    /\ adding' = 0
    /\ UNCHANGED <<inSet, undelivered, waits, posted, raises, runs, intercepting, owed>>

\* The lowest-numbered signal with a queued notification.
Queued == {s \in Signals : undelivered[s] > 0}
Lowest(S) == CHOOSE s \in S : \A x \in S : s <= x

(* run(): m_signal_set.async_wait(handler). A queued notification        *)
(* completes the wait at once; otherwise it waits.                       *)
Run ==
    /\ runs < MaxRuns
    /\ IF Queued # {}
       THEN LET s == Lowest(Queued) IN
            /\ undelivered' = [undelivered EXCEPT ![s] = @ - 1]
            /\ posted' = Append(posted, [ec |-> "ok", sig |-> s])
            /\ UNCHANGED waits
       ELSE /\ waits' = waits + 1
            /\ UNCHANGED <<undelivered, posted>>
    /\ runs' = runs + 1
    /\ intercepting' = TRUE
    /\ UNCHANGED <<inSet, handlers, adding, raises, owed>>

(* The OS raises a signal of the set: it completes a pending wait, or is *)
(* queued for the next one.                                               *)
Raise(s) ==
    /\ s \in inSet /\ raises < MaxRaises
    /\ IF waits > 0
       THEN /\ waits' = waits - 1
            /\ posted' = Append(posted, [ec |-> "ok", sig |-> s])
            /\ UNCHANGED undelivered
       ELSE /\ undelivered' = [undelivered EXCEPT ![s] = @ + 1]
            /\ UNCHANGED <<waits, posted>>
    /\ raises' = raises + 1
    /\ owed' = IF intercepting /\ s \in handlers THEN owed \cup {s} ELSE owed
    /\ UNCHANGED <<inSet, handlers, adding, runs, intercepting>>

\* cancel(): every pending wait completes with operation_aborted.
Cancel ==
    /\ posted' = posted \o [i \in 1..waits |-> [ec |-> "aborted", sig |-> 0]]
    /\ waits' = 0
    /\ intercepting' = FALSE
    /\ owed' = {}
    /\ UNCHANGED <<inSet, handlers, adding, undelivered, raises, runs>>

(* The io_context runs the completion handler: with no error and a       *)
(* handler in the map it is invoked (an exception is swallowed); the     *)
(* wait is not started again.                                             *)
Complete ==
    /\ posted # <<>>
    /\ LET c == Head(posted) IN
       owed' = IF c.ec = "ok" /\ c.sig \in handlers THEN owed \ {c.sig} ELSE owed
    /\ posted' = Tail(posted)
    /\ UNCHANGED <<inSet, handlers, adding, undelivered, waits, raises, runs, intercepting>>

Next ==
    \/ \E s \in Signals : AddToSet(s) \/ Raise(s)
    \/ StoreHandler \/ Run \/ Cancel \/ Complete

(* addHandler runs to its end on the caller's thread, and the reactor    *)
(* runs the handlers posted to it; the application's calls and the OS's  *)
(* signals are not assumed.                                              *)
Spec == Init /\ [][Next]_vars /\ WF_vars(StoreHandler) /\ WF_vars(Complete)
-----------------------------------------------------------------------------
(* The class "intercepts OS signals and processes them with user-defined *)
(* handlers" from run() until cancel(): a signal with a handler, raised  *)
(* while intercepting, is eventually passed to it. run()'s async_wait is *)
(* started once and its handler does not start another.                  *)
SignalEventuallyHandled ==
    \A s \in Signals : s \in owed ~> s \notin owed
=============================================================================
