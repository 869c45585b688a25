----------------------------- MODULE Listenable -----------------------------
(***************************************************************************)
(* Listenable<Listener> (include/isml/base/listenable.hpp), the listener  *)
(* fan-out that Transport derives from.                                    *)
(*                                                                         *)
(* m_listeners is a std::vector of shared_ptrs, with no lock. invoke()     *)
(* walks it with a range-for, whose begin and end iterators are taken once *)
(* before the first call, and calls each listener's method; the method may *)
(* throw (swallowed) and may call back addListener, removeListener or     *)
(* removeListeners on the same object. removeListener is remove_if + erase *)
(* (the later elements move down); push_back past the capacity reallocates *)
(* (libstdc++ doubles it), which invalidates the loop's iterators.         *)
(*                                                                         *)
(* A read through a stale iterator, past the end of the live elements or   *)
(* into a freed buffer, is undefined behaviour: the model stops there      *)
(* (pc = "ub").                                                            *)
(***************************************************************************)
EXTENDS Naturals, SequencesExt

CONSTANTS
    Listeners,      \* listener objects (non-null shared_ptrs)
    MaxListeners    \* bound on the size of m_listeners

VARIABLES
    listeners,  \* m_listeners
    cap,        \* its capacity
    gen,        \* the buffer: incremented when push_back reallocates
    pc,         \* "idle", "loop", "callback" (a listener's method runs),
                \* "once" (invokeOnce's call runs), "ub"
    it,         \* the range-for's iterator, as an index
    endIt,      \* the range-for's end iterator, taken before the loop
    loopGen,    \* the buffer the iterators point into
    atStart,    \* the listeners when invoke() began
    removed,    \* the listeners removed since
    called,     \* the listeners called by this invoke(), in order
    completed   \* this invoke() ran its loop to the end

vars == <<listeners, cap, gen, pc, it, endIt, loopGen, atStart, removed, called, completed>>
loopVars == <<it, endIt, loopGen, atStart, called, completed>>

Init ==
    /\ listeners = <<>> /\ cap = 0 /\ gen = 0 /\ pc = "idle"
    /\ it = 1 /\ endIt = 1 /\ loopGen = 0
    /\ atStart = <<>> /\ removed = {} /\ called = <<>> /\ completed = FALSE

\* The application, or a listener's method running inside invoke().
Caller == pc \in {"idle", "callback", "once"}

\* addListener (every overload, and operator+=): a non-null listener is
\* pushed back; the same listener may be added twice.
AddListener(l) ==
    /\ Caller /\ Len(listeners) < MaxListeners
    /\ listeners' = Append(listeners, l)
    /\ IF Len(listeners) = cap
       THEN cap' = (IF cap = 0 THEN 1 ELSE 2 * cap) /\ gen' = gen + 1
       ELSE UNCHANGED <<cap, gen>>
    /\ UNCHANGED <<pc, removed, loopVars>>

\* removeListener (and operator-=): every copy of the listener goes.
RemoveListener(l) ==
    /\ Caller
    /\ listeners' = SelectSeq(listeners, LAMBDA x : x # l)
    /\ removed' = removed \cup {l}
    /\ UNCHANGED <<cap, gen, pc, loopVars>>

\* removeListeners: clear() keeps the capacity.
RemoveListeners ==
    /\ Caller
    /\ listeners' = <<>>
    /\ removed' = removed \cup Range(listeners)
    /\ UNCHANGED <<cap, gen, pc, loopVars>>

\* invoke(action, args...) from the application; with no listener it
\* does nothing.
Invoke ==
    /\ pc = "idle" /\ listeners # <<>>
    /\ pc' = "loop" /\ it' = 1 /\ endIt' = Len(listeners) + 1 /\ loopGen' = gen
    /\ atStart' = listeners /\ removed' = {} /\ called' = <<>> /\ completed' = FALSE
    /\ UNCHANGED <<listeners, cap, gen>>

\* One turn of the range-for: stop at the end iterator, or dereference
\* *it and call the listener's method.
LoopStep ==
    /\ pc = "loop"
    /\ IF it = endIt
       THEN pc' = "idle" /\ completed' = TRUE /\ UNCHANGED called
       ELSE IF loopGen # gen \/ it > Len(listeners)
            THEN pc' = "ub" /\ UNCHANGED <<called, completed>>
            ELSE pc' = "callback" /\ called' = Append(called, listeners[it])
                 /\ UNCHANGED completed
    /\ UNCHANGED <<listeners, cap, gen, it, endIt, loopGen, atStart, removed>>

\* The method returns, or throws into the catch (...); ++it.
CallbackReturns ==
    /\ pc = "callback"
    /\ pc' = "loop" /\ it' = it + 1
    /\ UNCHANGED <<listeners, cap, gen, endIt, loopGen, atStart, removed, called, completed>>

\* invokeOnce: the method of front() alone, which may call back too; then
\* its return or its exception ends the call.
InvokeOnce ==
    /\ pc = "idle" /\ listeners # <<>>
    /\ pc' = "once"
    /\ UNCHANGED <<listeners, cap, gen, removed, loopVars>>

OnceReturns ==
    /\ pc = "once" /\ pc' = "idle"
    /\ UNCHANGED <<listeners, cap, gen, removed, loopVars>>

Next ==
    \/ \E l \in Listeners : AddListener(l) \/ RemoveListener(l)
    \/ RemoveListeners \/ Invoke \/ LoopStep \/ CallbackReturns
    \/ InvokeOnce \/ OnceReturns

Spec == Init /\ [][Next]_vars /\ WF_vars(LoopStep \/ CallbackReturns \/ OnceReturns)

-----------------------------------------------------------------------------
\* What the listener fan-out is for: invoke() calls the method on every
\* listener registered for the whole call, and reads no listener that is
\* no longer in the vector, even when a listener's method adds or removes
\* listeners.
EveryListenerNotified ==
    /\ pc # "ub"
    /\ completed => \A l \in Range(atStart) \ removed : l \in Range(called)
=============================================================================
