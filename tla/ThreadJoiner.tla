---------------------------- MODULE ThreadJoiner ----------------------------
(***************************************************************************)
(* ThreadJoiner over a container of std::thread                           *)
(* (include/isml/utility/thread_joiner.hpp), built on DeferredCall         *)
(* (include/isml/utility/deferred_call.hpp).                               *)
(*                                                                         *)
(* The application declares a container of threads, then a ThreadJoiner  *)
(* on it; the constructor stores, through defer(), a call of               *)
(* join(container) in DeferredCall::m_call. At the end of the scope the   *)
(* joiner is destroyed first: ~DeferredCall runs m_call inside            *)
(* try { } catch (...) { }. join(container) calls join(thread) on each    *)
(* element in order, which joins a joinable thread and otherwise calls    *)
(* detach(). std::thread::detach throws std::system_error on a thread     *)
(* that is not joinable, so the exception leaves the loop and is          *)
(* swallowed by the destructor. Then the container is destroyed, and the *)
(* destructor of a std::thread that is still joinable calls               *)
(* std::terminate.                                                         *)
(*                                                                         *)
(* An element is a std::thread: "empty" (default-constructed or moved     *)
(* from), "running", "finished" (its function returned, not yet joined),  *)
(* "joined" or "detached". Before the scope ends the application may join  *)
(* or detach elements itself.                                              *)
(***************************************************************************)
EXTENDS Naturals

CONSTANT N   \* the number of elements of the container

ASSUME N \in Nat \ {0}

Slots == 1..N

VARIABLES
    th,   \* each element's std::thread
    pc,   \* "body" (the scope runs), "loop" (~DeferredCall is in m_call),
          \* "containerDtor", "done", "terminated"
    i     \* the element join(container) is at

vars == <<th, pc, i>>

ThreadStates == {"empty", "running", "finished", "joined", "detached"}

TypeOK ==
    /\ th \in [Slots -> ThreadStates]
    /\ pc \in {"body", "loop", "containerDtor", "done", "terminated"}
    /\ i \in 1..(N + 1)

\* std::thread::joinable(): the object represents a thread of execution.
Joinable == {"running", "finished"}

(* ThreadJoiner(Container&): DeferredCall(defer(&join<Container>,        *)
(* std::ref(container))), over a container whose elements the            *)
(* application started or left default-constructed.                      *)
Init ==
    /\ th \in [Slots -> {"empty", "running"}]
    /\ pc = "body"
    /\ i = 1

\* A thread's function returns.
Finish(k) ==
    /\ th[k] = "running"
    /\ th' = [th EXCEPT ![k] = "finished"]
    /\ UNCHANGED <<pc, i>>

\* The application joins an element itself; join() blocks until it ends.
AppJoin(k) ==
    /\ pc = "body" /\ th[k] = "finished"
    /\ th' = [th EXCEPT ![k] = "joined"]
    /\ UNCHANGED <<pc, i>>

\* The application detaches an element itself.
AppDetach(k) ==
    /\ pc = "body" /\ th[k] \in Joinable
    /\ th' = [th EXCEPT ![k] = "detached"]
    /\ UNCHANGED <<pc, i>>

\* The scope ends: ~ThreadJoiner, then ~DeferredCall, whose m_call is set,
\* calls join(container).
ScopeExit ==
    /\ pc = "body"
    /\ pc' = "loop" /\ i' = 1
    /\ UNCHANGED th

(* join(container), one element per step: the range-for ends after the   *)
(* last element; join(thread) joins a joinable element, blocking until   *)
(* it has finished, and calls detach() on any other, which throws out of *)
(* the loop into ~DeferredCall's catch (...).                            *)
JoinStep ==
    /\ pc = "loop"
    /\ \/ i > N /\ pc' = "containerDtor" /\ UNCHANGED <<th, i>>
       \/ i <= N /\ th[i] = "finished"
          /\ th' = [th EXCEPT ![i] = "joined"] /\ i' = i + 1 /\ UNCHANGED pc
       \/ i <= N /\ th[i] \notin Joinable
          /\ pc' = "containerDtor" /\ UNCHANGED <<th, i>>

\* The container is destroyed after the joiner: ~thread of a joinable
\* element calls std::terminate.
DestroyContainer ==
    /\ pc = "containerDtor"
    /\ pc' = IF \E k \in Slots : th[k] \in Joinable THEN "terminated" ELSE "done"
    /\ UNCHANGED <<th, i>>

Next ==
    \/ \E k \in Slots : Finish(k) \/ AppJoin(k) \/ AppDetach(k)
    \/ ScopeExit \/ JoinStep \/ DestroyContainer

\* The threads are OS threads and the destructors run to their end.
Spec == Init /\ [][Next]_vars
             /\ \A k \in Slots : WF_vars(Finish(k))
             /\ WF_vars(JoinStep) /\ WF_vars(DestroyContainer)
-----------------------------------------------------------------------------
(* ThreadJoiner "joins the specified thread(s) using the RAII idiom":    *)
(* once the joiner's destructor has returned, no element of the          *)
(* container is still joinable, whatever the application joined,        *)
(* detached or left default-constructed, so the container's destruction  *)
(* never reaches std::terminate.                                         *)
JoinerLeavesNoJoinableThread ==
    pc \in {"containerDtor", "done"} => \A k \in Slots : th[k] \notin Joinable
=============================================================================
