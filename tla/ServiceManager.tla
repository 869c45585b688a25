--------------------------- MODULE ServiceManager ---------------------------
(***************************************************************************)
(* ServiceManager (include/isml/service/service_manager.hpp), the         *)
(* process-wide registry of services, holding the MessagingService.       *)
(*                                                                         *)
(* publish<MessagingService>() constructs the service and calls init()    *)
(* (doInit does nothing) under m_services_guard; it does not start it.    *)
(* terminate<T>() and terminate() call stop() on it, still under the     *)
(* lock, then erase it. The application starts, stops and connects       *)
(* through the shared_ptr it got from publish or getService; getService  *)
(* reads the map and changes nothing. One service type is published at *)
(* most once here: a second publish throws RuntimeException, and a        *)
(* publish after terminate builds a new service, which the model leaves *)
(* out.                                                                   *)
(***************************************************************************)
EXTENDS MessagingService

VARIABLE manager  \* "empty", "published", "terminating" (stop() under the lock), "erased"

mgrVars == <<vars, manager>>

ManagerInit == ServiceInit /\ manager = "empty"

\* publish: make_shared, init(), insert.
Publish ==
    /\ manager = "empty"
    /\ manager' = "published"
    /\ UNCHANGED vars

(* terminate<T>() and terminate(): the service is in the map, so stop()  *)
(* runs under m_services_guard; doStop swallows every std::exception, so *)
(* terminate()'s own catch never fires and the two overloads agree.      *)
TerminateBegin ==
    /\ manager = "published"
    /\ StopBegin \/ StopNotRunning
    /\ manager' = "terminating"

\* stop() has returned: m_services.erase / clear, and terminate returns.
TerminateEnd ==
    /\ manager = "terminating"
    /\ mainpc \in {"stopped", "halted"}
    /\ manager' = "erased"
    /\ UNCHANGED vars

\* The application uses the service once publish has returned it.
ManagerNext ==
    \/ Publish \/ TerminateBegin \/ TerminateEnd
    \/ manager # "empty" /\ ServiceNext /\ UNCHANGED manager

ManagerSpec == ManagerInit /\ [][ManagerNext]_mgrVars /\ ServiceFairness

-----------------------------------------------------------------------------
(* ServiceManager::terminate is how a process shuts its services down:   *)
(* when it returns true the service it stopped and erased is Stopped,    *)
(* whether the application started it after publish() or not.           *)
TerminatedServiceStopped ==
    [][manager = "terminating" /\ manager' = "erased" => svc = "Stopped"]_mgrVars
=============================================================================
