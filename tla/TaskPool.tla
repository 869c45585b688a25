------------------------------ MODULE TaskPool ------------------------------
(***************************************************************************)
(* Tasks (include/isml/task/task.hpp) run by a ThreadPoolTaskExecutor    *)
(* (src/executors/thread_pool_task_executor.cpp), and one application    *)
(* thread that submits them, cancels them, terminates and destroys the     *)
(* pool.                                                                   *)
(*                                                                         *)
(* A Task holds a State (the atomic m_status) and an Action (the function, *)
(* a std::promise and its future). submit() pushes the Action on m_actions *)
(* under m_actions_guard and notifies one worker. A worker waits on m_cv  *)
(* until the queue is non-empty or m_done, then pops actions with         *)
(* try_lock until the queue is empty, calling Action::perform on each.     *)
(* perform is four steps on the shared m_status: the isCancelled check,    *)
(* the trySetInProgress CAS, the function (setting the promise), and the  *)
(* trySetCompleted CAS inside assert().                                    *)
(*                                                                         *)
(* The lock sections are atomic steps; a failed try_lock only spins and   *)
(* retries, which changes no state. compare_exchange_weak may fail        *)
(* spuriously on LL/SC machines (WeakCas), and assert() is compiled out   *)
(* under NDEBUG.                                                           *)
(*                                                                         *)
(* The application may also perform a task itself: Task::run calls       *)
(* perform on its own thread and returns after it, runAsync calls it on a  *)
(* detached std::thread. Runners are those performers; a task can be run   *)
(* whether or not it was also submitted, and more than once.              *)
(***************************************************************************)
EXTENDS Naturals, Sequences, TLC

CONSTANTS
    Workers,   \* the pool's threads (worker_count)
    Runners,   \* the threads of Task::run and Task::runAsync
    Tasks,     \* the tasks the application creates
    NoTask,    \* no action held by a worker
    NDEBUG,    \* assert() is compiled out
    WeakCas    \* compare_exchange_weak may fail although the value matched

ASSUME NDEBUG \in BOOLEAN /\ WeakCas \in BOOLEAN
ASSUME NoTask \notin Tasks /\ Workers \cap Runners = {}

VARIABLES
    status,     \* State::m_status of each task
    promise,    \* Action::m_promise: "unset", "value" or "exception"
    started,    \* tasks whose function has been entered (history)
    cancelRes,  \* the result of the last tryCancel() on each task
    queue,      \* m_actions
    done,       \* m_done
    pc,         \* each worker's place in startWorker and perform, each
                \* runner's in perform ("idle" when it is not running one)
    cur,        \* the action a worker has popped, or a runner performs
    submitted,  \* tasks given to submit()
    appPc       \* the application thread: "idle", a runner (in Task::run),
                \* "join" (in the destructor), "gone"

poolVars == <<status, promise, started, cancelRes, queue, done, pc, cur,
              submitted, appPc>>

\* The outcomes of compare_exchange_weak when the expected value matches.
CasOutcomes == IF WeakCas THEN BOOLEAN ELSE {TRUE}

\* State::create(): a new State, whose m_status starts Created.
NewState == "Created"

\* Action::create: the constructor keeps the function and takes m_awaiter
\* from its fresh, unset m_promise.
NewAction == "unset"

\* Task(fn, args...): State::create(), then Action::create on that state.
NewTask == [status |-> NewState, promise |-> NewAction]

Init ==
    /\ status = [t \in Tasks |-> NewTask.status]
    /\ promise = [t \in Tasks |-> NewTask.promise]
    /\ started = {} /\ submitted = {}
    /\ cancelRes = [t \in Tasks |-> "none"]
    /\ queue = <<>> /\ done = FALSE
    /\ pc = [w \in Workers |-> "top"] @@ [r \in Runners |-> "idle"]
    /\ cur = [w \in Workers \cup Runners |-> NoTask]
    /\ appPc = "idle"

\* State::isCancelled and State::isCompleted, read by Task::isCancelled,
\* Task::isCompleted and Action::perform.
IsCancelled(t) == status[t] = "Cancelled"
IsCompleted(t) == status[t] = "Completed"

Waiting == {w \in Workers : pc[w] = "wait"}

\* m_cv.notify_one(): one waiting worker, if there is one, is woken.
NotifyOne ==
    \/ Waiting = {} /\ UNCHANGED pc
    \/ \E w \in Waiting : pc' = [pc EXCEPT ![w] = "woken"]

\* Mutant: doExecute pushes without notifying a worker.
DoExecuteNoNotify(t) ==
    /\ queue' = Append(queue, t)
    /\ UNCHANGED pc

\* ThreadPoolTaskExecutor::doExecute: push under the lock, notify one.
\* Nothing stops a push after m_done.
DoExecute(t) ==
    /\ queue' = Append(queue, t)
    /\ NotifyOne

\* TaskExecutor::submit: a new Task whose Action is handed to doExecute.
Submit(t) ==
    /\ appPc = "idle" /\ t \notin submitted
    /\ DoExecute(t)
    /\ submitted' = submitted \cup {t}
    /\ UNCHANGED <<status, promise, started, cancelRes, done, cur, appPc>>

\* The CancellationResult that State::tryCancel derives from the value the
\* failed CAS left in allowable_status.
CancelResult(s) ==
    CASE s = "InProgress" -> "TaskAlreadyInProgress"
      [] s = "Completed"  -> "TaskAlreadyCompleted"
      [] OTHER            -> "Success"

\* Mutant: tryCancel stores Cancelled whatever the status.
TryCancelStore(t) ==
    /\ appPc = "idle" /\ t \in submitted
    /\ status' = [status EXCEPT ![t] = "Cancelled"]
    /\ cancelRes' = [cancelRes EXCEPT ![t] = "Success"]
    /\ UNCHANGED <<promise, started, queue, done, pc, cur, submitted, appPc>>

\* Task::tryCancel -> State::tryCancel: CAS Created -> Cancelled.
TryCancel(t) ==
    /\ appPc = "idle" /\ t \in submitted
    /\ \E ok \in CasOutcomes :
          IF status[t] = "Created" /\ ok
          THEN /\ status' = [status EXCEPT ![t] = "Cancelled"]
               /\ cancelRes' = [cancelRes EXCEPT ![t] = "Success"]
          ELSE /\ cancelRes' = [cancelRes EXCEPT ![t] = CancelResult(status[t])]
               /\ UNCHANGED status
    /\ UNCHANGED <<promise, started, queue, done, pc, cur, submitted, appPc>>

\* TaskExecutor::terminate -> ThreadPoolTaskExecutor::doTerminate: m_done
\* is set without the lock and without a notification.
Terminate ==
    /\ appPc = "idle" /\ ~done
    /\ done' = TRUE
    /\ UNCHANGED <<status, promise, started, cancelRes, queue, pc, cur,
                   submitted, appPc>>

\* ~ThreadPoolTaskExecutor: m_done and notify_all under the lock, then the
\* joins.
Destroy ==
    /\ appPc = "idle"
    /\ done' = TRUE
    /\ pc' = [w \in DOMAIN pc |-> IF pc[w] = "wait" THEN "woken" ELSE pc[w]]
    /\ appPc' = "join"
    /\ UNCHANGED <<status, promise, started, cancelRes, queue, cur, submitted>>

Joined ==
    /\ appPc = "join" /\ \A w \in Workers : pc[w] = "exit"
    /\ appPc' = "gone"
    /\ UNCHANGED <<status, promise, started, cancelRes, queue, done, pc, cur,
                   submitted>>

\* The next place of a worker, all other places unchanged.
Goto(w, where) == pc' = [pc EXCEPT ![w] = where]

\* perform returns: a worker goes back to the drain loop, a runner ends.
Release(w) ==
    /\ Goto(w, IF w \in Workers THEN "drain" ELSE "idle")
    /\ cur' = [cur EXCEPT ![w] = NoTask]

\* Task::run on the application thread, which blocks until perform
\* returns, or Task::runAsync on a new detached thread: either way the
\* Task's action is performed by a thread outside the pool.
RunTask(r, t, blocking) ==
    /\ appPc = "idle" /\ pc[r] = "idle"
    /\ pc' = [pc EXCEPT ![r] = "p_check"]
    /\ cur' = [cur EXCEPT ![r] = t]
    /\ appPc' = IF blocking THEN r ELSE appPc
    /\ UNCHANGED <<status, promise, started, cancelRes, queue, done, submitted>>

\* Task::run returns once its perform has.
RunReturns(r) ==
    /\ appPc = r /\ pc[r] = "idle"
    /\ appPc' = "idle"
    /\ UNCHANGED <<status, promise, started, cancelRes, queue, done, pc, cur, submitted>>

\* startWorker: the while (!m_done) test, then the lock and the wait's
\* predicate, tested before the first block.
WorkerTop(w) ==
    /\ pc[w] = "top"
    /\ Goto(w, IF done THEN "exit" ELSE IF queue # <<>> THEN "chk" ELSE "wait")
    /\ UNCHANGED <<status, promise, started, cancelRes, queue, done, cur,
                   submitted, appPc>>

\* A notified worker re-takes the lock and tests the predicate again.
WorkerWoken(w) ==
    /\ pc[w] = "woken"
    /\ Goto(w, IF queue # <<>> \/ done THEN "chk" ELSE "wait")
    /\ UNCHANGED <<status, promise, started, cancelRes, queue, done, cur,
                   submitted, appPc>>

\* if (m_done) return; after the lock is released.
WorkerChk(w) ==
    /\ pc[w] = "chk"
    /\ Goto(w, IF done THEN "exit" ELSE "drain")
    /\ UNCHANGED <<status, promise, started, cancelRes, queue, done, cur,
                   submitted, appPc>>

\* The inner loop: a successful try_lock, then break on an empty queue or
\* pop the front. m_done is not looked at.
WorkerDrain(w) ==
    /\ pc[w] = "drain"
    /\ IF queue = <<>>
       THEN Goto(w, "top") /\ UNCHANGED <<queue, cur>>
       ELSE /\ cur' = [cur EXCEPT ![w] = Head(queue)]
            /\ queue' = Tail(queue)
            /\ Goto(w, "p_check")
    /\ UNCHANGED <<status, promise, started, cancelRes, done, submitted, appPc>>

\* Action::perform: a cancelled task gets the "canceled task" exception.
\* When an earlier perform has set it already, set_exception throws
\* future_error out of the catch block of a noexcept function:
\* std::terminate.
PerformCheck(w) ==
    LET t == cur[w] IN
    /\ pc[w] = "p_check"
    /\ CASE ~IsCancelled(t) ->
                Goto(w, "p_cas") /\ UNCHANGED <<promise, cur>>
        [] promise[t] = "unset" ->
                promise' = [promise EXCEPT ![t] = "exception"] /\ Release(w)
        [] OTHER -> Goto(w, "abort") /\ UNCHANGED <<promise, cur>>
    /\ UNCHANGED <<status, started, cancelRes, queue, done, submitted, appPc>>

\* Mutant: trySetInProgress stores InProgress unless already running.
PerformCasStore(w) ==
    LET t == cur[w] IN
    /\ pc[w] = "p_cas"
    /\ IF status[t] # "InProgress"
       THEN /\ status' = [status EXCEPT ![t] = "InProgress"]
            /\ started' = started \cup {t}
            /\ Goto(w, "p_run") /\ UNCHANGED cur
       ELSE Release(w) /\ UNCHANGED <<status, started>>
    /\ UNCHANGED <<promise, cancelRes, queue, done, submitted, appPc>>

\* if (m_state->trySetInProgress()): when the CAS fails perform returns
\* and the promise is left unset.
PerformCas(w) ==
    LET t == cur[w] IN
    /\ pc[w] = "p_cas"
    /\ \E ok \in CasOutcomes :
          IF status[t] = "Created" /\ ok
          THEN /\ status' = [status EXCEPT ![t] = "InProgress"]
               /\ started' = started \cup {t}
               /\ Goto(w, "p_run") /\ UNCHANGED cur
          ELSE Release(w) /\ UNCHANGED <<status, started>>
    /\ UNCHANGED <<promise, cancelRes, queue, done, submitted, appPc>>

\* m_fn() returns or throws: set_value or set_exception.
PerformRun(w) ==
    LET t == cur[w] IN
    /\ pc[w] = "p_run"
    /\ \E r \in {"value", "exception"} : promise' = [promise EXCEPT ![t] = r]
    /\ Goto(w, "p_done")
    /\ UNCHANGED <<status, started, cancelRes, queue, done, cur, submitted, appPc>>

\* assert(m_state->trySetCompleted()): the CAS is the assert's operand, so
\* under NDEBUG it is never made; a failed CAS aborts the process.
PerformDone(w) ==
    LET t == cur[w] IN
    /\ pc[w] = "p_done"
    /\ IF NDEBUG
       THEN Release(w) /\ UNCHANGED status
       ELSE \E ok \in CasOutcomes :
              IF status[t] = "InProgress" /\ ok
              THEN status' = [status EXCEPT ![t] = "Completed"] /\ Release(w)
              ELSE Goto(w, "abort") /\ UNCHANGED <<status, cur>>
    /\ UNCHANGED <<promise, started, cancelRes, queue, done, submitted, appPc>>

PerformStep(w) ==
    \/ PerformCheck(w) \/ PerformCas(w) \/ PerformRun(w) \/ PerformDone(w)

WorkerStep(w) ==
    \/ WorkerTop(w) \/ WorkerWoken(w) \/ WorkerChk(w) \/ WorkerDrain(w)
    \/ PerformStep(w)

RunnerStep(r) == PerformStep(r) \/ RunReturns(r)

PoolNext ==
    \/ \E t \in Tasks : Submit(t) \/ TryCancel(t)
    \/ \E r \in Runners, t \in Tasks, b \in BOOLEAN : RunTask(r, t, b)
    \/ Terminate \/ Destroy \/ Joined
    \/ \E w \in Workers : WorkerStep(w)
    \/ \E r \in Runners : RunnerStep(r)

\* Workers and runners are OS threads; the join returns once the workers
\* have all exited. The application's calls are not assumed to happen.
PoolFairness ==
    /\ \A w \in Workers : WF_poolVars(WorkerStep(w))
    /\ \A r \in Runners : WF_poolVars(RunnerStep(r))
    /\ WF_poolVars(Joined)

Spec == Init /\ [][PoolNext]_poolVars /\ PoolFairness

-----------------------------------------------------------------------------
(* The task as its holder sees it, and the refinement of TaskContract.    *)

Phase(t) ==
    CASE status[t] = "Created"                          -> "Created"
      [] status[t] = "Cancelled" /\ promise[t] = "unset" -> "Cancelled"
      [] status[t] = "Cancelled"                        -> "Rejected"
      [] promise[t] = "unset"                           -> "Running"
      [] OTHER                                          -> "Resolved"

Contract == INSTANCE TaskContract WITH task <- [t \in Tasks |-> Phase(t)]

\* Every step of the pool, the workers' perform and the application's
\* tryCancel is a step of the task contract: no task is both cancelled and
\* started, and no promise is set twice or set for a task still Created.
TaskRefinesContract == Contract!Spec

\* A tryCancel() that returned Success means the task's function is never
\* entered (State::tryCancel against Action::perform's trySetInProgress).
CancelSuccessMeansNeverRuns ==
    \A t \in Tasks : cancelRes[t] = "Success" => t \notin started

\* A perform has terminated the process (see PerformNeverAborts).
Aborted == \E w \in DOMAIN pc : pc[w] = "abort"

\* A submitted task that the application does not cancel has its promise
\* set, unless the pool is terminated or the process has aborted: the
\* push, notify_one and the workers' wait predicate lose no action, and a
\* run() or runAsync() of the same task does not leave it unresolved.
QueuedTaskEventuallyResolved ==
    \A t \in Tasks :
        t \in submitted ~> (promise[t] # "unset" \/ status[t] = "Cancelled" \/ done \/ Aborted)

\* A task whose function has run, and that no worker or runner is still
\* performing, reports isCompleted(): perform's trySetCompleted, the
\* operand of an assert(), has moved it to Completed.
CompletedOnceResolved ==
    \A t \in started : (\A w \in DOMAIN cur : cur[w] # t) => IsCompleted(t)

\* Task::getResult returns for every submitted task of a pool that is not
\* terminated: its promise is eventually set, cancelled or not.
GetResultReturns ==
    \A t \in Tasks : t \in submitted ~> (promise[t] # "unset" \/ done)

\* No perform ends the process: neither assert(trySetCompleted()) failing
\* nor a second set_exception on a cancelled task's promise, which a
\* worker and a run()/runAsync() of the same submitted task both reach
\* once it is cancelled, terminates the program.
PerformNeverAborts == \A w \in DOMAIN pc : pc[w] # "abort"
=============================================================================
