---------------------------- MODULE TaskScheduler ----------------------------
(***************************************************************************)
(* TaskScheduler (include/isml/task/task_scheduler.hpp) over the thread   *)
(* pool of TaskPool, which it extends as a subclass of the executor.       *)
(*                                                                         *)
(* schedule() pushes a ScheduledAction on a priority queue ordered by     *)
(* timeLeft(), i.e. by deadline = creation + delay. A watcher thread      *)
(* loops while the pool's m_done is false: it takes the lock and calls    *)
(* m_cv.wait_for(lock, m_delay), then acts on m_suspend_reason:           *)
(* UpdateDelay restarts the wait from now with the new m_delay,           *)
(* ExecuteTask pops the top action and hands it to the pool's doExecute,  *)
(* Terminate returns. doSchedule lowers m_delay and notifies when the new *)
(* delay is shorter than the time left; doTerminate sets Terminate and    *)
(* notifies. A notification that finds the watcher outside wait_for is    *)
(* lost. maxWaitTime() is centuries: MaxWait is a wait that outlasts the  *)
(* model's clock.                                                          *)
(*                                                                         *)
(* wait_for may also return spuriously (SpuriousWakeups); the code has no *)
(* predicate to guard against it.                                          *)
(***************************************************************************)
EXTENDS TaskPool, Integers, FiniteSets

CONSTANTS
    Delays,           \* the delays given to schedule(), in clock ticks
    SpuriousWakeups   \* wait_for may return with no notification or timeout

ASSUME Delays \subseteq Nat /\ Delays # {} /\ SpuriousWakeups \in BOOLEAN

(* Time is kept relative to now: a deadline as the ticks left to it, the   *)
(* wait as the ticks left before it times out, m_delay_update_ts as the   *)
(* ticks elapsed since it. A Tick moves them all by one. Past a bound     *)
(* they make no difference to any comparison the code makes, and are      *)
(* clamped there.                                                          *)
MaxDelay == CHOOSE d \in Delays : \A e \in Delays : e <= d
ElapsedCap == MaxDelay + 1
Overdue == -1
\* maxWaitTime(): more than any time left or elapsed here.
Forever == 3 * MaxDelay + 3

VARIABLES
    sched,      \* m_scheduled_actions: records [task, left], left = deadline - now
    mDelay,     \* m_delay (Forever for maxWaitTime())
    elapsed,    \* now - m_delay_update_ts
    reason,     \* m_suspend_reason
    wpc,        \* the watcher: "top", "wait", "notified", "exit"
    wleft,      \* ticks before the watcher's wait_for times out
    scheduled,  \* tasks given to schedule()
    handed      \* scheduled tasks handed to doExecute

schedVars == <<sched, mDelay, elapsed, reason, wpc, wleft, scheduled, handed>>
vars == <<poolVars, schedVars>>

\* The members' initialisers: an empty queue, m_delay_update_ts = now,
\* m_suspend_reason = UpdateDelay.
SchedMembers ==
    /\ sched = {} /\ elapsed = 0 /\ reason = "UpdateDelay"

\* TaskScheduler(args...): the executor's constructor, m_delay =
\* maxWaitTime(), and m_watcher started on watcherFn.
SchedInit ==
    /\ Init
    /\ SchedMembers
    /\ mDelay = Forever /\ wpc = "top" /\ wleft = 0
    /\ scheduled = {} /\ handed = {}

\* TaskScheduler::timeLeft()
TimeLeft == mDelay - elapsed

\* m_cv.notify_one() on the scheduler's condition variable.
NotifyWatcher == wpc' = IF wpc = "wait" THEN "notified" ELSE wpc

(* ScheduledAction(action, delay): m_creation_ts = Clock::now(), so its   *)
(* timeLeft() starts at the delay.                                         *)
NewScheduledAction(t, d) == [task |-> t, left |-> d]

\* Mutant: doSchedule lowers m_delay without notifying the watcher.
DoScheduleNoNotify(t, d) ==
    IF done
    THEN UNCHANGED <<sched, mDelay, reason, wpc>>
    ELSE /\ sched' = sched \cup {NewScheduledAction(t, d)}
         /\ IF TimeLeft > d
            THEN mDelay' = d /\ reason' = "UpdateDelay" /\ UNCHANGED wpc
            ELSE UNCHANGED <<mDelay, reason, wpc>>

\* doSchedule, under m_scheduled_actions_guard: nothing once the pool is
\* terminating, else push, and lower m_delay and notify when the new
\* delay is shorter than the wait's time left.
DoSchedule(t, d) ==
    IF done
    THEN UNCHANGED <<sched, mDelay, reason, wpc>>
    ELSE /\ sched' = sched \cup {NewScheduledAction(t, d)}
         /\ IF TimeLeft > d
            THEN mDelay' = d /\ reason' = "UpdateDelay" /\ NotifyWatcher
            ELSE UNCHANGED <<mDelay, reason, wpc>>

\* schedule(fn, delay): a new Task, whose action goes to doSchedule; the
\* Task is returned to the application.
Schedule(t, d) ==
    /\ appPc = "idle" /\ t \notin submitted \cup scheduled
    /\ scheduled' = scheduled \cup {t}
    /\ DoSchedule(t, d)
    /\ UNCHANGED <<poolVars, elapsed, wleft, handed>>

\* terminate() -> TaskScheduler::doTerminate. The pool's m_done is not set.
SchedTerminate ==
    /\ appPc = "idle"
    /\ reason' = "Terminate" /\ NotifyWatcher
    /\ UNCHANGED <<poolVars, sched, mDelay, elapsed, wleft, scheduled, handed>>

\* ~TaskScheduler: m_watcher.join() first ...
SchedDestroy ==
    /\ appPc = "idle" /\ appPc' = "sjoin"
    /\ UNCHANGED <<status, promise, started, cancelRes, queue, done, pc, cur,
                   submitted, schedVars>>

\* ... then Executor::terminate() (dispatched to TaskScheduler::doTerminate)
\* and ~ThreadPoolTaskExecutor: m_done and notify_all, then its joins.
WatcherJoined ==
    /\ appPc = "sjoin" /\ wpc = "exit"
    /\ reason' = "Terminate"
    /\ done' = TRUE
    /\ pc' = [w \in DOMAIN pc |-> IF pc[w] = "wait" THEN "woken" ELSE pc[w]]
    /\ appPc' = "join"
    /\ UNCHANGED <<status, promise, started, cancelRes, queue, cur, submitted,
                   sched, mDelay, elapsed, wpc, wleft, scheduled, handed>>

\* watcherFn: while (!isTerminating()), the lock, wait_for(lock, m_delay);
\* a negative m_delay times out at once.
WatcherTop ==
    /\ wpc = "top"
    /\ IF done
       THEN wpc' = "exit" /\ UNCHANGED wleft
       ELSE wpc' = "wait" /\ wleft' = IF mDelay < 0 THEN 0 ELSE mDelay
    /\ UNCHANGED <<poolVars, sched, mDelay, elapsed, reason, scheduled, handed>>

\* The top of the priority queue: the least time left; among equal ones
\* (or ones both overdue) either.
Earliest(s) == {e \in s : \A f \in s : e.left <= f.left}
MinLeft(s) == (CHOOSE e \in Earliest(s) : TRUE).left

\* The ExecuteTask case: pop the top, hand it to doExecute, and wait for the
\* next one's timeLeft() (or maxWaitTime()) from now.
ExecuteTop ==
    /\ \/ sched = {} /\ UNCHANGED <<sched, queue, pc, handed>>
       \/ \E e \in Earliest(sched) :
             /\ sched' = sched \ {e}
             /\ DoExecute(e.task)
             /\ handed' = handed \cup {e.task}
    /\ mDelay' = IF sched' # {} THEN MinLeft(sched') ELSE Forever
    /\ elapsed' = 0
    /\ UNCHANGED reason

\* wait_for returns (notified, timed out or spuriously) and the switch runs
\* under the lock.
WatcherWake ==
    /\ \/ wpc = "notified"
       \/ wpc = "wait" /\ (wleft = 0 \/ SpuriousWakeups)
    /\ CASE reason = "UpdateDelay" ->
              /\ elapsed' = 0 /\ reason' = "ExecuteTask" /\ wpc' = "top"
              /\ UNCHANGED <<sched, mDelay, queue, pc, handed>>
         [] reason = "ExecuteTask" -> ExecuteTop /\ wpc' = "top"
         [] reason = "Terminate" ->
              wpc' = "exit" /\ UNCHANGED <<sched, mDelay, elapsed, reason, queue, pc, handed>>
    /\ UNCHANGED <<status, promise, started, cancelRes, done, cur, submitted,
                   appPc, wleft, scheduled>>

\* The clock advances by one tick.
Tick ==
    /\ elapsed' = IF elapsed < ElapsedCap THEN elapsed + 1 ELSE elapsed
    /\ wleft' = IF wleft \in {0, Forever} THEN wleft ELSE wleft - 1
    /\ sched' = {[e EXCEPT !.left = IF @ > Overdue THEN @ - 1 ELSE @] : e \in sched}
    /\ UNCHANGED <<poolVars, mDelay, reason, wpc, scheduled, handed>>

WatcherStep == WatcherTop \/ WatcherWake

\* The application only schedules: submit() and tryCancel() are the pool's,
\* checked in TaskPool.
SchedNext ==
    \/ \E t \in Tasks, d \in Delays : Schedule(t, d)
    \/ SchedTerminate \/ SchedDestroy \/ WatcherJoined
    \/ Joined /\ UNCHANGED schedVars
    \/ \E w \in Workers : WorkerStep(w) /\ UNCHANGED schedVars
    \/ WatcherStep \/ Tick

\* A wait_for that was notified or has timed out returns; a spurious
\* return is allowed but never owed.
WakeOwed == wpc = "notified" \/ (wpc = "wait" /\ wleft = 0)

\* The watcher and the workers are OS threads, and time passes.
SchedFairness ==
    /\ \A w \in Workers : WF_vars(WorkerStep(w) /\ UNCHANGED schedVars)
    /\ WF_vars(Joined /\ UNCHANGED schedVars)
    /\ WF_vars(WatcherTop \/ (WakeOwed /\ WatcherWake))
    /\ WF_vars(WatcherJoined) /\ WF_vars(Tick)

SchedSpec == SchedInit /\ [][SchedNext]_vars /\ SchedFairness

-----------------------------------------------------------------------------
\* No scheduled action is handed to the pool before its delay has passed:
\* the ExecuteTask case pops the top without comparing its timeLeft() with
\* zero, so only the wait_for that preceded it keeps it from running early.
NoTaskRunsEarly == [][\A e \in sched : e.task \in handed' \ handed => e.left <= 0]_vars

\* Every scheduled action is eventually handed to the pool, unless the
\* watcher has returned: doSchedule's notification and the delays the
\* watcher waits for lose no action.
ScheduledEventuallyHanded ==
    \A t \in Tasks : t \in scheduled ~> (t \in handed \/ wpc = "exit")

\* Once terminate() has set SuspendReason::Terminate, the watcher returns,
\* unless a later schedule() overwrote the reason: doTerminate's
\* notify_one must reach the watcher's wait_for.
TerminateStopsWatcher ==
    reason = "Terminate" ~> (wpc = "exit" \/ reason # "Terminate")

\* The scheduler's destructor returns.
DestructorReturns == appPc = "sjoin" ~> appPc = "gone"
=============================================================================
