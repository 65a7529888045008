------------------------------ MODULE JobRunner ------------------------------
(***************************************************************************)
(* InProcessJobRunner (orchestration/job_runner.py) on top of the run       *)
(* control registry.  A future is a member of Futures that submit() takes   *)
(* from the unused ones; its work item waits in the FIFO queue of the       *)
(* thread pool; the pool's threads are Workers.  Cancellers and Readers are *)
(* the threads that call cancel() and get_status(), whose steps interleave  *)
(* with everything else because they leave the runner's lock after one read.*)
(*                                                                         *)
(* A worker's way through one work item: the pool marks the future running  *)
(* ("picked"), _run_controlled calls begin ("task"), the task polls          *)
(* stop_reason any number of times ("polling" is between the registry's     *)
(* lock and the clock comparison after it), the task returns or raises      *)
(* ("ended"), finish runs ("finished"), the pool stores the outcome.        *)
(***************************************************************************)
EXTENDS RunControl, Naturals, Sequences, FiniteSets

CONSTANTS Futures,      \* the futures the executor may create
          Workers,      \* the threads of the pool: max_workers of them
          Cancellers,   \* threads that call cancel()
          Readers,      \* threads that call get_status()
          None          \* Python's None

ASSUME NoneAssumption == None \notin Futures /\ None \notin Runs

ASSUME WorkersAssumption == IsFiniteSet(Workers)

VARIABLES futures,      \* self.futures: the last future of every run, or None
          runOf,        \* the run a future was created for
          fstate,       \* the state of a future
          queue,        \* the executor's queue of work items
          wpc, wfuture, \* a worker's place in its work item, and that item
          stop,         \* the stop reason the worker's task last observed
          cpc, cfuture, crun, \* a canceller's place, the future it read, the run
          gpc, gfuture, \* a reader's place, and the future it last read
          answer,       \* what a reader's last get_status returned
          marked        \* auxiliary: futures whose run was cancelled while
                        \* their task ran, i.e. after begin

poolVars == <<futures, runOf, fstate, queue>>
workerVars == <<wpc, wfuture, stop>>
cancelVars == <<cpc, cfuture, crun>>
readVars == <<gpc, gfuture, answer>>
vars == <<controlVars, poolVars, workerVars, cancelVars, readVars, marked>>

FutureState == {"unused", "PENDING", "RUNNING", "CANCELLED", "OK", "ERROR"}
StopReason == {"NONE", "USER_CANCELLED", "ANALYSIS_JOB_TIMEOUT"}
WorkerPlace == {"idle", "picked", "task", "polling", "ended", "failed", "finished", "broken"}
CancelPlace == {"idle", "mark", "cancel"}
ReadPlace == {"idle", "isCancelled", "isDone", "exception"}
Answer == {"NONE", "CANCELLED", "RUNNING", "FAILED", "COMPLETED", "RAISED"}

TypeOK ==
    /\ ControlTypeOK
    /\ futures \in [Runs -> Futures \cup {None}]
    /\ runOf \in [Futures -> Runs \cup {None}]
    /\ fstate \in [Futures -> FutureState]
    /\ queue \in Seq(Futures)
    /\ wpc \in [Workers -> WorkerPlace]
    /\ wfuture \in [Workers -> Futures \cup {None}]
    /\ stop \in [Workers -> StopReason]
    /\ cpc \in [Cancellers -> CancelPlace]
    /\ cfuture \in [Cancellers -> Futures \cup {None}]
    /\ crun \in [Cancellers -> Runs \cup {None}]
    /\ gpc \in [Readers -> ReadPlace]
    /\ gfuture \in [Readers -> Futures \cup {None}]
    /\ answer \in [Readers -> Answer]
    /\ marked \subseteq Futures

Init ==
    /\ ControlInit
    /\ futures = [r \in Runs |-> None]
    /\ runOf = [f \in Futures |-> None]
    /\ fstate = [f \in Futures |-> "unused"]
    /\ queue = <<>>
    /\ wpc = [w \in Workers |-> "idle"]
    /\ wfuture = [w \in Workers |-> None]
    /\ stop = [w \in Workers |-> "NONE"]
    /\ cpc = [c \in Cancellers |-> "idle"]
    /\ cfuture = [c \in Cancellers |-> None]
    /\ crun = [c \in Cancellers |-> None]
    /\ gpc = [g \in Readers |-> "idle"]
    /\ gfuture = [g \in Readers |-> None]
    /\ answer = [g \in Readers |-> "NONE"]
    /\ marked = {}

done(f) == fstate[f] \in {"CANCELLED", "OK", "ERROR"}

\* A run that nobody holds an unfinished future for.
Free(r) == futures[r] # None => done(futures[r])

\* ThreadPoolExecutor.submit: a fresh pending future, its work item last in
\* the queue.
executorSubmit(r) ==
    \E f \in Futures :
        /\ fstate[f] = "unused"
        /\ fstate' = [fstate EXCEPT ![f] = "PENDING"]
        /\ runOf' = [runOf EXCEPT ![f] = r]
        /\ queue' = Append(queue, f)
        /\ futures' = [futures EXCEPT ![r] = f]

\* submit() and retry() hold the lock throughout.  A submit for a run whose
\* future is not done returns without a trace, a retry raises: neither
\* changes anything, so both are the same step when they do.
\* Faults: submit, or retry, without the look at the existing future.
submit_unchecked(r) ==
    /\ executorSubmit(r)
    /\ UNCHANGED <<controlVars, workerVars, cancelVars, readVars, marked>>

retry_unchecked(r) ==
    /\ executorSubmit(r)
    /\ UNCHANGED <<controlVars, workerVars, cancelVars, readVars, marked>>

submit(r) ==
    /\ Free(r)
    /\ executorSubmit(r)
    /\ UNCHANGED <<controlVars, workerVars, cancelVars, readVars, marked>>

retry(r) ==
    /\ Free(r)
    /\ executorSubmit(r)
    /\ UNCHANGED <<controlVars, workerVars, cancelVars, readVars, marked>>

\* A pool thread takes the oldest work item.  One whose future was cancelled
\* is discarded (set_running_or_notify_cancel returns False).
Takes(w) ==
    /\ fstate' = [fstate EXCEPT ![Head(queue)] = "RUNNING"]
    /\ wpc' = [wpc EXCEPT ![w] = "picked"]
    /\ wfuture' = [wfuture EXCEPT ![w] = Head(queue)]
    /\ stop' = [stop EXCEPT ![w] = "NONE"]

Pickup(w) ==
    /\ wpc[w] = "idle"
    /\ queue # <<>>
    /\ queue' = Tail(queue)
    /\ \/ fstate[Head(queue)] = "PENDING" /\ Takes(w)
       \/ /\ fstate[Head(queue)] = "CANCELLED"
          /\ UNCHANGED <<fstate, workerVars>>
    /\ UNCHANGED <<controlVars, futures, runOf, cancelVars, readVars, marked>>

\* Fault: begin holds a run back that is marked as cancelled.
run_controlled_begin_waits(w) ==
    /\ wpc[w] = "picked"
    /\ runOf[wfuture[w]] \notin cancelled
    /\ begin(runOf[wfuture[w]])
    /\ wpc' = [wpc EXCEPT ![w] = "task"]
    /\ UNCHANGED <<poolVars, wfuture, stop, cancelVars, readVars, marked>>

run_controlled_begin(w) ==
    /\ wpc[w] = "picked"
    /\ begin(runOf[wfuture[w]])
    /\ wpc' = [wpc EXCEPT ![w] = "task"]
    /\ UNCHANGED <<poolVars, wfuture, stop, cancelVars, readVars, marked>>

\* stop_reason, up to the release of the registry's lock ...
stop_reason_read(w) ==
    /\ wpc[w] = "task"
    /\ \/ /\ runOf[wfuture[w]] \in cancelled
          /\ stop' = [stop EXCEPT ![w] = "USER_CANCELLED"]
          /\ UNCHANGED wpc
       \/ /\ runOf[wfuture[w]] \notin cancelled
          /\ wpc' = [wpc EXCEPT ![w] = "polling"]
          /\ UNCHANGED stop
    /\ UNCHANGED <<controlVars, poolVars, wfuture, cancelVars, readVars, marked>>

\* ... and the comparison with the clock outside it.
stop_reason_clock(w) ==
    /\ wpc[w] = "polling"
    /\ stop' = [stop EXCEPT ![w] = IF deadline[runOf[wfuture[w]]] = "lapsed"
                                   THEN "ANALYSIS_JOB_TIMEOUT" ELSE "NONE"]
    /\ wpc' = [wpc EXCEPT ![w] = "task"]
    /\ UNCHANGED <<controlVars, poolVars, wfuture, cancelVars, readVars, marked>>

\* The task returns, or raises.
TaskEnds(w) ==
    /\ wpc[w] = "task"
    /\ \E place \in {"ended", "failed"} : wpc' = [wpc EXCEPT ![w] = place]
    /\ UNCHANGED <<controlVars, poolVars, wfuture, stop, cancelVars, readVars, marked>>

\* The finally clause of _run_controlled.
run_controlled_finish(w) ==
    /\ wpc[w] \in {"ended", "failed"}
    /\ finish(runOf[wfuture[w]])
    /\ wpc' = [wpc EXCEPT ![w] = IF wpc[w] = "ended" THEN "finished" ELSE "broken"]
    /\ UNCHANGED <<poolVars, wfuture, stop, cancelVars, readVars, marked>>

\* The pool stores the task's outcome in the future: from here it is done.
SetOutcome(w) ==
    /\ wpc[w] \in {"finished", "broken"}
    /\ fstate' = [fstate EXCEPT ![wfuture[w]] = IF wpc[w] = "finished" THEN "OK" ELSE "ERROR"]
    /\ wpc' = [wpc EXCEPT ![w] = "idle"]
    /\ wfuture' = [wfuture EXCEPT ![w] = None]
    /\ UNCHANGED <<controlVars, futures, runOf, queue, stop, cancelVars, readVars, marked>>

Lapses(r) ==
    /\ Lapse(r)
    /\ UNCHANGED <<poolVars, workerVars, cancelVars, readVars, marked>>

\* cancel(): the future is read under the lock ...
cancel_read(c, r) ==
    /\ cpc[c] = "idle"
    /\ cpc' = [cpc EXCEPT ![c] = "mark"]
    /\ cfuture' = [cfuture EXCEPT ![c] = futures[r]]
    /\ crun' = [crun EXCEPT ![c] = r]
    /\ UNCHANGED <<controlVars, poolVars, workerVars, readVars, marked>>

\* The futures whose task runs for run r: begun and not yet finished.
Working(w) == wpc[w] \in {"task", "polling", "ended", "failed"}
RunningTasks(r) == {f \in Futures : runOf[f] = r /\ \E w \in Workers : wfuture[w] = f /\ Working(w)}

\* ... the registry is told ...
cancel_mark(c) ==
    /\ cpc[c] = "mark"
    /\ cancel(crun[c])
    /\ cpc' = [cpc EXCEPT ![c] = "cancel"]
    /\ marked' = marked \cup RunningTasks(crun[c])
    /\ UNCHANGED <<poolVars, workerVars, cfuture, crun, readVars>>

\* ... and Future.cancel succeeds only on a future that is still pending.
cancel_future(c) ==
    /\ cpc[c] = "cancel"
    /\ fstate' = IF cfuture[c] # None /\ fstate[cfuture[c]] = "PENDING"
                 THEN [fstate EXCEPT ![cfuture[c]] = "CANCELLED"]
                 ELSE fstate
    /\ cpc' = [cpc EXCEPT ![c] = "idle"]
    /\ cfuture' = [cfuture EXCEPT ![c] = None]
    /\ crun' = [crun EXCEPT ![c] = None]
    /\ UNCHANGED <<controlVars, futures, runOf, queue, workerVars, readVars, marked>>

\* get_status(): a read under the lock, then up to three looks at the future.
get_status_read(g, r) ==
    /\ gpc[g] = "idle"
    /\ gfuture' = [gfuture EXCEPT ![g] = futures[r]]
    /\ IF futures[r] = None
       THEN answer' = [answer EXCEPT ![g] = "NONE"] /\ UNCHANGED gpc
       ELSE gpc' = [gpc EXCEPT ![g] = "isCancelled"] /\ UNCHANGED answer
    /\ UNCHANGED <<controlVars, poolVars, workerVars, cancelVars, marked>>

Answers(g, text) ==
    /\ answer' = [answer EXCEPT ![g] = text]
    /\ gpc' = [gpc EXCEPT ![g] = "idle"]

LooksAgain(g, place) ==
    /\ gpc' = [gpc EXCEPT ![g] = place]
    /\ UNCHANGED answer

get_status_cancelled(g) ==
    /\ gpc[g] = "isCancelled"
    /\ IF fstate[gfuture[g]] = "CANCELLED"
       THEN Answers(g, "CANCELLED") ELSE LooksAgain(g, "isDone")
    /\ UNCHANGED <<controlVars, poolVars, workerVars, cancelVars, gfuture, marked>>

get_status_done(g) ==
    /\ gpc[g] = "isDone"
    /\ IF done(gfuture[g]) THEN LooksAgain(g, "exception") ELSE Answers(g, "RUNNING")
    /\ UNCHANGED <<controlVars, poolVars, workerVars, cancelVars, gfuture, marked>>

\* Fault: a future without an exception is taken for a completed one.
get_status_exception_blind(g) ==
    /\ gpc[g] = "exception"
    /\ Answers(g, IF fstate[gfuture[g]] = "ERROR" THEN "FAILED" ELSE "COMPLETED")
    /\ UNCHANGED <<controlVars, poolVars, workerVars, cancelVars, gfuture, marked>>

\* Future.exception() raises CancelledError on a future that was cancelled
\* after the first look at it.
get_status_exception(g) ==
    /\ gpc[g] = "exception"
    /\ Answers(g, CASE fstate[gfuture[g]] = "CANCELLED" -> "RAISED"
                    [] fstate[gfuture[g]] = "ERROR" -> "FAILED"
                    [] OTHER -> "COMPLETED")
    /\ UNCHANGED <<controlVars, poolVars, workerVars, cancelVars, gfuture, marked>>

WorkerStep(w) ==
    \/ Pickup(w)
    \/ run_controlled_begin(w)
    \/ stop_reason_read(w)
    \/ stop_reason_clock(w)
    \/ TaskEnds(w)
    \/ run_controlled_finish(w)
    \/ SetOutcome(w)

CancellerStep(c) ==
    \/ \E r \in Runs : cancel_read(c, r)
    \/ cancel_mark(c)
    \/ cancel_future(c)

ReaderStep(g) ==
    \/ \E r \in Runs : get_status_read(g, r)
    \/ get_status_cancelled(g)
    \/ get_status_done(g)
    \/ get_status_exception(g)

Next ==
    \/ \E r \in Runs : submit(r) \/ retry(r) \/ Lapses(r)
    \/ \E w \in Workers : WorkerStep(w)
    \/ \E c \in Cancellers : CancellerStep(c)
    \/ \E g \in Readers : ReaderStep(g)

Spec == Init /\ [][Next]_vars

\* Pool threads are scheduled, and a task does end: every wait inside it is
\* bounded by a client timeout, and it polls stop_reason finitely often.
Fairness ==
    \A w \in Workers :
        /\ WF_vars(WorkerStep(w))
        /\ SF_vars(TaskEnds(w))

FairSpec == Spec /\ Fairness

-----------------------------------------------------------------------------
\* A future whose work is still to be done or under way is the one its run is
\* registered with: a second submission cannot push out a live first one.
\* (The check of existing.done() under the lock in submit and retry.)
LiveFutureRegistered ==
    \A f \in Futures : fstate[f] \in {"PENDING", "RUNNING"} =>
        runOf[f] # None /\ futures[runOf[f]] = f

\* Two pool threads never execute work of the same run at the same time,
\* whatever submissions, retries and cancellations interleave: the pipeline
\* writes rows keyed by the run and would collide with itself.
OneExecutionPerRun ==
    \A v, w \in Workers :
        /\ v # w
        /\ wfuture[v] # None
        /\ wfuture[w] # None
        => runOf[wfuture[v]] # runOf[wfuture[w]]

\* A task that observed USER_CANCELLED was really cancelled while it ran; a
\* flag left by a cancellation of an earlier execution of the run, or of a
\* run that was not executing, is not held against it (begin and finish
\* discard the flag).
CancellationIsGenuine ==
    \A w \in Workers :
        Working(w) /\ stop[w] = "USER_CANCELLED" => wfuture[w] \in marked

\* A cancellation that reached a running task stays in force until the task
\* is over: no other execution's begin or finish wipes it out, so every later
\* poll of the task reports USER_CANCELLED and never the timeout.
MarkedStaysCancelled ==
    \A w \in Workers :
        Working(w) /\ wfuture[w] \in marked => runOf[wfuture[w]] \in cancelled

\* A run has a deadline exactly while one of the pool's threads is between
\* begin and finish for it: none is left behind, and none is taken away from
\* a task that still runs.
DeadlineIffWorking ==
    \A r \in Runs :
        deadline[r] # "none" <=>
            \E w \in Workers : Working(w) /\ runOf[wfuture[w]] = r

\* What get_status reported as cancelled, failed or completed is final: a
\* cancellation racing the pool's pickup of the same work item either keeps
\* it from running or comes too late, and never both.
DoneIsFinal == [][\A f \in Futures : done(f) => fstate'[f] = fstate[f]]_vars

\* A terminal status handed to a caller stays true of the future it was about:
\* the three unlocked looks of get_status never combine a state from before a
\* cancellation with one from after it into a wrong answer.
TerminalAnswersStayTrue ==
    \A g \in Readers : gpc[g] = "idle" /\ gfuture[g] # None =>
        /\ answer[g] = "CANCELLED" => fstate[gfuture[g]] = "CANCELLED"
        /\ answer[g] = "FAILED" => fstate[gfuture[g]] = "ERROR"
        /\ answer[g] = "COMPLETED" => fstate[gfuture[g]] = "OK"

\* Every accepted work item is eventually executed or cancelled.
SubmittedIsSettled == \A f \in Futures : fstate[f] = "PENDING" ~> done(f)

\* The runner implements one slot per run.
SlotOf(r) ==
    IF Free(r) THEN "idle"
    ELSE IF fstate[futures[r]] = "PENDING" THEN "waiting" ELSE "executing"

Slots == INSTANCE RunSlots
            WITH slot <- [r \in Runs |-> SlotOf(r)], Capacity <- Cardinality(Workers)

\* Whatever the threads do, seen run by run it is a legal behaviour of
\* RunSlots: filled only when idle, started once, at most max_workers at a
\* time, emptied by completion or by a cancellation before the start.
ImplementsRunSlots == Slots!Spec

=============================================================================
