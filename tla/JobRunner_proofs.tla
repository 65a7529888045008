-------------------------- MODULE JobRunner_proofs --------------------------
(***************************************************************************)
(* Proofs about JobRunner for any sets of runs, futures and callers and any *)
(* finite set of workers.                                                  *)
(***************************************************************************)
EXTENDS JobRunner, TLAPS, FiniteSetTheorems

\* TypeOK is not inductive by itself: a canceller past its read must hold a run.
TypeInv ==
    /\ TypeOK
    /\ \A c \in Cancellers : cpc[c] # "idle" => crun[c] \in Runs

\* A worker is idle exactly when it holds no future, the future it holds is
\* running, and no two workers hold the same one.
WorkersHoldRunning ==
    /\ \A w \in Workers :
          /\ wpc[w] = "idle" <=> wfuture[w] = None
          /\ wfuture[w] # None => fstate[wfuture[w]] = "RUNNING"
    /\ \A v, w \in Workers : wfuture[v] # None /\ wfuture[v] = wfuture[w] => v = w

\* A future that was ever submitted knows its run, and the future a run is
\* registered with is one of that run's.
FuturesKnowRuns ==
    /\ \A f \in Futures : fstate[f] # "unused" => runOf[f] \in Runs
    /\ \A r \in Runs : futures[r] # None =>
          runOf[futures[r]] = r /\ fstate[futures[r]] # "unused"

\* The inductive invariant behind OneExecutionPerRun.
ExclusionInv ==
    /\ TypeInv
    /\ LiveFutureRegistered
    /\ WorkersHoldRunning
    /\ FuturesKnowRuns

-----------------------------------------------------------------------------
\* The types hold initially ...
LEMMA TypeInit == Init => TypeInv
  BY NoneAssumption DEF Init, TypeInv, TypeOK, ControlInit, ControlTypeOK, DeadlineState, FutureState,
     StopReason, WorkerPlace, CancelPlace, ReadPlace, Answer
\* ... and every operation of the runner, its threads and its callers keeps them.
LEMMA TypeStep == TypeInv /\ [Next]_vars => TypeInv'
<1> SUFFICES ASSUME TypeInv, [Next]_vars PROVE TypeInv'
  OBVIOUS
<1> USE NoneAssumption DEF TypeInv, TypeOK, ControlTypeOK, DeadlineState, FutureState, StopReason,
        WorkerPlace, CancelPlace, ReadPlace, Answer
<1>1. ASSUME NEW r \in Runs, submit(r) \/ retry(r) PROVE TypeInv'
  <2>1. PICK f \in Futures :
           /\ fstate' = [fstate EXCEPT ![f] = "PENDING"]
           /\ runOf' = [runOf EXCEPT ![f] = r]
           /\ queue' = Append(queue, f)
           /\ futures' = [futures EXCEPT ![r] = f]
    BY <1>1 DEF submit, retry, executorSubmit
  <2>2. UNCHANGED <<controlVars, workerVars, cancelVars, readVars, marked>>
    BY <1>1 DEF submit, retry
  <2>3. queue' \in Seq(Futures)
    BY <2>1
  <2> QED BY <2>1, <2>2, <2>3 DEF controlVars, workerVars, cancelVars, readVars
<1>2. ASSUME NEW r \in Runs, Lapses(r) PROVE TypeInv'
  BY <1>2 DEF Lapses, Lapse, poolVars, workerVars, cancelVars, readVars
<1>3. ASSUME NEW w \in Workers, WorkerStep(w) PROVE TypeInv'
  <2>1. CASE Pickup(w)
    <3>1. PICK f \in Futures : f = Head(queue)
      BY <2>1 DEF Pickup
    <3>2. queue' \in Seq(Futures)
      BY <2>1 DEF Pickup
    <3>3. UNCHANGED <<controlVars, futures, runOf, cancelVars, readVars, marked>>
      BY <2>1 DEF Pickup
    <3>4. \/ /\ fstate' = [fstate EXCEPT ![f] = "RUNNING"]
             /\ wpc' = [wpc EXCEPT ![w] = "picked"]
             /\ wfuture' = [wfuture EXCEPT ![w] = f]
             /\ stop' = [stop EXCEPT ![w] = "NONE"]
          \/ UNCHANGED <<fstate, workerVars>>
      BY <2>1, <3>1 DEF Pickup, Takes
    <3>5. CASE UNCHANGED <<fstate, workerVars>>
      BY <3>2, <3>3, <3>5 DEF controlVars, workerVars, cancelVars, readVars
    <3>6. CASE ~UNCHANGED <<fstate, workerVars>>
      <4>1. fstate' \in [Futures -> FutureState] /\ wpc' \in [Workers -> WorkerPlace]
        BY <3>4, <3>6
      <4>2. wfuture' \in [Workers -> Futures \cup {None}] /\ stop' \in [Workers -> StopReason]
        BY <3>4, <3>6
      <4> QED BY <3>2, <3>3, <4>1, <4>2 DEF controlVars, cancelVars, readVars
    <3> QED BY <3>5, <3>6
  <2>2. CASE run_controlled_begin(w)
    BY <2>2 DEF run_controlled_begin, begin, poolVars, cancelVars, readVars
  <2>3. CASE stop_reason_read(w)
    BY <2>3 DEF stop_reason_read, controlVars, poolVars, cancelVars, readVars
  <2>4. CASE stop_reason_clock(w)
    BY <2>4 DEF stop_reason_clock, controlVars, poolVars, cancelVars, readVars
  <2>5. CASE TaskEnds(w)
    BY <2>5 DEF TaskEnds, controlVars, poolVars, cancelVars, readVars
  <2>6. CASE run_controlled_finish(w)
    BY <2>6 DEF run_controlled_finish, finish, poolVars, cancelVars, readVars
  <2>7. CASE SetOutcome(w)
    BY <2>7 DEF SetOutcome, controlVars, cancelVars, readVars
  <2> QED BY <1>3, <2>1, <2>2, <2>3, <2>4, <2>5, <2>6, <2>7 DEF WorkerStep
<1>4. ASSUME NEW c \in Cancellers, CancellerStep(c) PROVE TypeInv'
  <2>1. CASE \E r \in Runs : cancel_read(c, r)
    BY <2>1 DEF cancel_read, controlVars, poolVars, workerVars, readVars
  <2>2. CASE cancel_mark(c)
    BY <2>2 DEF cancel_mark, cancel, RunningTasks, poolVars, workerVars, readVars
  <2>3. CASE cancel_future(c)
    <3>1. fstate' \in [Futures -> FutureState]
      BY <2>3 DEF cancel_future
    <3> QED BY <2>3, <3>1 DEF cancel_future, controlVars, workerVars, readVars
  <2> QED BY <1>4, <2>1, <2>2, <2>3 DEF CancellerStep
<1>5. ASSUME NEW g \in Readers, ReaderStep(g) PROVE TypeInv'
  <2>1. UNCHANGED <<controlVars, poolVars, workerVars, cancelVars, marked>>
    BY <1>5 DEF ReaderStep, get_status_read, get_status_cancelled, get_status_done,
       get_status_exception
  <2>2. CASE \E r \in Runs : get_status_read(g, r)
    BY <2>1, <2>2 DEF get_status_read, controlVars, poolVars, workerVars, cancelVars
  <2>3. ASSUME ReaderStep(g), ~\E r \in Runs : get_status_read(g, r) PROVE TypeInv'
    <3>1. /\ UNCHANGED gfuture
          /\ \/ \E place \in ReadPlace : LooksAgain(g, place)
             \/ \E text \in Answer : Answers(g, text)
      BY <2>3, Zenon DEF ReaderStep, get_status_cancelled, get_status_done, get_status_exception
    <3> QED BY <2>1, <3>1 DEF Answers, LooksAgain, controlVars, poolVars, workerVars, cancelVars
  <2> QED BY <1>5, <2>2, <2>3
<1>6. CASE UNCHANGED vars
  BY <1>6 DEF vars, controlVars, poolVars, workerVars, cancelVars, readVars
<1> QED BY <1>1, <1>2, <1>3, <1>4, <1>5, <1>6 DEF Next

\* The types hold in every reachable state.
THEOREM TypeCorrect == Spec => []TypeOK
<1>1. Spec => []TypeInv
  BY TypeInit, TypeStep, PTL DEF Spec
<1>2. TypeInv => TypeOK
  BY DEF TypeInv
<1> QED BY <1>1, <1>2, PTL

-----------------------------------------------------------------------------
\* Nothing is submitted and no worker holds anything at the start.
LEMMA ExclusionInit == Init => ExclusionInv
<1> SUFFICES ASSUME Init PROVE ExclusionInv
  OBVIOUS
<1>1. TypeInv
  BY TypeInit
<1> QED BY <1>1, NoneAssumption DEF Init, ExclusionInv, LiveFutureRegistered, WorkersHoldRunning, FuturesKnowRuns

\* The work of one run is never registered twice, picked up twice or held by
\* two workers.
LEMMA ExclusionStep == ExclusionInv /\ [Next]_vars => ExclusionInv'
<1> SUFFICES ASSUME ExclusionInv, [Next]_vars PROVE ExclusionInv'
  OBVIOUS
<1> USE NoneAssumption
<1>t. TypeInv /\ TypeInv'
  BY TypeStep DEF ExclusionInv
<1>f. /\ futures \in [Runs -> Futures \cup {None}]
      /\ runOf \in [Futures -> Runs \cup {None}]
      /\ fstate \in [Futures -> FutureState]
      /\ wpc \in [Workers -> WorkerPlace]
      /\ wfuture \in [Workers -> Futures \cup {None}]
  BY <1>t DEF TypeInv, TypeOK
<1> DEFINE Rest == LiveFutureRegistered /\ WorkersHoldRunning /\ FuturesKnowRuns
<1> SUFFICES Rest'
  BY <1>t DEF ExclusionInv
<1>i. Rest
  BY DEF ExclusionInv
<1>1. ASSUME NEW r \in Runs, submit(r) \/ retry(r) PROVE Rest'
  <2>1. PICK f \in Futures :
           /\ fstate[f] = "unused"
           /\ fstate' = [fstate EXCEPT ![f] = "PENDING"]
           /\ runOf' = [runOf EXCEPT ![f] = r]
           /\ futures' = [futures EXCEPT ![r] = f]
    BY <1>1 DEF submit, retry, executorSubmit
  <2>2. /\ futures[r] # None => fstate[futures[r]] \in {"CANCELLED", "OK", "ERROR"}
        /\ UNCHANGED <<wpc, wfuture>>
    BY <1>1 DEF submit, retry, Free, done, workerVars
  <2>3. LiveFutureRegistered'
    BY <1>f, <1>i, <2>1, <2>2 DEF LiveFutureRegistered, FuturesKnowRuns, FutureState
  <2>4. WorkersHoldRunning'
    BY <1>f, <1>i, <2>1, <2>2 DEF WorkersHoldRunning, FutureState
  <2>5. FuturesKnowRuns'
    BY <1>f, <1>i, <2>1, <2>2 DEF FuturesKnowRuns, FutureState
  <2> QED BY <2>3, <2>4, <2>5
<1>2. ASSUME NEW w \in Workers, Pickup(w) PROVE Rest'
  <2>1. PICK f \in Futures : f = Head(queue)
    BY <1>2, <1>t DEF Pickup, TypeInv, TypeOK
  <2>2. UNCHANGED <<futures, runOf>> /\ wpc[w] = "idle"
    BY <1>2 DEF Pickup
  <2>3. CASE /\ fstate[f] = "PENDING"
             /\ fstate' = [fstate EXCEPT ![f] = "RUNNING"]
             /\ wpc' = [wpc EXCEPT ![w] = "picked"]
             /\ wfuture' = [wfuture EXCEPT ![w] = f]
    BY <1>f, <1>i, <2>2, <2>3
       DEF LiveFutureRegistered, WorkersHoldRunning, FuturesKnowRuns, FutureState, WorkerPlace
  <2>4. CASE UNCHANGED <<fstate, workerVars>>
    BY <1>i, <2>2, <2>4
       DEF workerVars, LiveFutureRegistered, WorkersHoldRunning, FuturesKnowRuns
  <2> QED BY <1>2, <2>1, <2>3, <2>4 DEF Pickup, Takes
<1>3. ASSUME NEW w \in Workers, SetOutcome(w) PROVE Rest'
  <2>1. /\ wfuture[w] \in Futures
        /\ fstate[wfuture[w]] = "RUNNING"
        /\ UNCHANGED <<futures, runOf>>
        /\ wpc' = [wpc EXCEPT ![w] = "idle"]
        /\ wfuture' = [wfuture EXCEPT ![w] = None]
    BY <1>3, <1>f, <1>i DEF SetOutcome, WorkersHoldRunning
  <2>2. PICK outcome \in {"OK", "ERROR"} : fstate' = [fstate EXCEPT ![wfuture[w]] = outcome]
    BY <1>3 DEF SetOutcome
  <2> QED BY <1>f, <1>i, <2>1, <2>2
          DEF LiveFutureRegistered, WorkersHoldRunning, FuturesKnowRuns, FutureState, WorkerPlace
<1>4. ASSUME NEW w \in Workers,
             \/ run_controlled_begin(w) \/ stop_reason_read(w) \/ stop_reason_clock(w)
             \/ TaskEnds(w) \/ run_controlled_finish(w)
      PROVE Rest'
  <2>1. wpc[w] # "idle" /\ UNCHANGED <<poolVars, wfuture>>
    BY <1>4 DEF run_controlled_begin, stop_reason_read, stop_reason_clock, TaskEnds, run_controlled_finish
  <2>2. \E place \in WorkerPlace \ {"idle"} : wpc' = [wpc EXCEPT ![w] = place]
    <3>1. CASE stop_reason_read(w) /\ UNCHANGED wpc
      BY <1>f, <2>1, <3>1
    <3>2. CASE ~(stop_reason_read(w) /\ UNCHANGED wpc)
      BY <1>4, <3>2 DEF run_controlled_begin, stop_reason_read, stop_reason_clock, TaskEnds,
         run_controlled_finish, WorkerPlace
    <3> QED BY <3>1, <3>2
  <2> QED BY <1>f, <1>i, <2>1, <2>2
          DEF poolVars, LiveFutureRegistered, WorkersHoldRunning, FuturesKnowRuns
<1>5. ASSUME NEW c \in Cancellers, cancel_future(c) PROVE Rest'
  <2>1. UNCHANGED <<futures, runOf, wpc, wfuture>>
    BY <1>5 DEF cancel_future, workerVars
  <2>2. CASE cfuture[c] # None /\ fstate[cfuture[c]] = "PENDING"
    <3>1. PICK f \in Futures : fstate[f] = "PENDING" /\ fstate' = [fstate EXCEPT ![f] = "CANCELLED"]
      BY <1>5, <1>t, <2>2 DEF cancel_future, TypeInv, TypeOK
    <3> QED BY <1>f, <1>i, <2>1, <3>1
            DEF LiveFutureRegistered, WorkersHoldRunning, FuturesKnowRuns, FutureState
  <2>3. CASE UNCHANGED fstate
    BY <1>i, <2>1, <2>3 DEF LiveFutureRegistered, WorkersHoldRunning, FuturesKnowRuns
  <2> QED BY <1>5, <2>2, <2>3 DEF cancel_future
<1>6. ASSUME UNCHANGED <<futures, runOf, fstate, wpc, wfuture>> PROVE Rest'
  BY <1>i, <1>6 DEF LiveFutureRegistered, WorkersHoldRunning, FuturesKnowRuns
<1>7. ASSUME NEW r \in Runs, Lapses(r) PROVE Rest'
  BY <1>6, <1>7 DEF Lapses, poolVars, workerVars
<1>8. ASSUME NEW c \in Cancellers, CancellerStep(c) PROVE Rest'
  BY <1>5, <1>6, <1>8 DEF CancellerStep, cancel_read, cancel_mark, poolVars, workerVars
<1>9. ASSUME NEW g \in Readers, ReaderStep(g) PROVE Rest'
  BY <1>6, <1>9 DEF ReaderStep, get_status_read, get_status_cancelled, get_status_done,
     get_status_exception, poolVars, workerVars
<1>10. CASE UNCHANGED vars
  BY <1>6, <1>10 DEF vars, poolVars, workerVars
<1> HIDE DEF Rest
<1> QED BY <1>1, <1>2, <1>3, <1>4, <1>7, <1>8, <1>9, <1>10 DEF Next, WorkerStep

\* A done future never changes again: only a running or pending future is ever
\* given a new state, and a worker only holds a running one.
LEMMA DoneStep == ExclusionInv /\ [Next]_vars => \A f \in Futures : done(f) => fstate'[f] = fstate[f]
<1> SUFFICES ASSUME ExclusionInv, [Next]_vars, NEW f \in Futures, done(f) PROVE fstate'[f] = fstate[f]
  OBVIOUS
<1>t. /\ fstate \in [Futures -> FutureState]
      /\ wfuture \in [Workers -> Futures \cup {None}]
      /\ fstate[f] \in {"CANCELLED", "OK", "ERROR"}
  BY DEF ExclusionInv, TypeInv, TypeOK, done
<1>1. ASSUME NEW r \in Runs, submit(r) \/ retry(r) PROVE fstate'[f] = fstate[f]
  BY <1>t, <1>1 DEF submit, retry, executorSubmit
<1>2. ASSUME NEW w \in Workers, Pickup(w) PROVE fstate'[f] = fstate[f]
  BY <1>t, <1>2 DEF Pickup, Takes
<1>3. ASSUME NEW w \in Workers, SetOutcome(w) PROVE fstate'[f] = fstate[f]
  BY <1>t, <1>3, NoneAssumption DEF SetOutcome, ExclusionInv, WorkersHoldRunning
<1>4. ASSUME NEW c \in Cancellers, cancel_future(c) PROVE fstate'[f] = fstate[f]
  BY <1>t, <1>4 DEF cancel_future
<1>5. ASSUME NEW w \in Workers, WorkerStep(w) PROVE fstate'[f] = fstate[f]
  BY <1>2, <1>3, <1>5 DEF WorkerStep, run_controlled_begin, stop_reason_read,
     stop_reason_clock, TaskEnds, run_controlled_finish, poolVars
<1>6. ASSUME NEW c \in Cancellers, CancellerStep(c) PROVE fstate'[f] = fstate[f]
  BY <1>4, <1>6 DEF CancellerStep, cancel_read, cancel_mark, poolVars
<1>7. ASSUME NEW g \in Readers, ReaderStep(g) PROVE fstate'[f] = fstate[f]
  BY <1>7 DEF ReaderStep, get_status_read, get_status_cancelled, get_status_done,
     get_status_exception, poolVars
<1>8. ASSUME NEW r \in Runs, Lapses(r) PROVE fstate'[f] = fstate[f]
  BY <1>8 DEF Lapses, poolVars
<1>9. CASE UNCHANGED vars
  BY <1>9 DEF vars, poolVars
<1> QED BY <1>1, <1>5, <1>6, <1>7, <1>8, <1>9 DEF Next

\* What a caller was told about a finished future is never taken back.
THEOREM DoneStaysDone == Spec => DoneIsFinal
<1>1. ExclusionInv /\ [Next]_vars => [\A f \in Futures : done(f) => fstate'[f] = fstate[f]]_vars
  BY DoneStep
<1> QED BY <1>1, ExclusionInit, ExclusionStep, PTL DEF Spec, DoneIsFinal

\* No run is ever executed by two pool threads at once, for any number of
\* runs, submissions, workers and callers.
THEOREM ExclusiveExecution == Spec => []OneExecutionPerRun
<1>1. Spec => []ExclusionInv
  BY ExclusionInit, ExclusionStep, PTL DEF Spec
<1>2. ExclusionInv => OneExecutionPerRun
  BY NoneAssumption DEF ExclusionInv, TypeInv, TypeOK, LiveFutureRegistered, WorkersHoldRunning,
     FuturesKnowRuns, OneExecutionPerRun
<1> QED BY <1>1, <1>2, PTL

-----------------------------------------------------------------------------
\* A future is marked only by a cancellation that finds its task running, so
\* one that no worker has begun is unmarked, and its worker has seen no stop.
UnbegunUnmarked ==
    /\ \A f \in Futures : fstate[f] \in {"unused", "PENDING"} => f \notin marked
    /\ \A w \in Workers : wpc[w] = "picked" => wfuture[w] \notin marked /\ stop[w] = "NONE"

\* The flag of a run whose task runs was raised during that task.
FlagMeansMarked ==
    \A w \in Workers :
        Working(w) /\ runOf[wfuture[w]] \in cancelled => wfuture[w] \in marked

\* The inductive invariant behind the promises about cancellation and deadlines.
ControlInv ==
    /\ ExclusionInv
    /\ UnbegunUnmarked
    /\ FlagMeansMarked
    /\ CancellationIsGenuine
    /\ MarkedStaysCancelled
    /\ DeadlineIffWorking

\* No run has a flag, a deadline or a worker at the start.
LEMMA ControlInvInit == Init => ControlInv
BY ExclusionInit, NoneAssumption DEF Init, ControlInit, ControlInv, UnbegunUnmarked, FlagMeansMarked,
   CancellationIsGenuine, MarkedStaysCancelled, DeadlineIffWorking, Working

\* Because a run has one execution at a time, only that execution's own begin
\* and finish touch the run's flag and deadline.
LEMMA ControlInvStep == ControlInv /\ [Next]_vars => ControlInv'
<1> SUFFICES ASSUME ControlInv, [Next]_vars PROVE ControlInv'
  OBVIOUS
<1> USE NoneAssumption
<1>e. ExclusionInv /\ ExclusionInv'
  BY ExclusionStep DEF ControlInv
<1>t. TypeInv
  BY <1>e DEF ExclusionInv
<1>f. /\ runOf \in [Futures -> Runs \cup {None}]
      /\ wpc \in [Workers -> WorkerPlace]
      /\ wfuture \in [Workers -> Futures \cup {None}]
      /\ stop \in [Workers -> StopReason]
      /\ deadline \in [Runs -> DeadlineState]
      /\ marked \subseteq Futures
      /\ fstate \in [Futures -> FutureState]
  BY <1>t DEF TypeInv, TypeOK, ControlTypeOK
<1>h. \A w \in Workers : wpc[w] # "idle" =>
         /\ wfuture[w] \in Futures
         /\ runOf[wfuture[w]] \in Runs
         /\ fstate[wfuture[w]] = "RUNNING"
         /\ \A v \in Workers : v # w /\ wpc[v] # "idle" =>
               wfuture[v] # wfuture[w] /\ runOf[wfuture[v]] # runOf[wfuture[w]]
  BY <1>e, <1>f DEF ExclusionInv, WorkersHoldRunning, FuturesKnowRuns, LiveFutureRegistered
<1> DEFINE Rest == /\ UnbegunUnmarked
                   /\ FlagMeansMarked
                   /\ CancellationIsGenuine
                   /\ MarkedStaysCancelled
                   /\ DeadlineIffWorking
<1>i. Rest
  BY DEF ControlInv
<1> SUFFICES Rest'
  BY <1>e DEF ControlInv
<1> USE DEF UnbegunUnmarked, FlagMeansMarked, CancellationIsGenuine, MarkedStaysCancelled,
            DeadlineIffWorking, Working
<1>1. ASSUME NEW r \in Runs, submit(r) \/ retry(r) PROVE Rest'
  <2>1. PICK f \in Futures :
           /\ fstate[f] = "unused"
           /\ fstate' = [fstate EXCEPT ![f] = "PENDING"]
           /\ runOf' = [runOf EXCEPT ![f] = r]
    BY <1>1 DEF submit, retry, executorSubmit
  <2>2. UNCHANGED <<cancelled, deadline, wpc, wfuture, stop, marked>>
    BY <1>1 DEF submit, retry, controlVars, workerVars
  <2>3. \A w \in Workers : wpc[w] # "idle" => runOf'[wfuture[w]] = runOf[wfuture[w]]
    BY <1>f, <1>h, <2>1
  <2> QED BY <1>f, <1>h, <1>i, <2>1, <2>2, <2>3
<1>2. ASSUME NEW w \in Workers, Pickup(w) PROVE Rest'
  <2>1. PICK f \in Futures : f = Head(queue)
    BY <1>2, <1>t DEF Pickup, TypeInv, TypeOK
  <2>2. UNCHANGED <<cancelled, deadline, runOf, marked>> /\ wpc[w] = "idle"
    BY <1>2 DEF Pickup, controlVars
  <2>3. CASE /\ fstate[f] = "PENDING"
             /\ fstate' = [fstate EXCEPT ![f] = "RUNNING"]
             /\ wpc' = [wpc EXCEPT ![w] = "picked"]
             /\ wfuture' = [wfuture EXCEPT ![w] = f]
             /\ stop' = [stop EXCEPT ![w] = "NONE"]
    BY <1>f, <1>h, <1>i, <2>2, <2>3
  <2>4. CASE UNCHANGED <<fstate, workerVars>>
    BY <1>i, <2>2, <2>4 DEF workerVars
  <2> QED BY <1>2, <2>1, <2>3, <2>4 DEF Pickup, Takes
<1>3. ASSUME NEW w \in Workers, run_controlled_begin(w) PROVE Rest'
  BY <1>f, <1>h, <1>i, <1>3 DEF run_controlled_begin, begin, poolVars
<1>4. ASSUME NEW w \in Workers, stop_reason_read(w) \/ stop_reason_clock(w) PROVE Rest'
  <2>1. UNCHANGED <<cancelled, deadline, runOf, fstate, wfuture, marked>> /\ wpc[w] \in {"task", "polling"}
    BY <1>4 DEF stop_reason_read, stop_reason_clock, poolVars, controlVars
  <2>2. PICK place \in {"task", "polling"} : wpc' = [wpc EXCEPT ![w] = place]
    <3>1. CASE wpc' = wpc
      BY <1>f, <1>4, <3>1 DEF stop_reason_read, stop_reason_clock
    <3>2. CASE wpc' # wpc
      BY <1>4, <3>2 DEF stop_reason_read, stop_reason_clock
    <3> QED BY <3>1, <3>2
  <2>3. PICK reason \in StopReason :
           /\ stop' = [stop EXCEPT ![w] = reason]
           /\ reason = "USER_CANCELLED" => wfuture[w] \in marked
    <3>1. CASE stop_reason_read(w) /\ runOf[wfuture[w]] \in cancelled
      (* The flag is this execution's: somebody marked it after begin. *)
      BY <1>f, <1>h, <1>i, <3>1 DEF stop_reason_read, StopReason
    <3>2. CASE stop_reason_read(w) /\ UNCHANGED stop
      BY <1>f, <1>i, <2>1, <3>2
    <3>3. CASE stop_reason_clock(w)
      BY <1>f, <3>3 DEF stop_reason_clock, StopReason
    <3> QED BY <1>4, <3>1, <3>2, <3>3 DEF stop_reason_read
  <2> QED BY <1>f, <1>h, <1>i, <2>1, <2>2, <2>3
<1>5. ASSUME NEW w \in Workers, TaskEnds(w) PROVE Rest'
  BY <1>f, <1>h, <1>i, <1>5 DEF TaskEnds, poolVars, controlVars
<1>6. ASSUME NEW w \in Workers, run_controlled_finish(w) PROVE Rest'
  BY <1>f, <1>h, <1>i, <1>6 DEF run_controlled_finish, finish, poolVars
<1>7. ASSUME NEW w \in Workers, SetOutcome(w) PROVE Rest'
  BY <1>f, <1>h, <1>i, <1>7 DEF SetOutcome, controlVars
<1>8. ASSUME NEW r \in Runs, Lapses(r) PROVE Rest'
  BY <1>f, <1>i, <1>8 DEF Lapses, Lapse, poolVars, workerVars
<1>9. ASSUME NEW c \in Cancellers, cancel_mark(c) PROVE Rest'
  <2>1. /\ cancelled' = cancelled \cup {crun[c]}
        /\ marked' = marked \cup RunningTasks(crun[c])
        /\ UNCHANGED <<deadline, runOf, fstate, wpc, wfuture, stop>>
    BY <1>9 DEF cancel_mark, cancel, poolVars, workerVars
  <2>2. \A f \in RunningTasks(crun[c]) :
           /\ fstate[f] = "RUNNING"
           /\ runOf[f] = crun[c]
           /\ \E v \in Workers : Working(v) /\ wfuture[v] = f
    BY <1>f, <1>h DEF RunningTasks
  <2>3. UnbegunUnmarked'
    <3>1. \A w \in Workers : wpc[w] = "picked" => wfuture[w] \notin RunningTasks(crun[c])
      BY <1>f, <1>h, <2>2
    <3> QED BY <1>f, <1>i, <2>1, <2>2, <3>1
  <2>4. CancellationIsGenuine' /\ DeadlineIffWorking'
    BY <1>i, <2>1
  <2>5. FlagMeansMarked'
    <3>1. \A w \in Workers : Working(w) /\ runOf[wfuture[w]] = crun[c] =>
             wfuture[w] \in RunningTasks(crun[c])
      BY <1>f, <1>h DEF RunningTasks
    <3> QED BY <1>f, <1>h, <1>i, <2>1, <3>1
  <2>6. MarkedStaysCancelled'
    BY <1>i, <2>1, <2>2
  <2> QED BY <2>3, <2>4, <2>5, <2>6
<1>10. ASSUME NEW c \in Cancellers, cancel_future(c) PROVE Rest'
  <2>1. UNCHANGED <<cancelled, deadline, runOf, wpc, wfuture, stop, marked>>
    BY <1>10 DEF cancel_future, controlVars, workerVars
  <2>2. \A f \in Futures : fstate'[f] \in {"unused", "PENDING"} => fstate[f] \in {"unused", "PENDING"}
    BY <1>10, <1>f, <1>t DEF cancel_future, TypeInv, TypeOK
  <2> QED BY <1>i, <2>1, <2>2
<1>11. ASSUME UNCHANGED <<cancelled, deadline, runOf, fstate, wpc, wfuture, stop, marked>> PROVE Rest'
  BY <1>i, <1>11
<1>12. ASSUME NEW c \in Cancellers, CancellerStep(c) PROVE Rest'
  BY <1>9, <1>10, <1>11, <1>12 DEF CancellerStep, cancel_read, controlVars, poolVars, workerVars
<1>13. ASSUME NEW g \in Readers, ReaderStep(g) PROVE Rest'
  BY <1>11, <1>13 DEF ReaderStep, get_status_read, get_status_cancelled, get_status_done,
     get_status_exception, controlVars, poolVars, workerVars
<1>14. CASE UNCHANGED vars
  BY <1>11, <1>14 DEF vars, controlVars, poolVars, workerVars
<1> HIDE DEF Rest
<1> QED BY <1>1, <1>2, <1>3, <1>4, <1>5, <1>6, <1>7, <1>8, <1>12, <1>13, <1>14 DEF Next, WorkerStep

\* A cancellation that does not find a task running is never charged to a
\* later task of the run.
THEOREM CancellationIsExact == Spec => []CancellationIsGenuine
<1>1. ControlInv => CancellationIsGenuine
  BY DEF ControlInv
<1> QED BY <1>1, ControlInvInit, ControlInvStep, PTL DEF Spec

\* A cancellation that finds a task running is never lost before its end.
THEOREM CancellationIsNeverLost == Spec => []MarkedStaysCancelled
<1>1. ControlInv => MarkedStaysCancelled
  BY DEF ControlInv
<1> QED BY <1>1, ControlInvInit, ControlInvStep, PTL DEF Spec

\* No deadline outlives its execution and none is lost by another one's end.
THEOREM DeadlinesAreOwned == Spec => []DeadlineIffWorking
<1>1. ControlInv => DeadlineIffWorking
  BY DEF ControlInv
<1> QED BY <1>1, ControlInvInit, ControlInvStep, PTL DEF Spec

-----------------------------------------------------------------------------
\* A reader on its way through get_status looks at a future, and asks for its
\* exception only after it saw the future done.
ReadersLookAtFutures ==
    \A g \in Readers :
        /\ gpc[g] # "idle" => gfuture[g] # None
        /\ gpc[g] = "exception" => done(gfuture[g])

\* The inductive invariant behind the answers of get_status: exclusion keeps
\* the future an answer was about as it was when it was looked at.
AnswerInv == ExclusionInv /\ ReadersLookAtFutures /\ TerminalAnswersStayTrue

\* Nobody has asked yet.
LEMMA AnswerInvInit == Init => AnswerInv
BY ExclusionInit DEF Init, AnswerInv, ReadersLookAtFutures, TerminalAnswersStayTrue

\* A look at the future is followed by any number of steps of the pool and of
\* cancellers before the next one; none of them undoes what the look saw.
LEMMA AnswerInvStep == AnswerInv /\ [Next]_vars => AnswerInv'
<1> SUFFICES ASSUME AnswerInv, [Next]_vars PROVE (ReadersLookAtFutures /\ TerminalAnswersStayTrue)'
  BY ExclusionStep DEF AnswerInv
<1> USE NoneAssumption
<1>i. ExclusionInv /\ ReadersLookAtFutures /\ TerminalAnswersStayTrue
  BY DEF AnswerInv
<1>f. /\ futures \in [Runs -> Futures \cup {None}]
      /\ gpc \in [Readers -> ReadPlace]
      /\ gfuture \in [Readers -> Futures \cup {None}]
      /\ answer \in [Readers -> Answer]
      /\ fstate \in [Futures -> FutureState]
  BY <1>i DEF ExclusionInv, TypeInv, TypeOK
<1>d. \A f \in Futures : done(f) => fstate'[f] = fstate[f]
  BY <1>i, DoneStep
<1>1. ASSUME UNCHANGED readVars PROVE (ReadersLookAtFutures /\ TerminalAnswersStayTrue)'
  BY <1>1, <1>d, <1>f, <1>i DEF readVars, ReadersLookAtFutures, TerminalAnswersStayTrue, done
<1>2. ASSUME NEW g \in Readers, NEW r \in Runs, get_status_read(g, r)
      PROVE  (ReadersLookAtFutures /\ TerminalAnswersStayTrue)'
  <2>1. /\ gpc[g] = "idle"
        /\ gfuture' = [gfuture EXCEPT ![g] = futures[r]]
        /\ UNCHANGED fstate
    BY <1>2 DEF get_status_read, poolVars
  <2>2. CASE futures[r] = None
    <3>1. answer' = [answer EXCEPT ![g] = "NONE"] /\ UNCHANGED gpc
      BY <1>2, <2>2 DEF get_status_read
    <3> QED BY <1>f, <1>i, <2>1, <2>2, <3>1 DEF ReadersLookAtFutures, TerminalAnswersStayTrue, done
  <2>3. CASE futures[r] # None
    <3>1. gpc' = [gpc EXCEPT ![g] = "isCancelled"] /\ UNCHANGED answer
      BY <1>2, <2>3 DEF get_status_read
    <3> QED BY <1>f, <1>i, <2>1, <2>3, <3>1
            DEF ReadersLookAtFutures, TerminalAnswersStayTrue, done, ReadPlace
  <2> QED BY <2>2, <2>3
<1>3. ASSUME NEW g \in Readers, get_status_cancelled(g) \/ get_status_done(g) \/ get_status_exception(g)
      PROVE  (ReadersLookAtFutures /\ TerminalAnswersStayTrue)'
  <2>1. gpc[g] # "idle" /\ gfuture[g] \in Futures /\ UNCHANGED <<fstate, gfuture>>
    BY <1>3, <1>f, <1>i DEF get_status_cancelled, get_status_done, get_status_exception, poolVars,
       ReadersLookAtFutures
  <2>2. CASE \E place \in {"isDone", "exception"} :
               LooksAgain(g, place) /\ (place = "exception" => done(gfuture[g]))
    BY <1>f, <1>i, <2>1, <2>2 DEF LooksAgain, ReadersLookAtFutures, TerminalAnswersStayTrue, done
  <2>3. CASE \E text \in Answer :
               /\ Answers(g, text)
               /\ text = "CANCELLED" => fstate[gfuture[g]] = "CANCELLED"
               /\ text = "FAILED" => fstate[gfuture[g]] = "ERROR"
               /\ text = "COMPLETED" => fstate[gfuture[g]] = "OK"
    BY <1>f, <1>i, <2>1, <2>3 DEF Answers, ReadersLookAtFutures, TerminalAnswersStayTrue, done, ReadPlace
  <2>4. CASE get_status_cancelled(g)
    BY <2>2, <2>3, <2>4 DEF get_status_cancelled, Answer
  <2>5. CASE get_status_done(g)
    BY <2>2, <2>3, <2>5 DEF get_status_done, Answer
  <2>6. CASE get_status_exception(g)
    <3>1. fstate[gfuture[g]] \in {"CANCELLED", "ERROR", "OK"}
      BY <1>i, <2>6 DEF get_status_exception, ReadersLookAtFutures, done
    <3> QED BY <2>3, <2>6, <3>1 DEF get_status_exception, Answer
  <2> QED BY <1>3, <2>4, <2>5, <2>6
<1>4. ASSUME NEW g \in Readers, ReaderStep(g) PROVE (ReadersLookAtFutures /\ TerminalAnswersStayTrue)'
  BY <1>2, <1>3, <1>4 DEF ReaderStep
<1>5. ASSUME NEW r \in Runs, submit(r) \/ retry(r) \/ Lapses(r) PROVE UNCHANGED readVars
  BY <1>5 DEF submit, retry, Lapses
<1>6. ASSUME NEW w \in Workers, WorkerStep(w) PROVE UNCHANGED readVars
  BY <1>6 DEF WorkerStep, Pickup, run_controlled_begin, stop_reason_read, stop_reason_clock, TaskEnds,
     run_controlled_finish, SetOutcome
<1>7. ASSUME NEW c \in Cancellers, CancellerStep(c) PROVE UNCHANGED readVars
  BY <1>7 DEF CancellerStep, cancel_read, cancel_mark, cancel_future
<1>8. CASE UNCHANGED vars
  BY <1>1, <1>8 DEF vars
<1> QED BY <1>1, <1>4, <1>5, <1>6, <1>7, <1>8 DEF Next

\* Whatever a canceller or the pool does between the three looks of
\* get_status, a terminal status it returns is, and stays, that of the future.
THEOREM AnswersAreTrue == Spec => []TerminalAnswersStayTrue
<1>1. AnswerInv => TerminalAnswersStayTrue
  BY DEF AnswerInv
<1> QED BY <1>1, AnswerInvInit, AnswerInvStep, PTL DEF Spec

-----------------------------------------------------------------------------
\* Every running future is in the hands of a worker.
RunningIsHeld ==
    \A f \in Futures : fstate[f] = "RUNNING" => \E w \in Workers : wfuture[w] = f

\* The inductive invariant behind the refinement: exclusion, and no running
\* future without a worker (the pool's capacity counts workers).
SlotInv == ExclusionInv /\ RunningIsHeld

\* Nothing runs at the start.
LEMMA SlotInvInit == Init => SlotInv
BY ExclusionInit DEF Init, SlotInv, RunningIsHeld

\* A future runs only in the hands of the worker that picked it up.
LEMMA SlotInvStep == SlotInv /\ [Next]_vars => SlotInv'
<1> SUFFICES ASSUME SlotInv, [Next]_vars PROVE RunningIsHeld'
  BY ExclusionStep DEF SlotInv
<1> USE NoneAssumption
<1>t. TypeInv /\ WorkersHoldRunning /\ RunningIsHeld
  BY DEF SlotInv, ExclusionInv
<1>f. /\ fstate \in [Futures -> FutureState]
      /\ wfuture \in [Workers -> Futures \cup {None}]
  BY <1>t DEF TypeInv, TypeOK
<1>1. ASSUME NEW r \in Runs, submit(r) \/ retry(r) PROVE RunningIsHeld'
  BY <1>f, <1>t, <1>1 DEF submit, retry, executorSubmit, RunningIsHeld, workerVars
<1>2. ASSUME NEW w \in Workers, Pickup(w) PROVE RunningIsHeld'
  <2>1. PICK f \in Futures : f = Head(queue)
    BY <1>2, <1>t DEF Pickup, TypeInv, TypeOK
  <2>2. CASE /\ wfuture[w] = None
             /\ fstate' = [fstate EXCEPT ![f] = "RUNNING"]
             /\ wfuture' = [wfuture EXCEPT ![w] = f]
    BY <1>f, <1>t, <2>2 DEF RunningIsHeld
  <2>3. CASE UNCHANGED <<fstate, workerVars>>
    BY <1>t, <2>3 DEF RunningIsHeld, workerVars
  <2> QED BY <1>2, <1>t, <2>1, <2>2, <2>3 DEF Pickup, Takes, WorkersHoldRunning
<1>3. ASSUME NEW w \in Workers, SetOutcome(w) PROVE RunningIsHeld'
  BY <1>f, <1>t, <1>3 DEF SetOutcome, RunningIsHeld, WorkersHoldRunning
<1>4. ASSUME NEW c \in Cancellers, cancel_future(c) PROVE RunningIsHeld'
  BY <1>f, <1>t, <1>4 DEF cancel_future, RunningIsHeld, workerVars
<1>5. ASSUME UNCHANGED <<fstate, wfuture>> PROVE RunningIsHeld'
  BY <1>t, <1>5 DEF RunningIsHeld
<1>6. ASSUME NEW w \in Workers, WorkerStep(w) PROVE RunningIsHeld'
  BY <1>2, <1>3, <1>5, <1>6 DEF WorkerStep, run_controlled_begin, stop_reason_read,
     stop_reason_clock, TaskEnds, run_controlled_finish, poolVars
<1>7. ASSUME NEW c \in Cancellers, CancellerStep(c) PROVE RunningIsHeld'
  BY <1>4, <1>5, <1>7 DEF CancellerStep, cancel_read, cancel_mark, poolVars, workerVars
<1>8. ASSUME NEW g \in Readers, ReaderStep(g) PROVE RunningIsHeld'
  BY <1>5, <1>8 DEF ReaderStep, get_status_read, get_status_cancelled, get_status_done,
     get_status_exception, poolVars, workerVars
<1>9. ASSUME NEW r \in Runs, Lapses(r) PROVE RunningIsHeld'
  BY <1>5, <1>9 DEF Lapses, poolVars, workerVars
<1>10. CASE UNCHANGED vars
  BY <1>5, <1>10 DEF vars, poolVars, workerVars
<1> QED BY <1>1, <1>6, <1>7, <1>8, <1>9, <1>10 DEF Next

\* RunSlots counts with the Cardinality of its own instance of FiniteSets.
LEMMA SameCardinality == ASSUME NEW S PROVE Slots!Cardinality(S) = Cardinality(S)
BY DEF Slots!Cardinality, Cardinality

\* An idle worker leaves room in the pool: the executing runs map one to one
\* into the workers, and none of them to the idle one.
LEMMA RoomForOne ==
    ASSUME SlotInv, NEW w \in Workers, wpc[w] = "idle"
    PROVE  Cardinality(Slots!Executing) < Cardinality(Workers)
<1> DEFINE Busy == Slots!Executing
           holder == [r \in Busy |-> CHOOSE v \in Workers : wfuture[v] = futures[r]]
<1>1. \A r \in Busy : r \in Runs /\ futures[r] \in Futures /\ fstate[futures[r]] = "RUNNING"
  BY DEF Slots!Executing, SlotOf, Free, done, SlotInv, ExclusionInv, FuturesKnowRuns, TypeInv,
     TypeOK, FutureState
<1>2. \A r \in Busy : holder[r] \in Workers /\ wfuture[holder[r]] = futures[r]
  BY <1>1 DEF SlotInv, RunningIsHeld
<1>3. \A q, r \in Busy : futures[q] = futures[r] => q = r
  BY <1>1, NoneAssumption DEF SlotInv, ExclusionInv, FuturesKnowRuns
<1>4. holder \in Injection(Busy, Workers)
  BY <1>2, <1>3 DEF Injection, IsInjective
<1>5. \A r \in Busy : holder[r] # w
  BY <1>1, <1>2, NoneAssumption DEF SlotInv, ExclusionInv, WorkersHoldRunning
<1>6. holder \notin Surjection(Busy, Workers)
  BY <1>5 DEF Surjection
<1>7. /\ IsFiniteSet(Busy)
      /\ Cardinality(Busy) <= Cardinality(Workers)
      /\ Cardinality(Busy) # Cardinality(Workers)
  BY <1>4, <1>6, FS_Injection, WorkersAssumption
<1>8. Cardinality(Busy) \in Nat /\ Cardinality(Workers) \in Nat
  BY <1>7, FS_CardinalityType, WorkersAssumption
<1> QED BY <1>7, <1>8

\* Every step of the runner is, slot by slot, a step of RunSlots or none.
LEMMA SlotStep == SlotInv /\ SlotInv' /\ [Next]_vars => [Slots!Next]_([r \in Runs |-> SlotOf(r)])
<1> DEFINE slots == [r \in Runs |-> SlotOf(r)]
<1> SUFFICES ASSUME SlotInv, SlotInv', [Next]_vars PROVE Slots!Next \/ slots' = slots
  OBVIOUS
<1> USE NoneAssumption
<1>t. TypeInv /\ LiveFutureRegistered /\ WorkersHoldRunning /\ FuturesKnowRuns
  BY DEF SlotInv, ExclusionInv
<1>f. /\ futures \in [Runs -> Futures \cup {None}]
      /\ fstate \in [Futures -> FutureState]
  BY <1>t DEF TypeInv, TypeOK
<1> USE DEF SlotOf, Free, done
<1>1. ASSUME NEW r \in Runs, submit(r) \/ retry(r) PROVE Slots!Admit(r)
  <2>1. PICK f \in Futures :
           /\ fstate[f] = "unused"
           /\ fstate' = [fstate EXCEPT ![f] = "PENDING"]
           /\ futures' = [futures EXCEPT ![r] = f]
    BY <1>1 DEF submit, retry, executorSubmit
  <2>2. slots[r] = "idle"
    BY <1>1 DEF submit, retry
  <2>3. \A q \in Runs : slots'[q] = [slots EXCEPT ![r] = "waiting"][q]
    BY <1>f, <1>t, <2>1 DEF FuturesKnowRuns
  <2> QED BY <2>2, <2>3 DEF Slots!Admit
<1>2. ASSUME NEW w \in Workers, Pickup(w) PROVE (\E r \in Runs : Slots!Start(r)) \/ slots' = slots
  <2>1. PICK f \in Futures : f = Head(queue)
    BY <1>2, <1>t DEF Pickup, TypeInv, TypeOK
  <2>2. CASE fstate[f] = "PENDING"
    <3> DEFINE r == runOf[f]
    <3>1. /\ UNCHANGED futures
          /\ fstate' = [fstate EXCEPT ![f] = "RUNNING"]
          /\ wpc[w] = "idle"
      BY <1>2, <2>1, <2>2 DEF Pickup, Takes
    <3>2. r \in Runs /\ futures[r] = f
      BY <1>t, <2>2 DEF LiveFutureRegistered, FuturesKnowRuns
    <3>3. slots[r] = "waiting"
      BY <2>2, <3>2
    <3>4. \A q \in Runs : slots'[q] = [slots EXCEPT ![r] = "executing"][q]
      BY <1>f, <1>t, <2>2, <3>1, <3>2 DEF FuturesKnowRuns
    <3>5. Cardinality(Slots!Executing) < Cardinality(Workers)
      BY <3>1, RoomForOne
    <3> QED BY <3>2, <3>3, <3>4, <3>5, SameCardinality DEF Slots!Start
  <2>3. CASE UNCHANGED <<fstate, futures>>
    BY <2>3
  <2> QED BY <1>2, <2>1, <2>2, <2>3 DEF Pickup
<1>3. ASSUME NEW w \in Workers, SetOutcome(w) PROVE \E r \in Runs : Slots!End(r)
  <2> DEFINE f == wfuture[w]
             r == runOf[f]
  <2>1. f \in Futures /\ fstate[f] = "RUNNING" /\ UNCHANGED futures
    BY <1>3, <1>t DEF SetOutcome, WorkersHoldRunning, TypeInv, TypeOK
  <2>2. PICK outcome \in {"OK", "ERROR"} : fstate' = [fstate EXCEPT ![f] = outcome]
    BY <1>3 DEF SetOutcome
  <2>3. r \in Runs /\ futures[r] = f
    BY <1>t, <2>1 DEF LiveFutureRegistered, FuturesKnowRuns
  <2>4. \A q \in Runs : slots'[q] = [slots EXCEPT ![r] = "idle"][q]
    BY <1>f, <1>t, <2>1, <2>2, <2>3 DEF FuturesKnowRuns
  <2> QED BY <2>1, <2>3, <2>4 DEF Slots!End
<1>4. ASSUME NEW c \in Cancellers, cancel_future(c)
      PROVE  (\E r \in Runs : Slots!Drop(r)) \/ slots' = slots
  <2>1. CASE cfuture[c] # None /\ fstate[cfuture[c]] = "PENDING"
    <3> DEFINE f == cfuture[c]
               r == runOf[f]
    <3>1. f \in Futures /\ UNCHANGED futures /\ fstate' = [fstate EXCEPT ![f] = "CANCELLED"]
      BY <1>4, <1>t, <2>1 DEF cancel_future, TypeInv, TypeOK
    <3>2. r \in Runs /\ futures[r] = f
      BY <1>t, <2>1, <3>1 DEF LiveFutureRegistered, FuturesKnowRuns
    <3>3. slots[r] = "waiting"
      BY <2>1, <3>2
    <3>4. \A q \in Runs : slots'[q] = [slots EXCEPT ![r] = "idle"][q]
      BY <1>f, <1>t, <2>1, <3>1, <3>2 DEF FuturesKnowRuns
    <3> QED BY <3>2, <3>3, <3>4 DEF Slots!Drop
  <2>2. CASE UNCHANGED <<fstate, futures>>
    BY <2>2
  <2> QED BY <1>4, <2>1, <2>2 DEF cancel_future
<1>5. ASSUME UNCHANGED <<fstate, futures>> PROVE slots' = slots
  BY <1>5
<1>6. ASSUME NEW w \in Workers, WorkerStep(w)
      PROVE  (\E r \in Runs : Slots!Start(r) \/ Slots!End(r)) \/ slots' = slots
  BY <1>2, <1>3, <1>5, <1>6 DEF WorkerStep, run_controlled_begin, stop_reason_read,
     stop_reason_clock, TaskEnds, run_controlled_finish, poolVars
<1>7. ASSUME NEW c \in Cancellers, CancellerStep(c)
      PROVE  (\E r \in Runs : Slots!Drop(r)) \/ slots' = slots
  BY <1>4, <1>5, <1>7 DEF CancellerStep, cancel_read, cancel_mark, poolVars
<1>8. ASSUME NEW g \in Readers, ReaderStep(g) PROVE slots' = slots
  BY <1>5, <1>8 DEF ReaderStep, get_status_read, get_status_cancelled, get_status_done,
     get_status_exception, poolVars
<1>9. ASSUME NEW r \in Runs, Lapses(r) PROVE slots' = slots
  BY <1>5, <1>9 DEF Lapses, poolVars
<1>10. CASE UNCHANGED vars
  BY <1>5, <1>10 DEF vars, poolVars
<1> HIDE DEF slots
<1> QED BY <1>1, <1>6, <1>7, <1>8, <1>9, <1>10 DEF Next, Slots!Next

\* The runner implements RunSlots: whatever futures, queue and threads do, a
\* run's slot is filled only when idle, started once, shared by no two
\* executions, and at most max_workers runs execute together.
THEOREM RunnerImplementsSlots == Spec => ImplementsRunSlots
<1>1. Init => Slots!Init
  BY NoneAssumption DEF Init, Slots!Init, SlotOf, Free, done
<1>2. Spec => []SlotInv
  BY SlotInvInit, SlotInvStep, PTL DEF Spec
<1> QED BY <1>1, <1>2, SlotStep, PTL DEF Spec, Slots!Spec, ImplementsRunSlots

=============================================================================
