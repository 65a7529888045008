--------------------- MODULE AnalysisServiceLife_proofs ---------------------
(***************************************************************************)
(* The proof that AnalysisService implements RunLifecycle, from the         *)
(* inductive invariant IInv of AnalysisService_proofs: every step changes   *)
(* the tables of at most one run, in one of five ways, and each of them is  *)
(* a step of that run's life or leaves it as it is.  Then what pollers are  *)
(* told of runs, where no two runs share a key.                            *)
(***************************************************************************)
EXTENDS AnalysisService_proofs

\* The life of a run.
ResultsOf(r) == {x \in results : x.run = r}

\* A run with a result shows that result's status.
Shown(r) ==
    /\ get(r) = ResultsOf(r)
    /\ Pristine(r) => result_status(r) = None
    /\ ~Pristine(r) => result_status(r) \in Terminal

AllShown == \A r \in Runs : Shown(r)

\* The status shown is that of the run's only result.
LEMMA ShownStatus == IInv => AllShown
<1> SUFFICES ASSUME IInv, NEW r \in Runs PROVE Shown(r)
  BY DEF AllShown
<1>1. TypeOK /\ HandsOf(r)
  BY DEF IInv, HandsInv
<1>2. CASE Pristine(r)
  BY <1>2 DEF Shown, get, ResultsOf, Pristine, result_status
<1>3. CASE ~Pristine(r)
  <2>1. Versions(r) = {1}
    BY <1>1, <1>3 DEF Versions, Pristine, HandsOf
  <2>2. Max({1}) = 1
    BY DEF Max
  <2>3. get(r) = ResultsOf(r)
    BY <1>1, <2>1, <2>2 DEF get, ResultsOf, HandsOf
  <2>4. PICK x \in results : x.run = r
    BY <1>3 DEF Pristine
  <2>5. get(r) # {} /\ get(r) \subseteq Result
    BY <1>1, <2>3, <2>4 DEF ResultsOf, TypeOK, TablesOK
  <2>6. (CHOOSE y \in get(r) : TRUE) \in Result
    BY <2>5
  <2>7. result_status(r) \in Terminal
    BY <2>5, <2>6 DEF result_status, Result, Terminal
  <2> QED BY <1>3, <2>3, <2>7 DEF Shown
<1> QED BY <1>2, <1>3

\* What a client is shown of a run, by cases.
LifeByCases(r) ==
    /\ row[r] = None => life[r] = "unknown"
    /\ ~Pristine(r) => life[r] = result_status(r) /\ life[r] \in Terminal
    /\ row[r] # None /\ Pristine(r) /\ job[r] = None => life[r] = "accepted"
    /\ row[r] # None /\ Pristine(r) /\ job[r] # None =>
          life[r] = IF job[r].status \in Terminal THEN job[r].status ELSE "accepted"

AllByCases == \A r \in Runs : LifeByCases(r)

\* The life of a run, read off its tables.
LEMMA LifeCases == IInv => AllByCases
<1> SUFFICES ASSUME IInv, NEW r \in Runs PROVE LifeByCases(r)
  BY DEF AllByCases
<1>1. HandsOf(r) /\ OpenInv /\ None \notin JobStatus
  BY ServiceAssumption DEF IInv, HandsInv
<1>2. None \notin Terminal /\ "QUEUED" \notin Terminal
  BY <1>1 DEF JobStatus, Terminal, ResultStatus
<1>3. CASE row[r] = None
  BY <1>1, <1>3 DEF life, HandsOf, LifeByCases
<1>4. CASE row[r] # None /\ ~Pristine(r)
  <2>1. result_status(r) \in Terminal
    BY <1>4, ShownStatus DEF AllShown, Shown
  <2> QED BY <1>2, <1>4, <2>1 DEF life, answered_status, LifeByCases
<1>5. CASE row[r] # None /\ Pristine(r)
  <2>1. result_status(r) = None
    BY <1>5, ShownStatus DEF AllShown, Shown
  <2>2. job[r] = None => row[r] = "QUEUED"
    BY <1>1, <1>5 DEF OpenInv
  <2> QED BY <1>2, <1>5, <2>1, <2>2 DEF life, answered_status, LifeByCases
<1> QED BY <1>3, <1>4, <1>5

\* What a step may do to what a client is shown of a run.
LifeStep(r) ==
    \/ life'[r] = life[r]
    \/ life[r] = "unknown" /\ life'[r] = "accepted"
    \/ life[r] = "accepted" /\ life'[r] \in Terminal

\* Everything the life of a run depends on.
SameTables(r) == row'[r] = row[r] /\ job'[r] = job[r] /\ ResultsOf(r)' = ResultsOf(r)

\* The same in the next state.
LEMMA ShownNext == IInv' => AllShown'
  BY ShownStatus, PTL

\* A run whose tables stay the same lives on unchanged.
LEMMA LifeFrame ==
    ASSUME IInv, IInv', NEW r \in Runs, SameTables(r)
    PROVE  life'[r] = life[r]
<1>1. get(r)' = get(r)
  <2>1. Shown(r) /\ Shown(r)'
    BY ShownStatus, ShownNext DEF AllShown
  <2>2. get(r) = ResultsOf(r) /\ get(r)' = ResultsOf(r)'
    BY <2>1 DEF Shown
  <2> QED BY <2>2 DEF SameTables
<1>2. result_status(r)' = result_status(r)
  BY <1>1 DEF result_status
<1> QED BY <1>2 DEF SameTables, life, answered_status

\* The cases in the next state.
LEMMA CasesNext == IInv' => AllByCases'
  BY LifeCases, PTL

\* The ways in which a step changes the tables of a run.
SetsRow(r) == row[r] # None /\ row'[r] # None /\ job'[r] = job[r] /\ ResultsOf(r)' = ResultsOf(r)
CreatesRow(r) == row[r] = None /\ job'[r] = job[r] /\ ResultsOf(r)' = ResultsOf(r)
CreatesJob(r) == /\ row[r] # None /\ row'[r] = row[r] /\ ResultsOf(r)' = ResultsOf(r)
                 /\ job[r] = None /\ job'[r] # None /\ job'[r].status \in Open
SetsJob(r) == /\ row[r] # None /\ row'[r] = row[r] /\ ResultsOf(r)' = ResultsOf(r)
              /\ job[r] # None /\ job'[r] # None /\ MayWrite(r)
StoresResult(r) == /\ row[r] # None /\ row'[r] = row[r] /\ Pristine(r) /\ ~Pristine(r)'
                   /\ job[r] # None /\ MayWrite(r)

TablesMove(r) == SetsRow(r) \/ CreatesRow(r) \/ CreatesJob(r) \/ SetsJob(r) \/ StoresResult(r)

\* Each of the ways is a step of the run's life, or none.
LEMMA MoveIsLifeStep ==
    ASSUME IInv, IInv', NEW r \in Runs, TablesMove(r)
    PROVE  LifeStep(r)
<1>1. LifeByCases(r) /\ LifeByCases(r)'
  BY LifeCases, CasesNext DEF AllByCases
<1>2. Shown(r) /\ Shown(r)'
  BY ShownStatus, ShownNext DEF AllShown
<1>3. ResultsOf(r)' = ResultsOf(r) => Pristine(r)' = Pristine(r) /\ result_status(r)' = result_status(r)
  <2>1. ASSUME ResultsOf(r)' = ResultsOf(r) PROVE Pristine(r)' = Pristine(r)
    BY <2>1 DEF ResultsOf, Pristine
  <2>2. ASSUME ResultsOf(r)' = ResultsOf(r) PROVE get(r)' = get(r)
    BY <1>2, <2>2 DEF Shown
  <2> QED BY <2>1, <2>2 DEF result_status
<1>4. Open \cap Terminal = {}
  BY DEF Open, Terminal, ResultStatus
<1>5. job'[r] # None => job'[r].status \in JobStatus
  BY DEF IInv, TypeOK, TablesOK, Job
<1>6. JobStatus = Open \cup Terminal
  BY DEF JobStatus, Open
<1>7. row[r] = None => job[r] = None /\ Pristine(r)
  BY DEF IInv, HandsInv, HandsOf
<1>8. CASE ~Pristine(r) /\ ~Pristine(r)' /\ ~StoresResult(r)
  <2>1. ResultsOf(r)' = ResultsOf(r)
    BY <1>8 DEF TablesMove, SetsRow, CreatesRow, CreatesJob, SetsJob
  <2> QED BY <1>1, <1>3, <1>8, <2>1 DEF LifeByCases, LifeStep
<1>9. CASE Pristine(r)
  <2>1. CASE SetsRow(r)
    BY <1>1, <1>3, <1>9, <2>1 DEF SetsRow, LifeByCases, LifeStep
  <2>2. CASE CreatesRow(r)
    BY <1>1, <1>3, <1>7, <1>9, <2>2 DEF CreatesRow, LifeByCases, LifeStep
  <2>3. CASE CreatesJob(r)
    BY <1>1, <1>3, <1>4, <1>9, <2>3 DEF CreatesJob, LifeByCases, LifeStep
  <2>4. CASE SetsJob(r)
    <3>1. job[r].status \in Open
      BY <1>9, <2>4 DEF SetsJob, IInv, OpenInv
    <3>2. life[r] = "accepted"
      BY <1>1, <1>4, <1>9, <2>4, <3>1 DEF SetsJob, LifeByCases
    <3>3. life'[r] = "accepted" \/ life'[r] \in Terminal
      BY <1>1, <1>3, <1>9, <2>4 DEF SetsJob, LifeByCases
    <3> QED BY <3>2, <3>3 DEF LifeStep
  <2>5. CASE StoresResult(r)
    <3>1. job[r].status \in Open
      BY <1>9, <2>5 DEF StoresResult, IInv, OpenInv
    <3>2. life[r] = "accepted"
      BY <1>1, <1>4, <1>9, <2>5, <3>1 DEF StoresResult, LifeByCases
    <3>3. life'[r] \in Terminal
      BY <1>1, <2>5 DEF StoresResult, LifeByCases
    <3> QED BY <3>2, <3>3 DEF LifeStep
  <2> QED BY <2>1, <2>2, <2>3, <2>4, <2>5 DEF TablesMove
<1> QED BY <1>3, <1>8, <1>9 DEF TablesMove, SetsRow, CreatesRow, CreatesJob, SetsJob, StoresResult

\* A step moves the tables of one run.
MovesOne == \E r \in Runs : TablesMove(r) /\ \A q \in Runs : q # r => SameTables(q)

\* Task steps move the tables of their run.
LEMMA TaskMoves ==
    ASSUME IInv, NEW r \in Runs, TaskStep(r)
    PROVE  MovesOne \/ UNCHANGED tableVars
<1>1. TypeOK /\ PlacesInv /\ KeysInv /\ HandsInv /\ Active(r) /\ r \in Executors /\ r \notin Clients
  BY ServiceAssumption
     DEF IInv, TaskStep, task_starts, task_running, task_done, task_failed_run, task_failed_job, Active, Executors
<1>2. ereq[r].run = r
  BY <1>1 DEF PlacesInv
<1>3. row[r] # None /\ job[r] # None
  BY <1>1, <1>2 DEF HandsInv, HandsOf, KeysInv, HasJob
<1>4. MayWrite(r)
  BY <1>1, <1>2 DEF MayWrite
<1>5. CASE task_starts(r)
  BY <1>5 DEF task_starts
<1>6. CASE task_failed_run(r)
  <2>1. UNCHANGED <<results, job>> /\ row' = [row EXCEPT ![r] = "FAILED"]
    BY <1>3, <1>6 DEF task_failed_run, update_run
  <2>2. row'[r] # None /\ \A q \in Runs : q # r => row'[q] = row[q]
    BY <1>1, <2>1, ServiceAssumption DEF TypeOK, TablesOK, JobStatus, Terminal, ResultStatus
  <2> QED BY <1>3, <2>1, <2>2 DEF MovesOne, TablesMove, SetsRow, SameTables, ResultsOf
<1>7. CASE task_running(r) \/ task_done(r) \/ task_failed_job(r)
  <2>1. UNCHANGED <<results, row>> /\ \A q \in Runs : q # r => job'[q] = job[q]
    BY <1>1, <1>2, <1>7 DEF task_running, task_done, task_failed_job, update_job, TypeOK, TablesOK
  <2>2. job'[r] # None
    BY <1>3, TaskJobs DEF JobsKept
  <2> QED BY <1>3, <1>4, <2>1, <2>2 DEF MovesOne, TablesMove, SetsJob, SameTables, ResultsOf
<1> QED BY <1>5, <1>6, <1>7 DEF TaskStep

\* So do the ends of synchronous requests.
LEMMA SyncMoves ==
    ASSUME IInv, NEW c \in Clients, SyncStep(c)
    PROVE  MovesOne \/ UNCHANGED tableVars
<1>1. TypeOK /\ PlacesInv /\ KeysInv /\ HandsInv /\ Active(c) /\ c \in Executors
  BY DEF IInv, SyncStep, sync_done, sync_failed_job, sync_failed_run, legacy_sync_done, legacy_sync_failed,
     Active, Executors
<1>2. PICK r \in Runs : r = creq[c].run /\ r = ereq[c].run
  BY <1>1, RunsNamed DEF PlacesInv
<1>3. row[r] # None /\ job[r] # None
  BY <1>1, <1>2 DEF HandsInv, HandsOf, KeysInv, HasJob
<1>4. CASE sync_failed_run(c)
  <2>1. UNCHANGED <<results, job>> /\ row' = [row EXCEPT ![r] = "FAILED"]
    BY <1>2, <1>3, <1>4 DEF sync_failed_run, update_run
  <2>2. row'[r] # None /\ \A q \in Runs : q # r => row'[q] = row[q]
    BY <1>1, <2>1, ServiceAssumption DEF TypeOK, TablesOK, JobStatus, Terminal, ResultStatus
  <2> QED BY <1>3, <2>1, <2>2 DEF MovesOne, TablesMove, SetsRow, SameTables, ResultsOf
<1>5. CASE sync_done(c) \/ sync_failed_job(c)
  <2>1. UNCHANGED <<results, row>> /\ \A q \in Runs : q # r => job'[q] = job[q]
    BY <1>1, <1>2, <1>5 DEF sync_done, sync_failed_job, update_job, TypeOK, TablesOK
  <2>2. job'[r] # None
    BY <1>3, SyncJobs DEF JobsKept
  <2>3. MayWrite(r)
    BY <1>1, <1>2, <1>5 DEF MayWrite, sync_done, sync_failed_job
  <2> QED BY <1>3, <2>1, <2>2, <2>3 DEF MovesOne, TablesMove, SetsJob, SameTables, ResultsOf
<1> QED BY <1>4, <1>5 DEF SyncStep, legacy_sync_done, legacy_sync_failed

\* So do pipeline steps.
LEMMA PipelineMoves ==
    ASSUME IInv, NEW e \in Executors, PipelineStep(e)
    PROVE  MovesOne \/ UNCHANGED tableVars
<1>1. TypeOK /\ PlacesInv /\ KeysInv /\ HandsInv /\ Active(e) /\ UNCHANGED job
  BY DEF IInv, PipelineStep, key_check, research_starts, research_ends, research_skipped, draw_version,
     save_check, save_insert, audit_saved, report, raises, Active, tableVars
<1>2. PICK r \in Runs : r = ereq[e].run
  BY <1>1, RunsNamed
<1>3. row[r] # None /\ job[r] # None
  BY <1>1, <1>2 DEF HandsInv, HandsOf, KeysInv, HasJob
<1>4. CASE \E status \in JobStatus : update_run(r, status) /\ UNCHANGED results
  <2>1. PICK status \in JobStatus : row' = [row EXCEPT ![r] = status] /\ UNCHANGED results
    BY <1>3, <1>4 DEF update_run
  <2>2. row'[r] # None /\ \A q \in Runs : q # r => row'[q] = row[q]
    BY <1>1, <2>1, ServiceAssumption DEF TypeOK, TablesOK
  <2> QED BY <1>1, <1>3, <2>1, <2>2 DEF MovesOne, TablesMove, SetsRow, SameTables, ResultsOf
<1>5. CASE save_insert(e) /\ ~UNCHANGED results
  <2>1. epc[e] = "insert" /\ UNCHANGED row
    BY <1>5 DEF save_insert
  <2>2. PICK x : x.run = r /\ results' = results \cup {x}
    BY <1>2, <1>5 DEF save_insert, insert
  <2>3. Pristine(r) /\ MayWrite(r) /\ ~Pristine(r)'
    BY <1>1, <1>2, <2>1, <2>2 DEF HandsInv, HandsOf, Core, MayWrite, Pristine
  <2>4. \A q \in Runs : q # r => ResultsOf(q)' = ResultsOf(q)
    BY <2>2 DEF ResultsOf
  <2> QED BY <1>1, <1>3, <2>1, <2>3, <2>4 DEF MovesOne, TablesMove, StoresResult, SameTables
<1>6. epc[e] = "audit" => esaved[e].status \in JobStatus
  BY <1>1 DEF KeysInv, Saved, TypeOK, TablesOK, Result, JobStatus, Terminal
<1> QED BY <1>1, <1>2, <1>4, <1>5, <1>6
    DEF PipelineStep, key_check, research_starts, research_ends, research_skipped, draw_version, save_check,
        save_insert, audit_saved, report, raises, tableVars, JobStatus, Terminal, ResultStatus

\* So do handler steps.
LEMMA HandlerMoves ==
    ASSUME IInv, NEW c \in Clients, HandlerStep(c)
    PROVE  MovesOne \/ UNCHANGED tableVars
<1>1. TypeOK /\ PlacesInv /\ KeysInv /\ HandsInv
  BY DEF IInv
<1>2. PICK r \in Runs : r = creq[c].run
  BY <1>1, HandlerHasRequest
<1>3. Holds(c) => row[r] # None
  BY <1>1, <1>2 DEF HandsInv, HandsOf
<1>4. CASE create_run(c)
  <2>1. UNCHANGED <<results, job>> /\ (UNCHANGED row \/ (row[r] = None /\ row' = [row EXCEPT ![r] = "QUEUED"]))
    BY <1>2, <1>4 DEF create_run
  <2>2. CASE row[r] = None /\ row' = [row EXCEPT ![r] = "QUEUED"]
    <3>1. \A q \in Runs : q # r => row'[q] = row[q]
      BY <1>1, <2>2 DEF TypeOK, TablesOK
    <3> QED BY <2>1, <2>2, <3>1 DEF MovesOne, TablesMove, CreatesRow, SameTables, ResultsOf
  <2> QED BY <2>1, <2>2 DEF tableVars
<1>5. CASE create_job(c)
  <2> DEFINE new == [status |-> "QUEUED", key |-> idempotency(creq[c]), error |-> FALSE]
  <2>1. job[r] = None /\ Holds(c) /\ job' = [job EXCEPT ![r] = new] /\ UNCHANGED <<results, row>>
    BY <1>1, <1>2, <1>5 DEF create_job, KeysInv, Holds
  <2>2. new \in Job /\ new.status \in Open
    BY <1>1, <1>5, HandlerHasRequest, KeyType DEF HandlerStep, Job, JobStatus, Open
  <2>3. new # None
    BY <2>2, ServiceAssumption
  <2> HIDE DEF new
  <2>4. job'[r] # None /\ job'[r].status \in Open /\ \A q \in Runs : q # r => job'[q] = job[q]
    BY <1>1, <2>1, <2>2, <2>3 DEF TypeOK, TablesOK
  <2> QED BY <1>3, <2>1, <2>4 DEF MovesOne, TablesMove, CreatesJob, SameTables, ResultsOf
<1>6. CASE sync_running(c)
  <2>1. Holds(c) /\ HasJob(creq[c]) /\ UNCHANGED <<results, row>> /\ update_job(r, "RUNNING", FALSE)
    BY <1>1, <1>2, <1>6 DEF sync_running, KeysInv, Holds
  <2>2. job[r] # None /\ job'[r] # None /\ MayWrite(r) /\ \A q \in Runs : q # r => job'[q] = job[q]
    BY <1>1, <1>2, <2>1, JobUpdate DEF HasJob, MayWrite, JobStatus, TypeOK, TablesOK
  <2> QED BY <1>3, <2>1, <2>2 DEF MovesOne, TablesMove, SetsJob, SameTables, ResultsOf
<1>7. CASE legacy_sync_closes(c)
  <2>1. job[r] # None /\ UNCHANGED <<results, job>> /\ update_run(r, "COMPLETED")
    BY <1>1, <1>2, <1>7 DEF legacy_sync_closes, KeysInv
  <2>2. row[r] # None
    BY <1>1, <2>1 DEF HandsInv, HandsOf
  <2>3. row'[r] # None /\ \A q \in Runs : q # r => row'[q] = row[q]
    BY <1>1, <2>1, <2>2, ServiceAssumption DEF update_run, TypeOK, TablesOK, JobStatus, Terminal, ResultStatus
  <2> QED BY <2>1, <2>2, <2>3 DEF MovesOne, TablesMove, SetsRow, SameTables, ResultsOf
<1> QED BY <1>4, <1>5, <1>6, <1>7
    DEF HandlerStep, check_submission_lookup, check_submission_run, submit, tableVars

\* One step of the service is one step of the run's life, or none.
LEMMA LifecycleStep == IInv /\ IInv' /\ [Next]_vars => [Lifecycle!Next]_life
<1> SUFFICES ASSUME IInv, IInv', [Next]_vars PROVE [Lifecycle!Next]_life
  OBVIOUS
<1>1. MovesOne \/ UNCHANGED tableVars
  <2>1. CASE UNCHANGED vars
    BY <2>1 DEF vars
  <2>2. ASSUME NEW c \in Clients, Arrive(c) PROVE UNCHANGED tableVars
    BY <2>2 DEF Arrive
  <2>3. ASSUME NEW p \in Pollers, PollStep(p) PROVE UNCHANGED tableVars
    BY <2>3 DEF PollStep, poll_row, poll_result, poll_job
  <2>4. CASE Mishap
    BY <2>4 DEF Mishap, task_write_fails, handler_write_fails, Restart
  <2> QED BY <2>1, <2>2, <2>3, <2>4, HandlerMoves, SyncMoves, PipelineMoves, TaskMoves DEF Next
<1>2. life = [r \in Runs |-> life[r]] /\ life' = [r \in Runs |-> life'[r]]
  BY DEF life
<1>3. CASE UNCHANGED tableVars
  <2>1. \A r \in Runs : SameTables(r)
    BY <1>3 DEF tableVars, SameTables, ResultsOf
  <2> QED BY <1>2, <2>1, LifeFrame
<1>4. CASE MovesOne
  <2>1. PICK r \in Runs : TablesMove(r) /\ \A q \in Runs : q # r => SameTables(q)
    BY <1>4 DEF MovesOne
  <2>2. \A q \in Runs : q # r => life'[q] = life[q]
    BY <2>1, LifeFrame
  <2>3. LifeStep(r)
    BY <2>1, MoveIsLifeStep
  <2> DEFINE s == life'[r]
  <2>4. life' = [life EXCEPT ![r] = s]
    BY <1>2, <2>2
  <2>5. CASE life'[r] = life[r]
    BY <1>2, <2>2, <2>5
  <2>6. CASE life[r] = "unknown" /\ life'[r] = "accepted"
    BY <2>4, <2>6 DEF Lifecycle!Next, Lifecycle!Accept
  <2>7. CASE life[r] = "accepted" /\ life'[r] \in Terminal
    BY <2>4, <2>7 DEF Lifecycle!Next, Lifecycle!Settle
  <2> QED BY <2>3, <2>5, <2>6, <2>7 DEF LifeStep
<1> QED BY <1>1, <1>3, <1>4

\* The service implements RunLifecycle: what the tables say of a run goes from
\* unknown to accepted to one terminal status, once, whatever submissions,
\* failures, resubmissions and restarts do to the three tables.
THEOREM ServiceImplementsLifecycle == Spec => ImplementsRunLifecycle
<1>1. Init => Lifecycle!Init
  BY DEF Init, life, Lifecycle!Init
<1>2. Spec => []IInv
  BY Invariance
<1> QED BY <1>1, <1>2, LifecycleStep, PTL DEF Spec, Lifecycle!Spec, ImplementsRunLifecycle

-----------------------------------------------------------------------------
(* Status polling.  get_analysis reads the row, the result and the job in   *)
(* three transactions, and anything may happen between them.                *)

\* No two runs are requested with one key.  An Idempotency-Key that is sent
\* for two runs breaks it; a key that is derived from the request never does.
KeysAreOwn ==
    \A c, d \in Clients :
        creq[c] # None /\ creq[d] # None /\ idempotency(creq[c]) = idempotency(creq[d])
            => creq[c].run = creq[d].run

\* A job has the key of a request of its run.
JobsWereAsked ==
    \A r \in Runs : job[r] # None =>
        \E c \in Clients : creq[c] # None /\ creq[c].run = r /\ idempotency(creq[c]) = job[r].key

OneResultPerRun == \A x, y \in results : x.run = y.run => x = y

HasResult(r, status) == \E x \in results : x.run = r /\ x.status = status
Openable(p) == told[p] # None /\ told[p].status \in {"COMPLETED", "PARTIAL"}

\* What a poller has read still holds, and it has read what it was told.
Reading(p) ==
    poll[p] # None =>
        /\ poll[p].row # "QUEUED" => job[poll[p].run] # None
        /\ poll[p].result # None => HasResult(poll[p].run, poll[p].result)
        /\ poll[p].at = "job" /\ Openable(p) /\ told[p].run = poll[p].run => poll[p].result # None

\* A client that is still to come has no request.
StillToCome == \A c \in Clients : cpc[c] = "idle" => creq[c] = None

PollsInv ==
    IInv /\ StillToCome /\ JobsWereAsked /\ OneResultPerRun /\ (\A p \in Pollers : Reading(p)) /\ OpenableAnswersHaveResult

\* Results stay, jobs stay under their keys, and requests stay.
Grows ==
    /\ results \subseteq results'
    /\ \A r \in Runs : job[r] # None => job'[r] # None /\ job'[r].key = job[r].key
    /\ \A c \in Clients : creq[c] # None => creq'[c] = creq[c]

\* No client goes back, and only one that arrives takes a request.
LEMMA RequestsStay ==
    ASSUME IInv, StillToCome, [Next]_vars
    PROVE  /\ \A c \in Clients : creq[c] # None => creq'[c] = creq[c]
           /\ StillToCome'
<1>1. TypeOK /\ PlacesInv
  BY DEF IInv
<1>2. ASSUME NEW c \in Clients, Arrive(c)
      PROVE  (\A d \in Clients : creq[d] # None => creq'[d] = creq[d]) /\ StillToCome'
  <2>1. creq[c] = None /\ cpc' = [cpc EXCEPT ![c] = "lookup"]
    BY <1>2 DEF StillToCome, Arrive
  <2>2. \E x : creq' = [creq EXCEPT ![c] = x]
    BY <1>2 DEF Arrive
  <2> QED BY <1>1, <2>1, <2>2 DEF TypeOK, ClientsOK, StillToCome
<1>3. ASSUME NEW c \in Clients, NEW place, UNCHANGED creq, cpc' = [cpc EXCEPT ![c] = place], place # "idle"
      PROVE  (\A d \in Clients : creq[d] # None => creq'[d] = creq[d]) /\ StillToCome'
  BY <1>1, <1>3 DEF TypeOK, ClientsOK, StillToCome
<1>4. ASSUME UNCHANGED <<creq, cpc>>
      PROVE  (\A d \in Clients : creq[d] # None => creq'[d] = creq[d]) /\ StillToCome'
  BY <1>4 DEF StillToCome
<1>5. ASSUME NEW c \in Clients, HandlerStep(c)
      PROVE  UNCHANGED creq /\ \E place : place # "idle" /\ cpc' = [cpc EXCEPT ![c] = place]
  <2>1. CASE check_submission_lookup(c)
    <3>1. cend[c] \in Endpoints
      BY <1>1, <1>5, HandlerHasRequest
    <3>2. UNCHANGED creq /\ cpc' \in {[cpc EXCEPT ![c] = place] : place \in {"runCheck", "done", "submit", "closing"}}
      BY <2>1, <3>1, LookupCases DEF Continue, Respond
    <3> QED BY <3>2
  <2>2. CASE check_submission_run(c)
    BY <2>2 DEF check_submission_run, Respond, Continue
  <2>3. CASE create_run(c)
    BY <2>3 DEF create_run, Respond, Continue
  <2>4. CASE create_job(c)
    <3>1. cend[c] \in {"v1", "v1_sync", "legacy", "legacy_sync"}
      BY <1>1, <1>5, HandlerHasRequest, ServiceAssumption
    <3> QED BY <2>4, <3>1 DEF create_job, Continue
  <2>5. CASE submit(c)
    BY <2>5 DEF submit, Respond
  <2>6. CASE sync_running(c)
    BY <2>6 DEF sync_running, Continue
  <2>7. CASE legacy_sync_closes(c)
    BY <2>7 DEF legacy_sync_closes, Respond
  <2> QED BY <1>5, <2>1, <2>2, <2>3, <2>4, <2>5, <2>6, <2>7 DEF HandlerStep
<1>6. ASSUME NEW c \in Clients, SyncStep(c) \/ handler_write_fails(c)
      PROVE  \/ UNCHANGED <<creq, cpc>>
             \/ UNCHANGED creq /\ \E place : place # "idle" /\ cpc' = [cpc EXCEPT ![c] = place]
  BY <1>6 DEF SyncStep, sync_done, sync_failed_job, sync_failed_run, legacy_sync_done, legacy_sync_failed,
     handler_write_fails, Respond, clientVars
<1>7. ASSUME NEW e \in Executors, PipelineStep(e) PROVE UNCHANGED <<creq, cpc>>
  BY <1>7 DEF PipelineStep, key_check, research_starts, research_ends, research_skipped, draw_version,
     save_check, save_insert, audit_saved, report, raises, clientVars
<1>8. ASSUME NEW r \in Runs, TaskStep(r) \/ task_write_fails(r) PROVE UNCHANGED <<creq, cpc>>
  BY <1>8 DEF TaskStep, task_starts, task_running, task_done, task_failed_run, task_failed_job, task_write_fails,
     clientVars
<1>9. ASSUME NEW p \in Pollers, PollStep(p) PROVE UNCHANGED <<creq, cpc>>
  BY <1>9 DEF PollStep, poll_row, poll_result, poll_job, clientVars
<1>10. CASE Restart
  BY <1>1, <1>10 DEF Restart, StillToCome, TypeOK, ClientsOK
<1>11. CASE UNCHANGED vars
  BY <1>4, <1>11 DEF vars, clientVars
<1> QED BY <1>2, <1>3, <1>4, <1>5, <1>6, <1>7, <1>8, <1>9, <1>10, <1>11 DEF Next, Mishap

\* Results are stored once per run, and stay.
LEMMA ResultsStay ==
    ASSUME IInv, OneResultPerRun, [Next]_vars
    PROVE  results \subseteq results' /\ OneResultPerRun'
<1>1. TypeOK /\ PlacesInv /\ HandsInv
  BY DEF IInv
<1>2. UNCHANGED results \/ \E e \in Executors : save_insert(e) /\ ~UNCHANGED results
  BY DEF Next, vars, tableVars, Arrive, HandlerStep, check_submission_lookup, check_submission_run, create_run,
     create_job, submit, sync_running, legacy_sync_closes, SyncStep, sync_done, sync_failed_job,
     sync_failed_run, legacy_sync_done, legacy_sync_failed, PipelineStep, key_check, research_starts,
     research_ends, research_skipped, draw_version, save_check, audit_saved, report, raises,
     TaskStep, task_starts, task_running, task_done, task_failed_run, task_failed_job, PollStep, poll_row,
     poll_result, poll_job, Mishap, task_write_fails, handler_write_fails, Restart
<1>3. ASSUME NEW e \in Executors, save_insert(e), ~UNCHANGED results
      PROVE  results \subseteq results' /\ OneResultPerRun'
  <2>1. PICK x : x.run = ereq[e].run /\ results' = results \cup {x}
    BY <1>3 DEF save_insert, insert
  <2>2. epc[e] = "insert" /\ ereq[e].run \in Runs
    BY <1>1, <1>3, RunsNamed DEF save_insert, Active
  <2>3. Pristine(ereq[e].run)
    BY <1>1, <2>2 DEF HandsInv, HandsOf, Core
  <2> QED BY <2>1, <2>3 DEF OneResultPerRun, Pristine
<1> QED BY <1>2, <1>3 DEF OneResultPerRun

\* Every job is one that a client asked for.
LEMMA JobsStay ==
    ASSUME IInv, StillToCome, JobsWereAsked, [Next]_vars
    PROVE  /\ \A r \in Runs : job[r] # None => job'[r] # None /\ job'[r].key = job[r].key
           /\ JobsWereAsked'
<1>1. TypeOK /\ PlacesInv /\ KeysInv
  BY DEF IInv
<1>2. \A c \in Clients : creq[c] # None => creq'[c] = creq[c]
  BY RequestsStay
<1>3. ASSUME JobsKept PROVE (\A r \in Runs : job[r] # None => job'[r] # None /\ job'[r].key = job[r].key) /\ JobsWereAsked'
  <2>1. \A r \in Runs : /\ job[r] # None => job'[r] # None /\ job'[r].key = job[r].key
                        /\ job'[r] # None => job[r] # None
    BY <1>3 DEF JobsKept
  <2>2. ASSUME NEW r \in Runs, job'[r] # None
        PROVE  \E c \in Clients : creq'[c] # None /\ creq'[c].run = r /\ idempotency(creq'[c]) = job'[r].key
    <3>1. PICK c \in Clients : creq[c] # None /\ creq[c].run = r /\ idempotency(creq[c]) = job[r].key
      BY <2>1, <2>2 DEF JobsWereAsked
    <3> QED BY <1>2, <2>1, <2>2, <3>1
  <2> QED BY <2>1, <2>2 DEF JobsWereAsked, idempotency
<1>4. ASSUME NEW c \in Clients, create_job(c) PROVE (\A r \in Runs : job[r] # None => job'[r] # None /\ job'[r].key = job[r].key) /\ JobsWereAsked'
  <2> DEFINE new == [status |-> "QUEUED", key |-> idempotency(creq[c]), error |-> FALSE]
  <2>1. job[creq[c].run] = None /\ job' = [job EXCEPT ![creq[c].run] = new] /\ creq[c] \in Request /\ creq[c].run \in Runs
    BY <1>1, <1>4, HandlerHasRequest DEF create_job, KeysInv, HandlerStep
  <2>2. new.key = idempotency(creq[c])
    OBVIOUS
  <2>3. creq[c] # None /\ creq'[c] = creq[c]
    BY <1>2, <2>1, ServiceAssumption
  <2> HIDE DEF new
  <2>4. \A r \in Runs : r # creq[c].run => job'[r] = job[r]
    BY <1>1, <2>1 DEF TypeOK, TablesOK
  <2>5. job'[creq[c].run] = new
    BY <1>1, <2>1 DEF TypeOK, TablesOK
  <2>6. ASSUME NEW r \in Runs, job'[r] # None
        PROVE  \E d \in Clients : creq'[d] # None /\ creq'[d].run = r /\ idempotency(creq'[d]) = job'[r].key
    <3>1. CASE r = creq[c].run
      BY <2>2, <2>3, <2>5, <3>1
    <3>2. CASE r # creq[c].run
      <4>1. PICK d \in Clients : creq[d] # None /\ creq[d].run = r /\ idempotency(creq[d]) = job[r].key
        BY <2>4, <2>6, <3>2 DEF JobsWereAsked
      <4> QED BY <1>2, <2>4, <3>2, <4>1
    <3> QED BY <3>1, <3>2
  <2> QED BY <2>1, <2>4, <2>6 DEF JobsWereAsked, idempotency
<1>5. ASSUME NEW c \in Clients, sync_running(c) PROVE JobsKept
  <2>1. creq[c].run \in Runs
    BY <1>1, <1>5, HandlerHasRequest DEF HandlerStep
  <2> QED BY <1>1, <1>5, <2>1, JobsKeptOrNot DEF sync_running, JobStatus
<1>6. ASSUME UNCHANGED job PROVE JobsKept
  BY <1>1, <1>6, JobsKeptOrNot
<1>7. ASSUME NEW e \in Executors, PipelineStep(e) PROVE UNCHANGED job
  BY <1>7 DEF PipelineStep, key_check, research_starts, research_ends, research_skipped, draw_version,
     save_check, save_insert, audit_saved, report, raises, tableVars
<1>8. ASSUME NEW p \in Pollers, PollStep(p) PROVE UNCHANGED job
  BY <1>8 DEF PollStep, poll_row, poll_result, poll_job, tableVars
<1>9. ASSUME Mishap \/ UNCHANGED vars PROVE UNCHANGED job
  BY <1>9 DEF Mishap, task_write_fails, handler_write_fails, Restart, tableVars, vars
<1>10. ASSUME NEW c \in Clients, Arrive(c) \/ HandlerStep(c), ~create_job(c), ~sync_running(c) PROVE UNCHANGED job
  BY <1>10 DEF Arrive, HandlerStep, check_submission_lookup, check_submission_run, create_run, submit,
     legacy_sync_closes, tableVars
<1> QED BY <1>3, <1>4, <1>5, <1>6, <1>7, <1>8, <1>9, <1>10, TaskJobs, SyncJobs DEF Next

\* Every step only adds to the tables and the requests.
LEMMA StepGrows ==
    PollsInv /\ [Next]_vars => Grows /\ StillToCome' /\ JobsWereAsked' /\ OneResultPerRun'
  BY RequestsStay, ResultsStay, JobsStay DEF PollsInv, Grows

\* A job told of is told with its result, where keys are own.
LEMMA SettledRun ==
    ASSUME PollsInv, KeysAreOwn, NEW r \in Runs, job[r] # None, job[r].status \in {"COMPLETED", "PARTIAL"}
    PROVE  HasResult(r, job[r].status)
<1>1. SettledJobHasResult /\ KeysInv /\ JobsWereAsked /\ TypeOK /\ PlacesInv
  BY DEF PollsInv, IInv
<1>2. PICK x \in results : x.key = job[r].key /\ x.status = job[r].status
  BY <1>1 DEF SettledJobHasResult
<1>3. x.run \in Runs /\ job[x.run] # None /\ job[x.run].key = x.key
  BY <1>1, RunsNamed DEF KeysInv
<1>4. PICK c \in Clients : creq[c] # None /\ creq[c].run = r /\ idempotency(creq[c]) = job[r].key
  BY <1>1 DEF JobsWereAsked
<1>5. PICK d \in Clients : creq[d] # None /\ creq[d].run = x.run /\ idempotency(creq[d]) = x.key
  BY <1>1, <1>3 DEF JobsWereAsked
<1>6. x.run = r
  BY <1>2, <1>4, <1>5 DEF KeysAreOwn
<1> QED BY <1>2, <1>6 DEF HasResult

\* A poll that ends.
LEMMA PollEnds ==
    ASSUME PollsInv, NEW p \in Pollers, poll_job(p)
    PROVE  /\ poll[p] # None /\ poll[p].at = "job" /\ poll[p].run \in Runs
           /\ told'[p] = [run |-> poll[p].run,
                          status |-> answered_status(poll[p].result, job[poll[p].run], poll[p].row)]
           /\ TypeOK /\ Reading(p) /\ OneResultPerRun /\ OpenableAnswersHaveResult
<1>1. TypeOK /\ Reading(p) /\ OneResultPerRun /\ OpenableAnswersHaveResult
  BY DEF PollsInv, IInv
<1> QED BY <1>1 DEF poll_job, TypeOK, OthersOK, Poll

\* An openable answer has a result.
LEMMA AnswerIsTrue ==
    ASSUME PollsInv, KeysAreOwn, NEW p \in Pollers, poll_job(p),
           told'[p].status \in {"COMPLETED", "PARTIAL"}
    PROVE  told'[p].run = poll[p].run /\ HasResult(poll[p].run, told'[p].status)
<1> DEFINE r == poll[p].run
           s == answered_status(poll[p].result, job[r], poll[p].row)
<1>1. poll[p] # None /\ r \in Runs /\ told'[p] = [run |-> r, status |-> s] /\ Reading(p)
  BY PollEnds
<1>2. CASE poll[p].result # None
  BY <1>1, <1>2 DEF Reading, answered_status
<1>3. CASE poll[p].result = None /\ job[r] # None
  BY <1>1, <1>3, SettledRun DEF answered_status
<1>4. CASE poll[p].result = None /\ job[r] = None
  BY <1>1, <1>4 DEF Reading, answered_status
<1> QED BY <1>1, <1>2, <1>3, <1>4

\* An openable answer is repeated.
LEMMA AnswerLasts ==
    ASSUME PollsInv, NEW p \in Pollers, poll_job(p), Openable(p), told'[p].run = told[p].run
    PROVE  told'[p] = told[p]
<1> DEFINE r == poll[p].run
           s == answered_status(poll[p].result, job[r], poll[p].row)
<1>1. /\ poll[p] # None /\ poll[p].at = "job" /\ told'[p] = [run |-> r, status |-> s]
      /\ TypeOK /\ Reading(p) /\ OneResultPerRun /\ OpenableAnswersHaveResult
  BY PollEnds
<1>2. told[p].run = r /\ poll[p].result # None
  BY <1>1 DEF Reading
<1>3. s = poll[p].result /\ HasResult(r, s)
  BY <1>1, <1>2 DEF Reading, answered_status
<1>4. HasResult(r, told[p].status)
  BY <1>1, <1>2 DEF OpenableAnswersHaveResult, Openable, HasResult
<1>5. s = told[p].status
  BY <1>1, <1>3, <1>4 DEF HasResult, OneResultPerRun
<1>6. told[p] = [run |-> told[p].run, status |-> told[p].status]
  BY <1>1 DEF TypeOK, OthersOK, Openable, Told
<1> QED BY <1>1, <1>2, <1>5, <1>6

\* What was read or told stays true while the tables grow.
LEMMA ReadingKept ==
    ASSUME PollsInv, Grows, NEW p \in Pollers, UNCHANGED <<poll[p], told[p]>>
    PROVE  Reading(p)'
<1>1. Reading(p) /\ TypeOK
  BY DEF PollsInv, IInv
<1>2. CASE poll[p] = None
  BY <1>2 DEF Reading
<1>3. CASE poll[p] # None
  <2>1. poll[p].run \in Runs
    BY <1>1, <1>3 DEF TypeOK, OthersOK, Poll
  <2> QED BY <1>1, <1>3, <2>1 DEF Reading, Grows, HasResult, Openable
<1> QED BY <1>2, <1>3

\* A step of a poll reads what is there.
LEMMA PollReads ==
    ASSUME PollsInv, KeysAreOwn, Grows, NEW p \in Pollers, PollStep(p)
    PROVE  (\A q \in Pollers : Reading(q)') /\ OpenableAnswersHaveResult'
<1>1. TypeOK /\ Reading(p) /\ OpenInv /\ OneResultPerRun /\ OpenableAnswersHaveResult /\ AllShown
  BY ShownStatus DEF PollsInv, IInv
<1>2. UNCHANGED tableVars
  BY DEF PollStep, poll_row, poll_result, poll_job
<1>3. \A q \in Pollers : q # p => poll'[q] = poll[q] /\ told'[q] = told[q]
  BY <1>1 DEF PollStep, poll_row, poll_result, poll_job, TypeOK, OthersOK
<1>4. \A q \in Pollers : q # p => Reading(q)'
  BY <1>3, ReadingKept
<1>5. CASE \E r \in Runs : poll_row(p, r)
  <2>1. PICK r \in Runs : poll_row(p, r)
    BY <1>5
  <2>2. poll'[p] = [at |-> "result", run |-> r, row |-> row[r], result |-> None] /\ UNCHANGED told /\ row[r] # None
    BY <1>1, <2>1 DEF poll_row, TypeOK, OthersOK
  <2>3. row[r] # "QUEUED" => job[r] # None
    BY <1>1, <2>2 DEF OpenInv
  <2>4. Reading(p)'
    BY <1>2, <2>2, <2>3 DEF Reading, tableVars
  <2> QED BY <1>1, <1>2, <1>4, <2>2, <2>4 DEF OpenableAnswersHaveResult, tableVars
<1>6. CASE poll_result(p)
  <2>0. PICK r, s : r = poll[p].run /\ s = result_status(r)
    OBVIOUS
  <2>1. poll[p] # None /\ poll[p] \in Poll /\ r \in Runs /\ UNCHANGED told
    BY <2>0, <1>1, <1>6 DEF poll_result, TypeOK, OthersOK, Poll
  <2>2. poll'[p] = [poll[p] EXCEPT !.at = "job", !.result = s]
    BY <2>0, <1>1, <1>6 DEF poll_result, TypeOK, OthersOK
  <2>3. poll'[p].run = r /\ poll'[p].row = poll[p].row /\ poll'[p].result = s
    BY <2>0, <2>1, <2>2 DEF Poll
  <2>4. Shown(r) /\ None \notin Terminal
    BY <1>1, <2>1, ServiceAssumption DEF AllShown, JobStatus
  <2>5. s # None => HasResult(r, s)
    <3>1. ASSUME s # None PROVE HasResult(r, s)
      <4>1. get(r) # {}
        BY <2>0, <3>1 DEF result_status
      <4>2. (CHOOSE x \in get(r) : TRUE) \in get(r)
        BY <4>1
      <4> QED BY <2>0, <2>4, <4>1, <4>2 DEF result_status, Shown, ResultsOf, HasResult
    <3> QED BY <3>1
  <2>6. Openable(p) /\ told[p].run = r => s # None
    <3>1. ASSUME Openable(p), told[p].run = r PROVE s # None
      <4>1. ~Pristine(r)
        BY <1>1, <3>1 DEF OpenableAnswersHaveResult, Openable, Pristine
      <4> QED BY <2>0, <2>4, <4>1 DEF Shown
    <3> QED BY <3>1
  <2>7. Reading(p)'
    <3>1. poll'[p].row # "QUEUED" => job'[r] # None
      BY <1>1, <1>2, <2>0, <2>1, <2>3 DEF Reading, tableVars
    <3>2. s # None => \E x \in results' : x.run = r /\ x.status = s
      BY <1>2, <2>5 DEF HasResult, tableVars
    <3>3. Openable(p)' => Openable(p) /\ told'[p] = told[p]
      BY <2>1 DEF Openable
    <3> QED BY <2>3, <2>6, <3>1, <3>2, <3>3 DEF Reading, HasResult
  <2> QED BY <1>1, <1>2, <1>4, <2>1, <2>7 DEF OpenableAnswersHaveResult, tableVars
<1>7. CASE poll_job(p)
  <2>1. poll'[p] = None /\ UNCHANGED results
    BY <1>1, <1>2, <1>7 DEF poll_job, TypeOK, OthersOK, tableVars
  <2>2. told'[p].status \in {"COMPLETED", "PARTIAL"} => told'[p].run = poll[p].run /\ HasResult(poll[p].run, told'[p].status)
    BY <1>7, AnswerIsTrue
  <2>3. OpenableAnswersHaveResult'
    BY <1>1, <1>3, <2>1, <2>2 DEF OpenableAnswersHaveResult, HasResult
  <2> QED BY <1>4, <2>1, <2>3 DEF Reading
<1> QED BY <1>5, <1>6, <1>7 DEF PollStep

\* Every step keeps the readings and the answers.
LEMMA PollsStep == PollsInv /\ IInv' /\ KeysAreOwn /\ [Next]_vars => PollsInv'
<1> SUFFICES ASSUME PollsInv, IInv', KeysAreOwn, [Next]_vars PROVE PollsInv'
  OBVIOUS
<1>1. Grows /\ StillToCome' /\ JobsWereAsked' /\ OneResultPerRun'
  BY StepGrows
<1>2. OpenableAnswersHaveResult /\ TypeOK
  BY DEF PollsInv, IInv
<1>3. ASSUME UNCHANGED pollVars PROVE (\A q \in Pollers : Reading(q)') /\ OpenableAnswersHaveResult'
  <2>1. \A q \in Pollers : poll'[q] = poll[q] /\ told'[q] = told[q]
    BY <1>3 DEF pollVars
  <2> QED BY <1>1, <1>2, <2>1, ReadingKept DEF OpenableAnswersHaveResult, Grows
<1>4. ASSUME Restart PROVE (\A q \in Pollers : Reading(q)') /\ OpenableAnswersHaveResult'
  BY <1>1, <1>2, <1>4 DEF Restart, Reading, OpenableAnswersHaveResult, tableVars
<1>5. \/ UNCHANGED pollVars \/ Restart \/ \E p \in Pollers : PollStep(p)
  BY DEF Next, vars, Arrive, HandlerStep, check_submission_lookup, check_submission_run, create_run,
     create_job, submit, sync_running, legacy_sync_closes, SyncStep, sync_done, sync_failed_job,
     sync_failed_run, legacy_sync_done, legacy_sync_failed, PipelineStep, key_check, research_starts,
     research_ends, research_skipped, draw_version, save_check, save_insert, audit_saved, report, raises,
     TaskStep, task_starts, task_running, task_done, task_failed_run, task_failed_job,
     Mishap, task_write_fails, handler_write_fails
<1>6. (\A q \in Pollers : Reading(q)') /\ OpenableAnswersHaveResult'
  BY <1>1, <1>3, <1>4, <1>5, PollReads
<1> QED BY <1>1, <1>6 DEF PollsInv

\* So they hold in every behaviour in which keys stay own.
LEMMA PollsInvariance == Spec /\ []KeysAreOwn => []PollsInv
<1>1. Init /\ IInv => PollsInv
  BY DEF Init, PollsInv, StillToCome, JobsWereAsked, OneResultPerRun, Reading, OpenableAnswersHaveResult
<1> QED BY <1>1, PollsStep, Invariance, PTL DEF Spec

\* OpenableAnswersHaveResult holds while keys are own: a COMPLETED or PARTIAL
\* that a poll puts together from three reads is a stored result's, whatever
\* requests, tasks, failed writes and restarts come between the reads.
THEOREM OpenableAnswersAreTrue == Spec /\ []KeysAreOwn => []OpenableAnswersHaveResult
<1>1. PollsInv => OpenableAnswersHaveResult
  BY DEF PollsInv
<1> QED BY <1>1, PollsInvariance, PTL

\* OpenableAnswersStay holds while keys are own: what a poller was told it may
\* open it is told from then on.
THEOREM OpenableAnswersLast == Spec /\ []KeysAreOwn => OpenableAnswersStay
<1> DEFINE Stays == \A p \in Pollers :
         told[p] # None /\ told'[p].run = told[p].run /\ told[p].status \in {"COMPLETED", "PARTIAL"}
             => told'[p] = told[p]
<1>1. PollsInv /\ KeysAreOwn /\ [Next]_vars => [Stays]_told
  <2> SUFFICES ASSUME PollsInv, KeysAreOwn, [Next]_vars, told' # told PROVE Stays
    OBVIOUS
  <2>1. PICK q \in Pollers : poll_job(q)
    <3>1. ~UNCHANGED told
      OBVIOUS
    <3> QED BY <3>1
      DEF Next, vars, pollVars, Arrive, HandlerStep, check_submission_lookup, check_submission_run, create_run,
     create_job, submit, sync_running, legacy_sync_closes, SyncStep, sync_done, sync_failed_job,
     sync_failed_run, legacy_sync_done, legacy_sync_failed, PipelineStep, key_check, research_starts,
     research_ends, research_skipped, draw_version, save_check, save_insert, audit_saved, report, raises,
     TaskStep, task_starts, task_running, task_done, task_failed_run, task_failed_job, PollStep, poll_row,
     poll_result, Mishap, task_write_fails, handler_write_fails, Restart
  <2>2. \A p \in Pollers : p # q => told'[p] = told[p]
    BY <2>1 DEF poll_job, PollsInv, IInv, TypeOK, OthersOK
  <2>3. ASSUME told[q] # None, told'[q].run = told[q].run, told[q].status \in {"COMPLETED", "PARTIAL"}
        PROVE  told'[q] = told[q]
    BY <2>1, <2>3, AnswerLasts DEF Openable
  <2> QED BY <2>2, <2>3
<1> QED BY <1>1, PollsInvariance, PTL DEF Spec, OpenableAnswersStay

\* Without an Idempotency-Key both hold of every behaviour: a key is then
\* derived from the request, which names the run.
THEOREM DerivedKeysAreOwn ==
    ASSUME Headers = {}
    PROVE  Spec => []OpenableAnswersHaveResult /\ OpenableAnswersStay
<1>1. TypeOK => KeysAreOwn
  BY DEF TypeOK, ClientsOK, KeysAreOwn, Request, idempotency
<1> QED BY <1>1, TypeCorrect, OpenableAnswersAreTrue, OpenableAnswersLast, PTL
=============================================================================
