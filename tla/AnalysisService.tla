--------------------------- MODULE AnalysisService ---------------------------
(***************************************************************************)
(* Submission, execution and persistence of analyses: the four submitting   *)
(* endpoints of api/main.py, the background task _execute, and the part of  *)
(* AnalysisOrchestrator.run and ResearchPipeline.run that reads or writes   *)
(* the shared tables research_runs (row), analysis_jobs (job) and           *)
(* analysis_results (results).  Every table access is a transaction of its  *)
(* own and one step here; request handlers run on several threads and the   *)
(* job runner on its own, so the steps of all of them interleave.  The job  *)
(* runner is taken at its promise, RunSlots (which JobRunner implements).   *)
(*                                                                         *)
(* A client sends one request.  An executor is whoever runs the pipeline:   *)
(* the slot of a run (background task) or the client thread itself (sync).  *)
(*                                                                         *)
(* Mishaps: a process restart, which keeps the tables and loses the rest;   *)
(* and a status write outside every try block that fails.                  *)
(***************************************************************************)
EXTENDS ResultStore, FiniteSets

CONSTANTS Headers,      \* values of the Idempotency-Key header
          Clients,      \* request threads, one request each
          Endpoints,    \* the endpoints offered to them
          Capacity,     \* the runner's max_workers
          Pollers,      \* callers of GET /v1/analyses/{run_id}
          MaxMishaps,   \* bound on restarts and failed status writes
          None

VARIABLES row,          \* research_runs: status of a run, or None
          job,          \* analysis_jobs: status, key and error of a job, or None
          slot,         \* the job runner, one slot per run
          cpc, creq, cend, \* a client's place, request and endpoint
          answer,       \* what the client was answered
          given,        \* the result it was given, or None
          epc, ereq, ever, esaved, \* an executor's place, request, the version
                        \* it drew and the result it reports, or None
          poll, told,   \* a poller's half-read status, and its last answer
          started,      \* auxiliary: how often a run's pipeline was started
          mishaps

clientVars == <<cpc, creq, cend, answer, given>>
tableVars == <<results, row, job>>
execVars == <<epc, ereq, ever, esaved>>
pollVars == <<poll, told>>
vars == <<tableVars, slot, clientVars, execVars, pollVars, started, mishaps>>

Executors == Runs \cup Clients

Request == [run : Runs, body : Bodies, header : Headers \cup {None}]

\* idempotency: the header, or else the hash of the request, which names the
\* run.  The legacy endpoints ignore the header.
idempotency(req) == IF req.header # None THEN req.header ELSE <<req.run, req.body>>

Terminal == ResultStatus
JobStatus == {"QUEUED", "RUNNING"} \cup Terminal
Job == [status : JobStatus, key : Keys, error : BOOLEAN]
ClientPlace == {"idle", "lookup", "runCheck", "createRun", "createJob", "submit", "update",
                "waiting", "closing", "done"}
AnswerKind == {"none", "accepted", "result", "conflict", "error"}
ExecPlace == {"none", "queued", "update", "keyCheck", "core", "coreRuns", "policy", "policyRuns",
              "version", "saveCheck", "insert", "audit", "report", "returned", "raised", "raised2"}

Poll == [at : {"result", "job"}, run : Runs, row : JobStatus, result : Terminal \cup {None}]
Told == [run : Runs, status : JobStatus]

ASSUME ServiceAssumption ==
    /\ Endpoints \subseteq {"v1", "v1_sync", "legacy", "legacy_sync"}
    /\ Runs \cap Clients = {}
    /\ None \notin Runs \cup Clients \cup Bodies \cup Headers
    /\ Capacity \in Nat
    /\ MaxMishaps \in Nat
    /\ Keys = Headers \cup (Runs \X Bodies)
    /\ None \notin Job \cup JobStatus \cup Result \cup Request \cup Poll \cup Told

TablesOK ==
    /\ results \subseteq Result
    /\ row \in [Runs -> JobStatus \cup {None}]
    /\ job \in [Runs -> Job \cup {None}]

ClientsOK ==
    /\ cpc \in [Clients -> ClientPlace]
    /\ creq \in [Clients -> Request \cup {None}]
    /\ cend \in [Clients -> Endpoints \cup {None}]
    /\ answer \in [Clients -> AnswerKind]
    /\ given \in [Clients -> Result \cup {None}]

ExecutorsOK ==
    /\ epc \in [Executors -> ExecPlace]
    /\ ereq \in [Executors -> Request \cup {None}]
    /\ ever \in [Executors -> Nat]
    /\ esaved \in [Executors -> Result \cup {None}]

OthersOK ==
    /\ slot \in [Runs -> {"idle", "waiting", "executing"}]
    /\ poll \in [Pollers -> Poll \cup {None}]
    /\ told \in [Pollers -> Told \cup {None}]
    /\ started \in [Runs -> Nat]
    /\ mishaps \in 0..MaxMishaps

TypeOK == TablesOK /\ ClientsOK /\ ExecutorsOK /\ OthersOK

Init ==
    /\ results = {}
    /\ row = [r \in Runs |-> None]
    /\ job = [r \in Runs |-> None]
    /\ slot = [r \in Runs |-> "idle"]
    /\ cpc = [c \in Clients |-> "idle"]
    /\ creq = [c \in Clients |-> None]
    /\ cend = [c \in Clients |-> None]
    /\ answer = [c \in Clients |-> "none"]
    /\ given = [c \in Clients |-> None]
    /\ epc = [e \in Executors |-> "none"]
    /\ ereq = [e \in Executors |-> None]
    /\ ever = [e \in Executors |-> 0]
    /\ esaved = [e \in Executors |-> None]
    /\ poll = [p \in Pollers |-> None]
    /\ told = [p \in Pollers |-> None]
    /\ started = [r \in Runs |-> 0]
    /\ mishaps = 0

-----------------------------------------------------------------------------
\* The handler answers and its thread is done.
Respond(c, kind, x) ==
    /\ answer' = [answer EXCEPT ![c] = kind]
    /\ given' = [given EXCEPT ![c] = x]
    /\ cpc' = [cpc EXCEPT ![c] = "done"]
    /\ UNCHANGED <<creq, cend>>

Continue(c, place) ==
    /\ cpc' = [cpc EXCEPT ![c] = place]
    /\ UNCHANGED <<creq, cend, answer, given>>

ExecAt(e, place) ==
    /\ epc' = [epc EXCEPT ![e] = place]
    /\ UNCHANGED <<ereq, ever, esaved>>

ExecStarts(e, req, place) ==
    /\ epc' = [epc EXCEPT ![e] = place]
    /\ ereq' = [ereq EXCEPT ![e] = req]
    /\ UNCHANGED <<ever, esaved>>

ExecReset(e) ==
    /\ epc' = [epc EXCEPT ![e] = "none"]
    /\ ereq' = [ereq EXCEPT ![e] = None]
    /\ ever' = [ever EXCEPT ![e] = 0]
    /\ esaved' = [esaved EXCEPT ![e] = None]

\* AnalysisJobRepository.update: an UPDATE without a look at the old status.
update_job(r, status, error) ==
    job' = [job EXCEPT ![r] = IF @ = None THEN None
                              ELSE [@ EXCEPT !.status = status, !.error = error]]

update_run(r, status) ==
    row' = [row EXCEPT ![r] = IF @ = None THEN None ELSE status]

Runner == INSTANCE RunSlots

-----------------------------------------------------------------------------
(* The request handlers. *)

Arrive(c) ==
    /\ cpc[c] = "idle"
    /\ \E req \in Request, end \in Endpoints :
          /\ end \in {"legacy", "legacy_sync"} => req.header = None
          /\ creq' = [creq EXCEPT ![c] = req]
          /\ cend' = [cend EXCEPT ![c] = end]
    /\ cpc' = [cpc EXCEPT ![c] = "lookup"]
    /\ UNCHANGED <<tableVars, slot, answer, given, execVars, pollVars, started, mishaps>>

\* Fault: any result of the run is answered, whatever its key.
check_submission_lookup_byRun(c) ==
    /\ cpc[c] = "lookup"
    /\ LET existing == get(creq[c].run) IN
       IF existing = {} THEN Continue(c, "runCheck")
       ELSE \E x \in existing : Respond(c, "result", x)
    /\ UNCHANGED <<tableVars, slot, execVars, pollVars, started, mishaps>>

\* _check_submission: a stored result with the request's key.  What the
\* endpoint does with it is the caller's part: v1 and v1_sync answer with it,
\* legacy submits the task all the same, legacy_sync reports it after a write.
check_submission_lookup(c) ==
    /\ cpc[c] = "lookup"
    /\ LET existing == get_by_idempotency_key(idempotency(creq[c])) IN
       IF existing = {} THEN Continue(c, "runCheck")
       ELSE \E x \in existing :
            CASE x.run # creq[c].run -> Respond(c, "conflict", None)
              [] x.run = creq[c].run /\ cend[c] = "v1" -> Respond(c, "accepted", x)
              [] x.run = creq[c].run /\ cend[c] = "v1_sync" -> Respond(c, "result", x)
              [] x.run = creq[c].run /\ cend[c] = "legacy" -> Continue(c, "submit")
              [] x.run = creq[c].run /\ cend[c] = "legacy_sync" ->
                    /\ cpc' = [cpc EXCEPT ![c] = "closing"]
                    /\ given' = [given EXCEPT ![c] = x]
                    /\ UNCHANGED <<creq, cend, answer>>
    /\ UNCHANGED <<tableVars, slot, execVars, pollVars, started, mishaps>>

\* _check_submission: a run that already has a row is refused ...
check_submission_run(c) ==
    /\ cpc[c] = "runCheck"
    /\ IF row[creq[c].run] # None THEN Respond(c, "conflict", None) ELSE Continue(c, "createRun")
    /\ UNCHANGED <<tableVars, slot, execVars, pollVars, started, mishaps>>

\* Fault: the row is replaced when it exists.
create_run_replaces(c) ==
    /\ cpc[c] = "createRun"
    /\ row' = [row EXCEPT ![creq[c].run] = "QUEUED"]
    /\ Continue(c, "createJob")
    /\ UNCHANGED <<results, job, slot, execVars, pollVars, started, mishaps>>

\* ... and the row is inserted, which fails when another handler has done so
\* since: the run is the primary key of research_runs.
create_run(c) ==
    /\ cpc[c] = "createRun"
    /\ IF row[creq[c].run] = None
       THEN /\ row' = [row EXCEPT ![creq[c].run] = "QUEUED"]
            /\ Continue(c, "createJob")
       ELSE /\ Respond(c, "error", None)
            /\ UNCHANGED row
    /\ UNCHANGED <<results, job, slot, execVars, pollVars, started, mishaps>>

\* AnalysisJobRepository.create keeps a job that exists.
create_job(c) ==
    /\ cpc[c] = "createJob"
    /\ job' = [job EXCEPT ![creq[c].run] =
                  IF @ # None THEN @
                  ELSE [status |-> "QUEUED", key |-> idempotency(creq[c]), error |-> FALSE]]
    /\ CASE cend[c] \in {"v1", "legacy"} -> Continue(c, "submit") /\ UNCHANGED execVars
         [] cend[c] = "v1_sync" -> Continue(c, "update") /\ UNCHANGED execVars
         [] cend[c] = "legacy_sync" -> Continue(c, "waiting") /\ ExecStarts(c, creq[c], "keyCheck")
    /\ UNCHANGED <<results, row, slot, pollVars, started, mishaps>>

\* job_runner().submit: dropped without a trace while the run's slot is taken.
submit(c) ==
    /\ cpc[c] = "submit"
    /\ LET r == creq[c].run IN
       IF slot[r] = "idle"
       THEN Runner!Admit(r) /\ ExecStarts(r, creq[c], "queued")
       ELSE UNCHANGED <<slot, execVars>>
    /\ Respond(c, "accepted", None)
    /\ UNCHANGED <<tableVars, pollVars, started, mishaps>>

\* run_analysis_sync_v1 marks the job running and runs the pipeline itself.
sync_running(c) ==
    /\ cpc[c] = "update"
    /\ update_job(creq[c].run, "RUNNING", FALSE)
    /\ Continue(c, "waiting")
    /\ ExecStarts(c, creq[c], "keyCheck")
    /\ UNCHANGED <<results, row, slot, pollVars, started, mishaps>>

\* run_analysis_sync records COMPLETED, whatever the result's status, and
\* never touches the job.
legacy_sync_closes(c) ==
    /\ cpc[c] = "closing"
    /\ update_run(creq[c].run, "COMPLETED")
    /\ Respond(c, "result", given[c])
    /\ UNCHANGED <<results, job, slot, execVars, pollVars, started, mishaps>>

-----------------------------------------------------------------------------
(* The background task. *)

task_starts(r) ==
    /\ epc[r] = "queued"
    /\ Runner!Start(r)
    /\ ExecAt(r, "update")
    /\ UNCHANGED <<tableVars, clientVars, pollVars, started, mishaps>>

task_running(r) ==
    /\ epc[r] = "update"
    /\ update_job(ereq[r].run, "RUNNING", FALSE)
    /\ ExecAt(r, "keyCheck")
    /\ UNCHANGED <<results, row, slot, clientVars, pollVars, started, mishaps>>

-----------------------------------------------------------------------------
(* AnalysisOrchestrator.run, by a background task or a client thread. *)

\* A stored result with the key ends the run at once, also one of another run.
key_check(e) ==
    /\ epc[e] = "keyCheck"
    /\ LET existing == get_by_idempotency_key(idempotency(ereq[e])) IN
       IF existing = {}
       THEN /\ ExecAt(e, "core")
            /\ started' = [started EXCEPT ![ereq[e].run] = @ + 1]
       ELSE \E x \in existing :
            /\ epc' = [epc EXCEPT ![e] = "returned"]
            /\ esaved' = [esaved EXCEPT ![e] = x]
            /\ UNCHANGED <<ereq, ever, started>>
    /\ UNCHANGED <<tableVars, slot, clientVars, pollVars, mishaps>>

\* A research pass: ResearchPipeline.run brackets its work with two updates of
\* the row.  The core pass comes first, the policy pass needs a baseline
\* scenario; a pass without agents or scenario is skipped.
research_starts(e) ==
    /\ epc[e] \in {"core", "policy"}
    /\ update_run(ereq[e].run, "RUNNING")
    /\ ExecAt(e, IF epc[e] = "core" THEN "coreRuns" ELSE "policyRuns")
    /\ UNCHANGED <<results, job, slot, clientVars, pollVars, started, mishaps>>

research_ends(e) ==
    /\ epc[e] \in {"coreRuns", "policyRuns"}
    /\ \E status \in {"COMPLETED", "PARTIAL"} : update_run(ereq[e].run, status)
    /\ ExecAt(e, IF epc[e] = "coreRuns" THEN "policy" ELSE "version")
    /\ UNCHANGED <<results, job, slot, clientVars, pollVars, started, mishaps>>

research_skipped(e) ==
    /\ epc[e] \in {"core", "policy"}
    /\ ExecAt(e, IF epc[e] = "core" THEN "policy" ELSE "version")
    /\ UNCHANGED <<tableVars, slot, clientVars, pollVars, started, mishaps>>

draw_version(e) ==
    /\ epc[e] = "version"
    /\ ever' = [ever EXCEPT ![e] = next_version(ereq[e].run)]
    /\ epc' = [epc EXCEPT ![e] = "saveCheck"]
    /\ UNCHANGED <<ereq, esaved, tableVars, slot, clientVars, pollVars, started, mishaps>>

\* AnalysisResultRepository.save: a row with the key is returned instead.
save_check(e) ==
    /\ epc[e] = "saveCheck"
    /\ LET existing == get_by_idempotency_key(idempotency(ereq[e])) IN
       IF existing = {} THEN ExecAt(e, "insert")
       ELSE \E x \in existing :
            /\ epc' = [epc EXCEPT ![e] = "audit"]
            /\ esaved' = [esaved EXCEPT ![e] = x]
            /\ UNCHANGED <<ereq, ever>>
    /\ UNCHANGED <<tableVars, slot, clientVars, pollVars, started, mishaps>>

\* Fault: an insertion that fails is taken for one that succeeded.
save_insert_swallows(e) ==
    /\ epc[e] = "insert"
    /\ \E status \in ResultStatus :
       LET req == ereq[e]
           x == [run |-> req.run, version |-> ever[e], key |-> idempotency(req),
                 body |-> req.body, status |-> status]
       IN /\ insert(x) \/ UNCHANGED results
          /\ epc' = [epc EXCEPT ![e] = "audit"]
          /\ esaved' = [esaved EXCEPT ![e] = x]
          /\ UNCHANGED <<ereq, ever>>
    /\ UNCHANGED <<row, job, slot, clientVars, pollVars, started, mishaps>>

\* The insertion, of a result with the overall status of its sections.
save_insert(e) ==
    /\ epc[e] = "insert"
    /\ \E status \in ResultStatus :
       LET req == ereq[e]
           x == [run |-> req.run, version |-> ever[e], key |-> idempotency(req),
                 body |-> req.body, status |-> status]
       IN IF IntegrityError(x)
          THEN ExecAt(e, "raised") /\ UNCHANGED results
          ELSE /\ insert(x)
               /\ epc' = [epc EXCEPT ![e] = "audit"]
               /\ esaved' = [esaved EXCEPT ![e] = x]
               /\ UNCHANGED <<ereq, ever>>
    /\ UNCHANGED <<row, job, slot, clientVars, pollVars, started, mishaps>>

\* The row takes the status of what was saved; then the report is rendered.
audit_saved(e) ==
    /\ epc[e] = "audit"
    /\ update_run(ereq[e].run, esaved[e].status)
    /\ ExecAt(e, "report")
    /\ UNCHANGED <<results, job, slot, clientVars, pollVars, started, mishaps>>

report(e) ==
    /\ epc[e] = "report"
    /\ ExecAt(e, "returned")
    /\ UNCHANGED <<tableVars, slot, clientVars, pollVars, started, mishaps>>

\* Anything in the pipeline may raise: a section without a guard of its own, a
\* database call, the report.  A background task has its last status write in
\* the same try block.
raises(e) ==
    /\ \/ epc[e] \in {"keyCheck", "core", "coreRuns", "policy", "policyRuns", "version",
                      "saveCheck", "insert", "audit", "report"}
       \/ e \in Runs /\ epc[e] = "returned"
    /\ ExecAt(e, "raised")
    /\ UNCHANGED <<tableVars, slot, clientVars, pollVars, started, mishaps>>

-----------------------------------------------------------------------------
(* What the callers of the pipeline do when it is over. *)

\* _execute after a return: the job takes the status of the result.
task_done(r) ==
    /\ epc[r] = "returned"
    /\ update_job(r, esaved[r].status, FALSE)
    /\ ExecReset(r)
    /\ Runner!End(r)
    /\ UNCHANGED <<results, row, clientVars, pollVars, started, mishaps>>

\* _execute after an exception: first the row, then the job.
task_failed_run(r) ==
    /\ epc[r] = "raised"
    /\ update_run(r, "FAILED")
    /\ ExecAt(r, "raised2")
    /\ UNCHANGED <<results, job, slot, clientVars, pollVars, started, mishaps>>

\* Fault: the exception handler forgets the job.
task_failed_job_forgets(r) ==
    /\ epc[r] = "raised2"
    /\ ExecReset(r)
    /\ Runner!End(r)
    /\ UNCHANGED <<tableVars, clientVars, pollVars, started, mishaps>>

task_failed_job(r) ==
    /\ epc[r] = "raised2"
    /\ update_job(r, "FAILED", TRUE)
    /\ ExecReset(r)
    /\ Runner!End(r)
    /\ UNCHANGED <<results, row, clientVars, pollVars, started, mishaps>>

\* run_analysis_sync_v1 after a return, and after an exception (first the
\* job, then the row, then the exception goes on to the client).
sync_done(c) ==
    /\ epc[c] = "returned" /\ cend[c] = "v1_sync"
    /\ update_job(creq[c].run, esaved[c].status, FALSE)
    /\ Respond(c, "result", esaved[c])
    /\ ExecReset(c)
    /\ UNCHANGED <<results, row, slot, pollVars, started, mishaps>>

sync_failed_job(c) ==
    /\ epc[c] = "raised" /\ cend[c] = "v1_sync"
    /\ update_job(creq[c].run, "FAILED", TRUE)
    /\ ExecAt(c, "raised2")
    /\ UNCHANGED <<results, row, slot, clientVars, pollVars, started, mishaps>>

sync_failed_run(c) ==
    /\ epc[c] = "raised2"
    /\ update_run(creq[c].run, "FAILED")
    /\ Respond(c, "error", None)
    /\ ExecReset(c)
    /\ UNCHANGED <<results, job, slot, pollVars, started, mishaps>>

\* run_analysis_sync has no handler: an exception goes straight to the client.
legacy_sync_done(c) ==
    /\ epc[c] = "returned" /\ cend[c] = "legacy_sync"
    /\ cpc' = [cpc EXCEPT ![c] = "closing"]
    /\ given' = [given EXCEPT ![c] = esaved[c]]
    /\ ExecReset(c)
    /\ UNCHANGED <<creq, cend, answer, tableVars, slot, pollVars, started, mishaps>>

legacy_sync_failed(c) ==
    /\ epc[c] = "raised" /\ cend[c] = "legacy_sync"
    /\ Respond(c, "error", None)
    /\ ExecReset(c)
    /\ UNCHANGED <<tableVars, slot, pollVars, started, mishaps>>


-----------------------------------------------------------------------------
(* Status polling. *)

\* Fault: the job's status wins over the stored result's.
answered_status_job(result, j, w) == IF j # None THEN j.status
                                     ELSE IF result # None THEN result ELSE w

\* get_analysis: the newest result's status, or else the job's, or the row's.
answered_status(result, j, w) == IF result # None THEN result
                                 ELSE IF j # None THEN j.status ELSE w

result_status(r) == IF get(r) = {} THEN None ELSE (CHOOSE x \in get(r) : TRUE).status

\* The three reads; a run without a row is answered 404.
poll_row(p, r) ==
    /\ poll[p] = None
    /\ row[r] # None
    /\ poll' = [poll EXCEPT ![p] = [at |-> "result", run |-> r, row |-> row[r], result |-> None]]
    /\ UNCHANGED <<told, tableVars, slot, clientVars, execVars, started, mishaps>>

poll_result(p) ==
    /\ poll[p] # None
    /\ poll[p].at = "result"
    /\ poll' = [poll EXCEPT ![p].at = "job", ![p].result = result_status(poll[p].run)]
    /\ UNCHANGED <<told, tableVars, slot, clientVars, execVars, started, mishaps>>

poll_job(p) ==
    /\ poll[p] # None
    /\ poll[p].at = "job"
    /\ LET r == poll[p].run IN
       told' = [told EXCEPT ![p] =
           [run |-> r, status |-> answered_status(poll[p].result, job[r], poll[p].row)]]
    /\ poll' = [poll EXCEPT ![p] = None]
    /\ UNCHANGED <<tableVars, slot, clientVars, execVars, started, mishaps>>

-----------------------------------------------------------------------------
(* Mishaps. *)

\* A status write of _execute outside its try block fails: the future ends
\* with the exception, which nobody reads.
task_write_fails(r) ==
    /\ epc[r] \in {"update", "raised", "raised2"}
    /\ mishaps < MaxMishaps
    /\ mishaps' = mishaps + 1
    /\ ExecReset(r)
    /\ Runner!End(r)
    /\ UNCHANGED <<tableVars, clientVars, pollVars, started>>

\* A database call of a handler outside its try block fails: the client gets
\* the error and the writes made before stay.
handler_write_fails(c) ==
    /\ \/ cpc[c] \in {"lookup", "runCheck", "createRun", "createJob", "update", "closing"}
       \/ epc[c] \in {"returned", "raised", "raised2"}
    /\ mishaps < MaxMishaps
    /\ mishaps' = mishaps + 1
    /\ Respond(c, "error", None)
    /\ ExecReset(c)
    /\ UNCHANGED <<tableVars, slot, pollVars, started>>

\* The process restarts: the tables remain, requests, tasks and queue are lost.
Restart ==
    /\ mishaps < MaxMishaps
    /\ mishaps' = mishaps + 1
    /\ LET lost == {c \in Clients : cpc[c] \notin {"idle", "done"}} IN
       /\ cpc' = [c \in Clients |-> IF c \in lost THEN "done" ELSE cpc[c]]
       /\ answer' = [c \in Clients |-> IF c \in lost THEN "error" ELSE answer[c]]
       /\ given' = [c \in Clients |-> IF c \in lost THEN None ELSE given[c]]
    /\ slot' = [r \in Runs |-> "idle"]
    /\ epc' = [e \in Executors |-> "none"]
    /\ ereq' = [e \in Executors |-> None]
    /\ ever' = [e \in Executors |-> 0]
    /\ esaved' = [e \in Executors |-> None]
    /\ poll' = [p \in Pollers |-> None]
    /\ UNCHANGED <<creq, cend, told, tableVars, started>>

-----------------------------------------------------------------------------
HandlerStep(c) ==
    \/ check_submission_lookup(c) \/ check_submission_run(c)
    \/ create_run(c) \/ create_job(c) \/ submit(c) \/ sync_running(c) \/ legacy_sync_closes(c)

PipelineStep(e) ==
    \/ key_check(e) \/ research_starts(e) \/ research_ends(e) \/ research_skipped(e)
    \/ draw_version(e) \/ save_check(e) \/ save_insert(e) \/ audit_saved(e) \/ report(e)
    \/ raises(e)

TaskStep(r) ==
    \/ task_starts(r) \/ task_running(r) \/ task_done(r) \/ task_failed_run(r) \/ task_failed_job(r)

SyncStep(c) ==
    \/ sync_done(c) \/ sync_failed_job(c) \/ sync_failed_run(c)
    \/ legacy_sync_done(c) \/ legacy_sync_failed(c)

PollStep(p) == (\E r \in Runs : poll_row(p, r)) \/ poll_result(p) \/ poll_job(p)

Mishap == (\E r \in Runs : task_write_fails(r)) \/ (\E c \in Clients : handler_write_fails(c)) \/ Restart

Next ==
    \/ \E c \in Clients : Arrive(c) \/ HandlerStep(c) \/ SyncStep(c)
    \/ \E e \in Executors : PipelineStep(e)
    \/ \E r \in Runs : TaskStep(r)
    \/ \E p \in Pollers : PollStep(p)
    \/ Mishap

Spec == Init /\ [][Next]_vars

\* Threads go on; a waiting task is started when a worker is free (the queue
\* is first in, first out, and a client sends one request).
Fairness ==
    /\ \A c \in Clients : WF_vars(HandlerStep(c) \/ SyncStep(c))
    /\ \A e \in Executors : WF_vars(PipelineStep(e))
    /\ \A r \in Runs : WF_vars(TaskStep(r))

FairSpec == Spec /\ Fairness

-----------------------------------------------------------------------------
(* Properties. *)

\* However submissions of a run race, with the same key or another, by any
\* endpoint, and across restarts, its pipeline (research, forecast, paid
\* provider calls) is entered at most once.
PipelineOncePerRun == \A r \in Runs : started[r] <= 1

\* A job recorded as COMPLETED or PARTIAL, or as FAILED without an error, has
\* its result in the store, under the key the job was created with.
SettledJobHasResult ==
    \A r \in Runs : job[r] # None =>
        \/ job[r].status \in {"QUEUED", "RUNNING"}
        \/ job[r].status = "FAILED" /\ job[r].error
        \/ \E x \in results : x.key = job[r].key /\ x.status = job[r].status

\* A result a submission is answered with, stored earlier by whomever or just
\* computed, carries the key of that submission.
AnswersCarryTheKey ==
    \A c \in Clients : given[c] # None => given[c].key = idempotency(creq[c])

\* A client told COMPLETED or PARTIAL, the states in which the frontend opens
\* the result page, finds a result of that run with that status in the store,
\* although the answer was put together from three reads at different times.
OpenableAnswersHaveResult ==
    \A p \in Pollers : told[p] # None /\ told[p].status \in {"COMPLETED", "PARTIAL"} =>
        \E x \in results : x.run = told[p].run /\ x.status = told[p].status

\* A client told COMPLETED or PARTIAL of a run is told the same from then on.
OpenableAnswersStay ==
    [][\A p \in Pollers :
         told[p] # None /\ told'[p].run = told[p].run /\ told[p].status \in {"COMPLETED", "PARTIAL"}
             => told'[p] = told[p]]_told

\* A run that was registered gets a job, and every job is settled.
JobsSettle ==
    \A r \in Runs : row[r] # None ~> job[r] # None /\ job[r].status \in Terminal

\* What the tables say of a run: get_analysis if its reads were one.
life ==
    [r \in Runs |->
        IF row[r] = None THEN "unknown"
        ELSE LET status == answered_status(result_status(r), job[r], row[r]) IN
             IF status \in Terminal THEN status ELSE "accepted"]

Lifecycle == INSTANCE RunLifecycle WITH life <- life

\* The tables implement the life of a run: accepted once, settled once, and
\* the terminal status never changes, whatever resubmissions, exceptions,
\* failed writes and restarts do to job and row.
ImplementsRunLifecycle == Lifecycle!Spec

=============================================================================
