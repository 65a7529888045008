----------------------- MODULE AnalysisService_proofs -----------------------
(***************************************************************************)
(* Proofs about AnalysisService for any sets of runs, bodies, headers,      *)
(* clients and pollers, any endpoints, any number of workers and mishaps.  *)
(***************************************************************************)
EXTENDS AnalysisService, TLAPS

\* No result of the run is stored.
Pristine(r) == \A x \in results : x.run # r

Early == {"queued", "update", "keyCheck"}
Core == {"core", "coreRuns", "policy", "policyRuns", "version", "saveCheck", "insert"}
Saved == {"audit", "report", "returned"}

\* A client that has created the run's row and not yet handed it over.
Holds(c) == cpc[c] \in {"createJob", "submit", "update"}
Active(e) == epc[e] # "none"

\* What goes with the places of clients and executors.
PlacesInv ==
    /\ \A c \in Clients :
          /\ cpc[c] # "idle" => creq[c] \in Request /\ cend[c] \in Endpoints
          /\ cpc[c] = "idle" => given[c] = None
          /\ cpc[c] = "closing" => given[c] # None
          /\ Active(c) => cpc[c] = "waiting" /\ ereq[c] = creq[c]
    /\ \A e \in Executors :
          /\ Active(e) => ereq[e] \in Request
          /\ epc[e] \in {"saveCheck", "insert"} => ever[e] = 1
    /\ \A r \in Runs : Active(r) => ereq[r].run = r

\* Job, results, requests in progress and reported results agree on the key.
HasJob(req) == job[req.run] # None /\ job[req.run].key = idempotency(req)

KeysInv ==
    /\ \A x \in results : job[x.run] # None /\ job[x.run].key = x.key
    /\ \A e \in Executors :
          /\ Active(e) => HasJob(ereq[e])
          /\ epc[e] \in Saved => esaved[e] \in results /\ esaved[e].key = idempotency(ereq[e])
    /\ \A c \in Clients :
          /\ cpc[c] \in {"submit", "update"} => HasJob(creq[c])
          /\ cpc[c] = "createJob" => job[creq[c].run] = None
          /\ cpc[c] = "closing" => job[creq[c].run] # None

\* Until its result is stored, a run is in the hands of at most one client or
\* executor, which has not entered the pipeline twice and has a job that is
\* not settled.
HandsOf(r) ==
    /\ row[r] = None =>
          /\ job[r] = None
          /\ Pristine(r)
          /\ started[r] = 0
          /\ \A c \in Clients : ~(Holds(c) /\ creq[c].run = r)
          /\ \A e \in Executors : ~(Active(e) /\ ereq[e].run = r)
    /\ \A x \in results : x.run = r => x.version = 1 /\ started[r] = 1
    /\ started[r] <= 1
    /\ Pristine(r) =>
          /\ \A c, d \in Clients :
                Holds(c) /\ Holds(d) /\ creq[c].run = r /\ creq[d].run = r => c = d
          /\ \A e, f \in Executors :
                Active(e) /\ Active(f) /\ ereq[e].run = r /\ ereq[f].run = r => e = f
          /\ \A c \in Clients, e \in Executors :
                ~(Holds(c) /\ Active(e) /\ creq[c].run = r /\ ereq[e].run = r)
          /\ \A c \in Clients : Holds(c) /\ creq[c].run = r => started[r] = 0
          /\ \A e \in Executors :
                epc[e] \in Early /\ ereq[e].run = r => started[r] = 0
    /\ \A e \in Executors :
          epc[e] \in Core /\ ereq[e].run = r => started[r] = 1 /\ Pristine(r)

HandsInv == \A r \in Runs : HandsOf(r)

\* Somebody will write the job of the run: a client that holds it or an
\* executor of it (but not a client's after its last write to the job).
MayWrite(r) ==
    \/ \E c \in Clients : Holds(c) /\ creq[c].run = r
    \/ \E e \in Executors :
          Active(e) /\ ereq[e].run = r /\ ~(e \in Clients /\ epc[e] = "raised2")

Open == {"QUEUED", "RUNNING"}

\* The job of a run without a result is open while anybody may still write it,
\* and no row leaves "QUEUED" without a job.
OpenInv ==
    \A r \in Runs :
        /\ job[r] = None => row[r] \in {None, "QUEUED"}
        /\ Pristine(r) /\ job[r] # None /\ MayWrite(r) => job[r].status \in Open

IInv ==
    /\ TypeOK
    /\ PlacesInv
    /\ KeysInv
    /\ HandsInv
    /\ OpenInv
    /\ SettledJobHasResult
    /\ AnswersCarryTheKey


-----------------------------------------------------------------------------
\* A request has one of the keys.
LEMMA KeyType == ASSUME NEW req \in Request PROVE idempotency(req) \in Keys
  BY ServiceAssumption DEF idempotency, Request

\* A run without a result draws version 1.
LEMMA FirstVersion == ASSUME NEW r \in Runs, Pristine(r) PROVE next_version(r) = 1
<1>1. {0} \cup Versions(r) = {0}
  BY DEF Pristine, Versions
<1>2. Max({0}) = 0
  BY DEF Max
<1> QED BY <1>1, <1>2 DEF next_version

\* update_job changes the status and error of a job that exists.
LEMMA JobUpdate ==
    ASSUME job \in [Runs -> Job \cup {None}], NEW r \in Runs,
           NEW status \in JobStatus, NEW error \in BOOLEAN, update_job(r, status, error)
    PROVE  /\ job' \in [Runs -> Job \cup {None}]
           /\ \A q \in Runs : q # r => job'[q] = job[q]
           /\ job[r] = None <=> job'[r] = None
           /\ job[r] # None => /\ job'[r].status = status
                              /\ job'[r].error = error
                              /\ job'[r].key = job[r].key
<1>1. CASE job[r] = None
  <2>1. job' = [job EXCEPT ![r] = None]
    BY <1>1 DEF update_job
  <2> QED BY <1>1, <2>1
<1>2. CASE job[r] # None
  <2> DEFINE j == [job[r] EXCEPT !.status = status, !.error = error]
  <2>1. job' = [job EXCEPT ![r] = j]
    BY <1>2 DEF update_job
  <2>2. j \in Job /\ j.status = status /\ j.error = error /\ j.key = job[r].key
    BY <1>2 DEF Job
  <2>3. j # None
    BY <2>2, ServiceAssumption
  <2> HIDE DEF j
  <2> QED BY <1>2, <2>1, <2>2, <2>3
<1> QED BY <1>1, <1>2

\* An answer keeps the clients well typed.
LEMMA RespondType ==
    ASSUME ClientsOK, NEW c \in Clients, NEW kind \in AnswerKind, NEW x \in Result \cup {None},
           Respond(c, kind, x)
    PROVE  ClientsOK'
  BY DEF ClientsOK, Respond, ClientPlace

\* So does going on to another place.
LEMMA ContinueType ==
    ASSUME ClientsOK, NEW c \in Clients, NEW place \in ClientPlace, Continue(c, place)
    PROVE  ClientsOK'
  BY DEF ClientsOK, Continue

\* Moves, starts, ends and saves keep the executors well typed.
LEMMA ExecAtType ==
    ASSUME ExecutorsOK, NEW e \in Executors, NEW place \in ExecPlace, ExecAt(e, place)
    PROVE  ExecutorsOK'
  BY DEF ExecutorsOK, ExecAt

\* An executor that starts has a request.
LEMMA ExecStartsType ==
    ASSUME ExecutorsOK, NEW e \in Executors, NEW req \in Request, NEW place \in ExecPlace,
           ExecStarts(e, req, place)
    PROVE  ExecutorsOK'
  BY DEF ExecutorsOK, ExecStarts

\* An executor that stops has none.
LEMMA ExecResetType ==
    ASSUME ExecutorsOK, NEW e \in Executors, ExecReset(e)
    PROVE  ExecutorsOK'
  BY DEF ExecutorsOK, ExecReset, ExecPlace

\* An executor that reports a stored result reports a result.
LEMMA ExecSavedType ==
    ASSUME ExecutorsOK, NEW e \in Executors, NEW place \in ExecPlace, NEW x \in Result,
           epc' = [epc EXCEPT ![e] = place], esaved' = [esaved EXCEPT ![e] = x],
           UNCHANGED <<ereq, ever>>
    PROVE  ExecutorsOK'
  BY DEF ExecutorsOK

\* A status written to a row is a status.
LEMMA RunUpdate ==
    ASSUME row \in [Runs -> JobStatus \cup {None}], NEW r \in Runs, NEW status \in JobStatus,
           update_run(r, status)
    PROVE  /\ row' \in [Runs -> JobStatus \cup {None}]
           /\ \A q \in Runs : row[q] = None <=> row'[q] = None
           /\ \A q \in Runs : q # r => row'[q] = row[q]
  BY ServiceAssumption DEF update_run

\* The initial state is well typed.
LEMMA TypeInit == Init => TypeOK
  BY ServiceAssumption DEF Init, TypeOK, TablesOK, ClientsOK, ExecutorsOK, OthersOK, Executors,
     ClientPlace, AnswerKind, ExecPlace

\* An arriving request, and every step of its handler, keeps the types.
LEMMA ArriveType == ASSUME TypeOK, NEW c \in Clients, Arrive(c) PROVE TypeOK'
  BY DEF Arrive, TypeOK, TablesOK, ClientsOK, ExecutorsOK, OthersOK, ClientPlace, tableVars, execVars, pollVars

\* A handler that takes a step has a request and an endpoint.
LEMMA HandlerHasRequest ==
    ASSUME PlacesInv, NEW c \in Clients, HandlerStep(c)
    PROVE  cpc[c] # "idle" /\ creq[c] \in Request /\ creq[c].run \in Runs /\ cend[c] \in Endpoints
<1>1. cpc[c] # "idle"
  BY DEF HandlerStep, check_submission_lookup, check_submission_run, create_run, create_job, submit,
     sync_running, legacy_sync_closes
<1> QED BY <1>1 DEF PlacesInv, Request

\* What the lookup does with a stored result.
LEMMA LookupCases ==
    ASSUME NEW c \in Clients, cend[c] \in Endpoints, check_submission_lookup(c)
    PROVE  \/ Continue(c, "runCheck")
           \/ \E x \in results :
                /\ x.key = idempotency(creq[c])
                /\ \/ Respond(c, "conflict", None)
                   \/ x.run = creq[c].run /\ Respond(c, "accepted", x)
                   \/ x.run = creq[c].run /\ Respond(c, "result", x)
                   \/ x.run = creq[c].run /\ Continue(c, "submit")
                   \/ /\ x.run = creq[c].run
                      /\ cpc' = [cpc EXCEPT ![c] = "closing"]
                      /\ given' = [given EXCEPT ![c] = x]
                      /\ UNCHANGED <<creq, cend, answer>>
<1>1. CASE get_by_idempotency_key(idempotency(creq[c])) = {}
  BY <1>1 DEF check_submission_lookup
<1>2. CASE get_by_idempotency_key(idempotency(creq[c])) # {}
  <2>1. PICK x \in get_by_idempotency_key(idempotency(creq[c])) :
            CASE x.run # creq[c].run -> Respond(c, "conflict", None)
              [] x.run = creq[c].run /\ cend[c] = "v1" -> Respond(c, "accepted", x)
              [] x.run = creq[c].run /\ cend[c] = "v1_sync" -> Respond(c, "result", x)
              [] x.run = creq[c].run /\ cend[c] = "legacy" -> Continue(c, "submit")
              [] x.run = creq[c].run /\ cend[c] = "legacy_sync" ->
                    /\ cpc' = [cpc EXCEPT ![c] = "closing"]
                    /\ given' = [given EXCEPT ![c] = x]
                    /\ UNCHANGED <<creq, cend, answer>>
    BY <1>2 DEF check_submission_lookup
  <2>2. x \in results /\ x.key = idempotency(creq[c])
    BY DEF get_by_idempotency_key
  <2>3. cend[c] \in {"v1", "v1_sync", "legacy", "legacy_sync"}
    BY ServiceAssumption
  <2> QED BY <2>1, <2>2, <2>3
<1> QED BY <1>1, <1>2

\* Handler steps keep the types.
LEMMA HandlerType ==
    ASSUME TypeOK, PlacesInv, NEW c \in Clients, HandlerStep(c)
    PROVE  TypeOK'
<1>1. creq[c] \in Request /\ creq[c].run \in Runs /\ cend[c] \in Endpoints
  BY HandlerHasRequest
<1>2. CASE check_submission_lookup(c)
  <2>1. UNCHANGED <<tableVars, slot, execVars, pollVars, started, mishaps>>
    BY <1>2 DEF check_submission_lookup
  <2>2. CASE Continue(c, "runCheck")
    BY <2>1, <2>2, ContinueType DEF TypeOK, ClientPlace, TablesOK, ExecutorsOK, OthersOK, tableVars, execVars, pollVars
  <2>3. CASE ~Continue(c, "runCheck")
    <3>1. PICK x \in results :
             \/ Respond(c, "conflict", None)
             \/ Respond(c, "accepted", x)
             \/ Respond(c, "result", x)
             \/ Continue(c, "submit")
             \/ cpc' = [cpc EXCEPT ![c] = "closing"] /\ given' = [given EXCEPT ![c] = x]
                /\ UNCHANGED <<creq, cend, answer>>
      BY <1>1, <1>2, <2>3, LookupCases
    <3>2. x \in Result
      BY DEF TypeOK, TablesOK
    <3>3. ClientsOK'
      BY <3>1, <3>2, RespondType, ContinueType DEF TypeOK, ClientsOK, ClientPlace, AnswerKind
    <3> QED BY <2>1, <3>3 DEF TypeOK, TablesOK, ExecutorsOK, OthersOK, tableVars, execVars, pollVars
  <2> QED BY <2>2, <2>3
<1>3. CASE check_submission_run(c)
  <2>1. ClientsOK'
    BY <1>3, RespondType, ContinueType DEF check_submission_run, TypeOK, ClientPlace, AnswerKind
  <2> QED BY <1>3, <2>1 DEF check_submission_run, TypeOK, TablesOK, ExecutorsOK, OthersOK, tableVars, execVars, pollVars
<1>4. CASE create_run(c)
  <2>1. ClientsOK'
    BY <1>4, RespondType, ContinueType DEF create_run, TypeOK, ClientPlace, AnswerKind
  <2>2. row' \in [Runs -> JobStatus \cup {None}]
    BY <1>1, <1>4 DEF create_run, TypeOK, TablesOK, JobStatus
  <2> QED BY <1>4, <2>1, <2>2 DEF create_run, TypeOK, TablesOK, ExecutorsOK, OthersOK, execVars, pollVars
<1>5. CASE create_job(c)
  <2>1. \/ \E place \in {"submit", "update"} : Continue(c, place) /\ UNCHANGED execVars
        \/ Continue(c, "waiting") /\ ExecStarts(c, creq[c], "keyCheck")
    BY <1>1, <1>5, ServiceAssumption DEF create_job
  <2>4. ClientsOK'
    BY <2>1, ContinueType DEF TypeOK, ClientPlace
  <2>5. ExecutorsOK'
    BY <1>1, <2>1, ExecStartsType DEF TypeOK, ExecPlace, Executors, ExecutorsOK, execVars
  <2>2. [status |-> "QUEUED", key |-> idempotency(creq[c]), error |-> FALSE] \in Job
    BY <1>1, KeyType DEF Job, JobStatus
  <2>3. job' \in [Runs -> Job \cup {None}]
    BY <1>5, <2>2 DEF create_job, TypeOK, TablesOK
  <2> QED BY <1>5, <2>4, <2>5, <2>3 DEF create_job, TypeOK, TablesOK, OthersOK, pollVars
<1>6. CASE submit(c)
  <2>1. ClientsOK'
    BY <1>6, RespondType DEF submit, TypeOK, AnswerKind
  <2>2. ExecutorsOK'
    BY <1>1, <1>6, ExecStartsType DEF submit, TypeOK, ExecPlace, Executors, ExecutorsOK, execVars
  <2>3. slot' \in [Runs -> {"idle", "waiting", "executing"}]
    BY <1>1, <1>6 DEF submit, TypeOK, OthersOK, Runner!Admit
  <2> QED BY <1>6, <2>1, <2>2, <2>3 DEF submit, TypeOK, TablesOK, OthersOK, tableVars, pollVars
<1>7. CASE sync_running(c)
  <2>1. ClientsOK' /\ ExecutorsOK'
    BY <1>1, <1>7, ContinueType, ExecStartsType DEF sync_running, TypeOK, ClientPlace, ExecPlace, Executors
  <2>2. job' \in [Runs -> Job \cup {None}]
    BY <1>1, <1>7, JobUpdate DEF sync_running, TypeOK, TablesOK, JobStatus
  <2> QED BY <1>7, <2>1, <2>2 DEF sync_running, TypeOK, TablesOK, OthersOK, pollVars
<1>8. CASE legacy_sync_closes(c)
  <2>1. ClientsOK'
    BY <1>8, RespondType DEF legacy_sync_closes, TypeOK, ClientsOK, AnswerKind
  <2>2. row' \in [Runs -> JobStatus \cup {None}]
    BY <1>1, <1>8, RunUpdate DEF legacy_sync_closes, TypeOK, TablesOK, JobStatus, Terminal, ResultStatus
  <2> QED BY <1>8, <2>1, <2>2 DEF legacy_sync_closes, TypeOK, TablesOK, ExecutorsOK, OthersOK, execVars, pollVars
<1> QED BY <1>2, <1>3, <1>4, <1>5, <1>6, <1>7, <1>8 DEF HandlerStep

\* A step of the pipeline keeps the types.
LEMMA PipelineType ==
    ASSUME IInv, NEW e \in Executors, PipelineStep(e)
    PROVE  TypeOK'
<1>1. /\ ereq[e] \in Request
      /\ ereq[e].run \in Runs
      /\ epc[e] # "none"
  <2>1. epc[e] # "none"
    BY DEF PipelineStep, key_check, research_starts, research_ends, research_skipped, draw_version,
       save_check, save_insert, audit_saved, report, raises
  <2> QED BY <2>1 DEF IInv, PlacesInv, Active, Request
<1>2. TypeOK
  BY DEF IInv
<1>3. CASE key_check(e)
  <2>1. CASE ExecAt(e, "core") /\ started' = [started EXCEPT ![ereq[e].run] = @ + 1]
    BY <1>1, <1>2, <1>3, <2>1, ExecAtType
       DEF key_check, TypeOK, TablesOK, ClientsOK, OthersOK, ExecPlace, tableVars, clientVars, pollVars
  <2>2. CASE \E x \in results :
            /\ epc' = [epc EXCEPT ![e] = "returned"]
            /\ esaved' = [esaved EXCEPT ![e] = x]
            /\ UNCHANGED <<ereq, ever, started>>
    BY <1>2, <1>3, <2>2, ExecSavedType
       DEF key_check, TypeOK, TablesOK, ClientsOK, OthersOK, ExecPlace, tableVars, clientVars, pollVars
  <2> QED BY <1>3, <2>1, <2>2 DEF key_check, get_by_idempotency_key
<1>4. CASE research_starts(e)
  <2>1. row' \in [Runs -> JobStatus \cup {None}]
    BY <1>1, <1>2, <1>4, RunUpdate DEF research_starts, TypeOK, TablesOK, JobStatus
  <2> QED BY <1>2, <1>4, <2>1, ExecAtType
          DEF research_starts, TypeOK, TablesOK, ClientsOK, OthersOK, ExecPlace, clientVars, pollVars
<1>5. CASE research_ends(e)
  <2>1. row' \in [Runs -> JobStatus \cup {None}]
    BY <1>1, <1>2, <1>5, RunUpdate DEF research_ends, TypeOK, TablesOK, JobStatus, Terminal, ResultStatus
  <2> QED BY <1>2, <1>5, <2>1, ExecAtType
          DEF research_ends, TypeOK, TablesOK, ClientsOK, OthersOK, ExecPlace, clientVars, pollVars
<1>6. CASE research_skipped(e)
  BY <1>2, <1>6, ExecAtType
     DEF research_skipped, TypeOK, TablesOK, ClientsOK, OthersOK, ExecPlace, tableVars, clientVars, pollVars
<1>7. CASE draw_version(e)
  <2>1. Pristine(ereq[e].run)
    BY <1>1, <1>7 DEF IInv, HandsInv, HandsOf, draw_version, Core
  <2>2. ever' = [ever EXCEPT ![e] = 1]
    BY <1>1, <1>7, <2>1, FirstVersion DEF draw_version
  <2>3. ExecutorsOK'
    BY <1>2, <1>7, <2>2 DEF draw_version, TypeOK, ExecutorsOK, ExecPlace
  <2> QED BY <1>2, <1>7, <2>3 DEF draw_version, TypeOK, TablesOK, ClientsOK, OthersOK, tableVars, clientVars, pollVars
<1>8. CASE save_check(e)
  <2>1. ExecutorsOK'
    BY <1>2, <1>8, ExecAtType, ExecSavedType DEF save_check, get_by_idempotency_key, TypeOK, TablesOK, ExecPlace
  <2> QED BY <1>2, <1>8, <2>1 DEF save_check, TypeOK, TablesOK, ClientsOK, OthersOK, tableVars, clientVars, pollVars
<1>9. CASE save_insert(e)
  <2>1. CASE ExecAt(e, "raised") /\ UNCHANGED results
    BY <1>2, <1>9, <2>1, ExecAtType
       DEF save_insert, TypeOK, TablesOK, ClientsOK, OthersOK, ExecPlace, clientVars, pollVars
  <2>2. CASE \E x \in Result :
            /\ insert(x)
            /\ epc' = [epc EXCEPT ![e] = "audit"]
            /\ esaved' = [esaved EXCEPT ![e] = x]
            /\ UNCHANGED <<ereq, ever>>
    BY <1>2, <1>9, <2>2, ExecSavedType
       DEF save_insert, insert, TypeOK, TablesOK, ClientsOK, OthersOK, ExecPlace, clientVars, pollVars
  <2>3. ever[e] = 1
    BY <1>9 DEF save_insert, IInv, PlacesInv
  <2>4. \A status \in ResultStatus :
            [run |-> ereq[e].run, version |-> ever[e], key |-> idempotency(ereq[e]),
             body |-> ereq[e].body, status |-> status] \in Result
    BY <1>1, <2>3, KeyType DEF Result, Request
  <2> QED BY <1>9, <2>1, <2>2, <2>4 DEF save_insert
<1>10. CASE audit_saved(e)
  <2>1. esaved[e] \in Result
    BY <1>10 DEF audit_saved, IInv, KeysInv, Saved, TypeOK, TablesOK
  <2>2. row' \in [Runs -> JobStatus \cup {None}]
    BY <1>1, <1>2, <1>10, <2>1, RunUpdate DEF audit_saved, TypeOK, TablesOK, JobStatus, Terminal, ResultStatus, Result
  <2> QED BY <1>2, <1>10, <2>2, ExecAtType
          DEF audit_saved, TypeOK, TablesOK, ClientsOK, OthersOK, ExecPlace, clientVars, pollVars
<1>11. CASE report(e) \/ raises(e)
  BY <1>2, <1>11, ExecAtType
     DEF report, raises, TypeOK, TablesOK, ClientsOK, OthersOK, ExecPlace, tableVars, clientVars, pollVars
<1> QED BY <1>3, <1>4, <1>5, <1>6, <1>7, <1>8, <1>9, <1>10, <1>11 DEF PipelineStep

\* A step of the background task keeps the types.
LEMMA TaskType ==
    ASSUME IInv, NEW r \in Runs, TaskStep(r)
    PROVE  TypeOK'
<1>1. TypeOK /\ r \in Executors
  BY DEF IInv, Executors
<1>2. CASE task_starts(r)
  <2>1. slot' \in [Runs -> {"idle", "waiting", "executing"}]
    BY <1>1, <1>2 DEF task_starts, Runner!Start, TypeOK, OthersOK
  <2> QED BY <1>1, <1>2, <2>1, ExecAtType
          DEF task_starts, TypeOK, TablesOK, ClientsOK, OthersOK, ExecPlace, tableVars, clientVars, pollVars
<1>3. CASE task_running(r)
  <2>1. ereq[r].run = r
    BY <1>3 DEF task_running, IInv, PlacesInv, Active
  <2>2. job' \in [Runs -> Job \cup {None}]
    BY <1>1, <1>3, <2>1, JobUpdate DEF task_running, TypeOK, TablesOK, JobStatus
  <2> QED BY <1>1, <1>3, <2>2, ExecAtType
          DEF task_running, TypeOK, TablesOK, ClientsOK, OthersOK, ExecPlace, clientVars, pollVars
<1>4. CASE task_done(r)
  <2>1. esaved[r] \in Result
    BY <1>1, <1>4 DEF task_done, IInv, KeysInv, Saved, TypeOK, TablesOK
  <2>2. job' \in [Runs -> Job \cup {None}]
    BY <1>1, <1>4, <2>1, JobUpdate DEF task_done, TypeOK, TablesOK, JobStatus, Terminal, Result
  <2>3. slot' \in [Runs -> {"idle", "waiting", "executing"}]
    BY <1>1, <1>4 DEF task_done, Runner!End, TypeOK, OthersOK
  <2> QED BY <1>1, <1>4, <2>2, <2>3, ExecResetType
          DEF task_done, TypeOK, TablesOK, ClientsOK, OthersOK, clientVars, pollVars
<1>5. CASE task_failed_run(r)
  <2>1. row' \in [Runs -> JobStatus \cup {None}]
    BY <1>1, <1>5, RunUpdate DEF task_failed_run, TypeOK, TablesOK, JobStatus, Terminal, ResultStatus
  <2> QED BY <1>1, <1>5, <2>1, ExecAtType
          DEF task_failed_run, TypeOK, TablesOK, ClientsOK, OthersOK, ExecPlace, clientVars, pollVars
<1>6. CASE task_failed_job(r)
  <2>1. job' \in [Runs -> Job \cup {None}]
    BY <1>1, <1>6, JobUpdate DEF task_failed_job, TypeOK, TablesOK, JobStatus, Terminal, ResultStatus
  <2>2. slot' \in [Runs -> {"idle", "waiting", "executing"}]
    BY <1>1, <1>6 DEF task_failed_job, Runner!End, TypeOK, OthersOK
  <2> QED BY <1>1, <1>6, <2>1, <2>2, ExecResetType
          DEF task_failed_job, TypeOK, TablesOK, ClientsOK, OthersOK, clientVars, pollVars
<1> QED BY <1>2, <1>3, <1>4, <1>5, <1>6 DEF TaskStep

\* The end of a synchronous request keeps the types.
LEMMA SyncType ==
    ASSUME IInv, NEW c \in Clients, SyncStep(c)
    PROVE  TypeOK'
<1>1. TypeOK /\ c \in Executors
  BY DEF IInv, Executors
<1>2. Active(c) /\ creq[c] \in Request /\ creq[c].run \in Runs
  <2>1. Active(c)
    BY DEF SyncStep, sync_done, sync_failed_job, sync_failed_run, legacy_sync_done, legacy_sync_failed, Active
  <2> QED BY <2>1, <1>1 DEF IInv, PlacesInv, Request
<1>3. ASSUME epc[c] = "returned" PROVE esaved[c] \in Result
  BY <1>1, <1>3 DEF IInv, KeysInv, Saved, TypeOK, TablesOK
<1>4. CASE sync_done(c)
  <2>1. esaved[c] \in Result
    BY <1>3, <1>4 DEF sync_done
  <2>2. job' \in [Runs -> Job \cup {None}]
    BY <1>1, <1>2, <1>4, <2>1, JobUpdate DEF sync_done, TypeOK, TablesOK, JobStatus, Terminal, Result
  <2> QED BY <1>1, <1>4, <2>1, <2>2, ExecResetType, RespondType
          DEF sync_done, TypeOK, TablesOK, OthersOK, AnswerKind, pollVars
<1>5. CASE sync_failed_job(c)
  <2>1. job' \in [Runs -> Job \cup {None}]
    BY <1>1, <1>2, <1>5, JobUpdate DEF sync_failed_job, TypeOK, TablesOK, JobStatus, Terminal, ResultStatus
  <2> QED BY <1>1, <1>5, <2>1, ExecAtType
          DEF sync_failed_job, TypeOK, TablesOK, ClientsOK, OthersOK, ExecPlace, clientVars, pollVars
<1>6. CASE sync_failed_run(c)
  <2>1. row' \in [Runs -> JobStatus \cup {None}]
    BY <1>1, <1>2, <1>6, RunUpdate DEF sync_failed_run, TypeOK, TablesOK, JobStatus, Terminal, ResultStatus
  <2> QED BY <1>1, <1>6, <2>1, ExecResetType, RespondType
          DEF sync_failed_run, TypeOK, TablesOK, OthersOK, AnswerKind, pollVars
<1>7. CASE legacy_sync_done(c)
  <2>1. esaved[c] \in Result
    BY <1>3, <1>7 DEF legacy_sync_done
  <2>2. ClientsOK'
    BY <1>1, <1>7, <2>1 DEF legacy_sync_done, TypeOK, ClientsOK, ClientPlace
  <2> QED BY <1>1, <1>7, <2>2, ExecResetType
          DEF legacy_sync_done, TypeOK, TablesOK, OthersOK, tableVars, pollVars
<1>8. CASE legacy_sync_failed(c)
  BY <1>1, <1>8, ExecResetType, RespondType
     DEF legacy_sync_failed, TypeOK, TablesOK, OthersOK, AnswerKind, tableVars, pollVars
<1> QED BY <1>4, <1>5, <1>6, <1>7, <1>8 DEF SyncStep

\* A poll keeps the types.
LEMMA PollType ==
    ASSUME TypeOK, NEW p \in Pollers, PollStep(p)
    PROVE  TypeOK'
<1> USE DEF TypeOK, TablesOK, ClientsOK, ExecutorsOK, OthersOK, tableVars, clientVars, execVars
<1>1. CASE \E r \in Runs : poll_row(p, r)
  <2>1. PICK r \in Runs : poll_row(p, r)
    BY <1>1
  <2>2. [at |-> "result", run |-> r, row |-> row[r], result |-> None] \in Poll
    BY <2>1 DEF poll_row, Poll
  <2> QED BY <2>1, <2>2 DEF poll_row
<1>2. CASE poll_result(p)
  <2>1. poll[p] \in Poll /\ poll[p].run \in Runs
    BY <1>2 DEF poll_result, Poll
  <2>2. result_status(poll[p].run) \in Terminal \cup {None}
    <3>1. CASE get(poll[p].run) = {}
      BY <3>1 DEF result_status
    <3>2. CASE get(poll[p].run) # {}
      <4>1. (CHOOSE x \in get(poll[p].run) : TRUE) \in results
        BY <3>2 DEF get
      <4> QED BY <3>2, <4>1 DEF result_status, Result, Terminal
    <3> QED BY <3>1, <3>2
  <2>3. [poll[p] EXCEPT !.at = "job", !.result = result_status(poll[p].run)] \in Poll
    BY <2>1, <2>2 DEF Poll
  <2>4. poll' = [poll EXCEPT ![p] = [poll[p] EXCEPT !.at = "job", !.result = result_status(poll[p].run)]]
    BY <1>2 DEF poll_result
  <2> QED BY <1>2, <2>3, <2>4 DEF poll_result
<1>3. CASE poll_job(p)
  <2>1. poll[p] \in Poll /\ poll[p].run \in Runs /\ poll[p].row \in JobStatus /\ poll[p].result \in Terminal \cup {None}
    BY <1>3 DEF poll_job, Poll
  <2>2. answered_status(poll[p].result, job[poll[p].run], poll[p].row) \in JobStatus
    BY <2>1 DEF answered_status, JobStatus, Job
  <2>3. [run |-> poll[p].run, status |-> answered_status(poll[p].result, job[poll[p].run], poll[p].row)] \in Told
    BY <2>1, <2>2 DEF Told
  <2> QED BY <1>3, <2>3 DEF poll_job
<1> QED BY <1>1, <1>2, <1>3 DEF PollStep

\* So does a mishap.
LEMMA MishapType == ASSUME TypeOK, Mishap PROVE TypeOK'
<1>1. ASSUME NEW r \in Runs, task_write_fails(r) PROVE TypeOK'
  <2>1. slot' \in [Runs -> {"idle", "waiting", "executing"}] /\ mishaps' \in 0..MaxMishaps
    BY <1>1, ServiceAssumption DEF task_write_fails, Runner!End, TypeOK, OthersOK
  <2> QED BY <1>1, <2>1, ExecResetType
          DEF task_write_fails, TypeOK, TablesOK, ClientsOK, OthersOK, Executors, tableVars, clientVars, pollVars
<1>2. ASSUME NEW c \in Clients, handler_write_fails(c) PROVE TypeOK'
  <2>1. mishaps' \in 0..MaxMishaps
    BY <1>2, ServiceAssumption DEF handler_write_fails, TypeOK, OthersOK
  <2> QED BY <1>2, <2>1, ExecResetType, RespondType
          DEF handler_write_fails, TypeOK, TablesOK, OthersOK, Executors, AnswerKind, tableVars, pollVars
<1>3. CASE Restart
  <2>1. mishaps' \in 0..MaxMishaps
    BY <1>3, ServiceAssumption DEF Restart, TypeOK, OthersOK
  <2>2. ClientsOK'
    BY <1>3 DEF Restart, TypeOK, ClientsOK, ClientPlace, AnswerKind
  <2>3. ExecutorsOK'
    BY <1>3 DEF Restart, TypeOK, ExecutorsOK, ExecPlace
  <2> QED BY <1>3, <2>1, <2>2, <2>3 DEF Restart, TypeOK, TablesOK, OthersOK, tableVars
<1> QED BY <1>1, <1>2, <1>3 DEF Mishap

\* Every step keeps the types.
LEMMA TypeStep == IInv /\ [Next]_vars => TypeOK'
<1>1. ASSUME IInv, UNCHANGED vars PROVE TypeOK'
  BY <1>1 DEF vars, IInv, TypeOK, TablesOK, ClientsOK, ExecutorsOK, OthersOK, tableVars, clientVars, execVars, pollVars
<1> QED BY <1>1, ArriveType, HandlerType, SyncType, PipelineType, TaskType, PollType, MishapType DEF Next, IInv

-----------------------------------------------------------------------------
\* At the start nobody is anywhere.
LEMMA PlacesInit == Init => PlacesInv
  BY ServiceAssumption DEF Init, PlacesInv, Active, Executors

\* A step that moves client c alone, to a place other than "idle" and
\* "waiting", keeps the places if the client was not waiting.
LEMMA ClientMoves ==
    ASSUME PlacesInv, TypeOK, NEW c \in Clients, cpc[c] \notin {"idle", "waiting"},
           UNCHANGED <<creq, cend, epc, ereq, ever>>,
           NEW place \in ClientPlace \ {"idle", "waiting"}, cpc' = [cpc EXCEPT ![c] = place],
           NEW x, given' = [given EXCEPT ![c] = x], place = "closing" => x # None
    PROVE  PlacesInv'
  BY DEF PlacesInv, TypeOK, ClientsOK, Active

\* An answer keeps the places of a client whose executor is idle.
LEMMA RespondPlaces ==
    ASSUME PlacesInv, TypeOK, NEW c \in Clients, cpc[c] \notin {"idle", "waiting"},
           UNCHANGED <<epc, ereq, ever>>, NEW kind, NEW x, Respond(c, kind, x)
    PROVE  PlacesInv'
<1>1. UNCHANGED <<creq, cend, epc, ereq, ever>>
  BY DEF Respond
<1>2. cpc' = [cpc EXCEPT ![c] = "done"] /\ given' = [given EXCEPT ![c] = x]
  BY DEF Respond
<1>3. "done" \in ClientPlace \ {"idle", "waiting"}
  BY DEF ClientPlace
<1> QED BY <1>1, <1>2, <1>3, ClientMoves

\* So does going on to a place without an executor.
LEMMA ContinuePlaces ==
    ASSUME PlacesInv, TypeOK, NEW c \in Clients, cpc[c] \notin {"idle", "waiting"},
           UNCHANGED <<epc, ereq, ever>>,
           NEW place \in ClientPlace \ {"idle", "waiting", "closing"}, Continue(c, place)
    PROVE  PlacesInv'
<1>1. given' = [given EXCEPT ![c] = given[c]]
  BY DEF Continue, TypeOK, ClientsOK
<1> QED BY <1>1, ClientMoves DEF Continue

\* Handler steps keep the places.
LEMMA HandlerPlaces ==
    ASSUME IInv, NEW c \in Clients, HandlerStep(c)
    PROVE  PlacesInv'
<1>1. /\ TypeOK /\ PlacesInv
      /\ creq[c] \in Request /\ creq[c].run \in Runs /\ cend[c] \in Endpoints
  BY HandlerHasRequest DEF IInv
<1>2. cpc[c] \notin {"idle", "waiting"}
  BY DEF HandlerStep, check_submission_lookup, check_submission_run, create_run, create_job, submit,
     sync_running, legacy_sync_closes
<1>4. CASE check_submission_lookup(c)
  <2>1. UNCHANGED <<epc, ereq, ever>>
    BY <1>4 DEF check_submission_lookup, execVars
  <2>2. CASE Continue(c, "runCheck")
    BY <1>1, <1>2, <2>1, <2>2, ContinuePlaces DEF ClientPlace
  <2>3. CASE \E x \in results :
                \/ Respond(c, "conflict", None)
                \/ Respond(c, "accepted", x)
                \/ Respond(c, "result", x)
                \/ Continue(c, "submit")
                \/ /\ cpc' = [cpc EXCEPT ![c] = "closing"]
                   /\ given' = [given EXCEPT ![c] = x]
                   /\ UNCHANGED <<creq, cend, answer>>
    <3>1. PICK x \in results :
                \/ Respond(c, "conflict", None)
                \/ Respond(c, "accepted", x)
                \/ Respond(c, "result", x)
                \/ Continue(c, "submit")
                \/ /\ cpc' = [cpc EXCEPT ![c] = "closing"]
                   /\ given' = [given EXCEPT ![c] = x]
                   /\ UNCHANGED <<creq, cend, answer>>
      BY <2>3
    <3>2. x # None
      BY <1>1, ServiceAssumption DEF TypeOK, TablesOK
    <3> QED BY <1>1, <1>2, <2>1, <3>1, <3>2, ClientMoves, ContinuePlaces, RespondPlaces DEF ClientPlace
  <2> QED BY <1>1, <1>4, <2>2, <2>3, LookupCases
<1>5. CASE check_submission_run(c) \/ create_run(c) \/ legacy_sync_closes(c)
  <2>1. UNCHANGED <<epc, ereq, ever>>
    BY <1>5 DEF check_submission_run, create_run, legacy_sync_closes, execVars
  <2>2. \/ \E kind, x : Respond(c, kind, x)
        \/ \E place \in {"createRun", "createJob"} : Continue(c, place)
    BY <1>5 DEF check_submission_run, create_run, legacy_sync_closes
  <2> QED BY <1>1, <1>2, <2>1, <2>2, RespondPlaces, ContinuePlaces DEF ClientPlace
<1>6. CASE submit(c)
  <2>1. CASE UNCHANGED execVars
    BY <1>1, <1>2, <1>6, <2>1, RespondPlaces DEF submit, execVars
  <2>2. CASE ExecStarts(creq[c].run, creq[c], "queued")
    BY <1>1, <1>2, <1>6, <2>2, ServiceAssumption
       DEF submit, Respond, ExecStarts, PlacesInv, Active, TypeOK, ClientsOK, ExecutorsOK, Executors
  <2> QED BY <1>6, <2>1, <2>2 DEF submit
<1>7. CASE create_job(c) \/ sync_running(c)
  <2>1. \/ \E place \in {"submit", "update"} : Continue(c, place) /\ UNCHANGED execVars
        \/ Continue(c, "waiting") /\ ExecStarts(c, creq[c], "keyCheck")
    BY <1>1, <1>7, ServiceAssumption DEF create_job, sync_running
  <2>2. CASE \E place \in {"submit", "update"} : Continue(c, place) /\ UNCHANGED execVars
    BY <1>1, <1>2, <2>2, ContinuePlaces DEF ClientPlace, execVars
  <2>3. CASE Continue(c, "waiting") /\ ExecStarts(c, creq[c], "keyCheck")
    BY <1>1, <2>3, ServiceAssumption
       DEF Continue, ExecStarts, PlacesInv, Active, TypeOK, ClientsOK, ExecutorsOK, Executors
  <2> QED BY <2>1, <2>2, <2>3
<1> QED BY <1>4, <1>5, <1>6, <1>7 DEF HandlerStep

\* An executor that moves on, keeping its request, keeps the places.
LEMMA ExecutorMoves ==
    ASSUME PlacesInv, TypeOK, NEW e \in Executors, Active(e),
           UNCHANGED <<clientVars, ereq>>, UNCHANGED ever \/ ever' = [ever EXCEPT ![e] = 1],
           NEW place \in ExecPlace, epc' = [epc EXCEPT ![e] = place],
           place \in {"saveCheck", "insert"} => ever'[e] = 1
    PROVE  PlacesInv'
  BY DEF PlacesInv, TypeOK, ClientsOK, ExecutorsOK, Active, clientVars, Executors

\* Pipeline steps keep the places: a run without a result draws version 1.
LEMMA PipelinePlaces ==
    ASSUME IInv, NEW e \in Executors, PipelineStep(e)
    PROVE  PlacesInv'
<1>1. TypeOK /\ PlacesInv /\ Active(e) /\ UNCHANGED <<clientVars, ereq>>
  BY DEF IInv, PipelineStep, key_check, research_starts, research_ends, research_skipped, draw_version,
     save_check, save_insert, audit_saved, report, raises, Active, ExecAt
<1>2. CASE draw_version(e)
  <2>1. ereq[e].run \in Runs
    BY <1>1 DEF PlacesInv, Request
  <2>2. Pristine(ereq[e].run)
    BY <1>2, <2>1 DEF IInv, HandsInv, HandsOf, draw_version, Core
  <2>3. ever' = [ever EXCEPT ![e] = 1]
    BY <1>2, <2>1, <2>2, FirstVersion DEF draw_version
  <2>4. ever'[e] = 1
    BY <1>1, <2>3 DEF TypeOK, ExecutorsOK
  <2> QED BY <1>1, <1>2, <2>3, <2>4, ExecutorMoves DEF draw_version, ExecPlace
<1>3. CASE save_check(e)
  <2>1. ever[e] = 1
    BY <1>1, <1>3 DEF save_check, PlacesInv
  <2>2. UNCHANGED ever /\ \E place \in {"insert", "audit"} : epc' = [epc EXCEPT ![e] = place]
    BY <1>3 DEF save_check, ExecAt
  <2> QED BY <1>1, <2>1, <2>2, ExecutorMoves DEF ExecPlace
<1>4. CASE ~draw_version(e) /\ ~save_check(e)
  <2>1. UNCHANGED ever /\ \E place \in ExecPlace \ {"saveCheck", "insert"} : epc' = [epc EXCEPT ![e] = place]
    BY <1>4 DEF PipelineStep, key_check, research_starts, research_ends, research_skipped,
       save_insert, audit_saved, report, raises, ExecAt, ExecPlace
  <2> QED BY <1>1, <2>1, ExecutorMoves
<1> QED BY <1>2, <1>3, <1>4

\* Task steps keep the places.
LEMMA TaskPlaces ==
    ASSUME IInv, NEW r \in Runs, TaskStep(r)
    PROVE  PlacesInv'
<1>1. TypeOK /\ PlacesInv /\ Active(r) /\ r \in Executors /\ UNCHANGED clientVars
  BY DEF IInv, TaskStep, task_starts, task_running, task_done, task_failed_run, task_failed_job,
     Active, Executors
<1>2. CASE task_starts(r) \/ task_running(r) \/ task_failed_run(r)
  <2>1. UNCHANGED <<ereq, ever>> /\ \E place \in {"update", "keyCheck", "raised2"} : epc' = [epc EXCEPT ![r] = place]
    BY <1>2 DEF task_starts, task_running, task_failed_run, ExecAt
  <2> QED BY <1>1, <2>1, ExecutorMoves DEF ExecPlace
<1>3. CASE task_done(r) \/ task_failed_job(r)
  <2>1. ExecReset(r)
    BY <1>3 DEF task_done, task_failed_job
  <2> QED BY <1>1, <2>1, ServiceAssumption
          DEF ExecReset, PlacesInv, Active, TypeOK, ClientsOK, ExecutorsOK, clientVars, Executors
<1> QED BY <1>2, <1>3 DEF TaskStep

\* The ends of synchronous requests keep the places.
LEMMA SyncPlaces ==
    ASSUME IInv, NEW c \in Clients, SyncStep(c)
    PROVE  PlacesInv'
<1>1. TypeOK /\ PlacesInv /\ Active(c) /\ c \in Executors /\ c \notin Runs
  BY ServiceAssumption DEF IInv, SyncStep, sync_done, sync_failed_job, sync_failed_run, legacy_sync_done,
     legacy_sync_failed, Active, Executors
<1>2. cpc[c] = "waiting"
  BY <1>1 DEF PlacesInv
<1>3. CASE sync_failed_job(c)
  BY <1>1, <1>3, ExecutorMoves DEF sync_failed_job, ExecAt, ExecPlace
<1>4. CASE ~sync_failed_job(c)
  <2>1. ExecReset(c)
    BY <1>4 DEF SyncStep, sync_done, sync_failed_run, legacy_sync_done, legacy_sync_failed
  <2>2. \E place \in {"done", "closing"} :
           /\ cpc' = [cpc EXCEPT ![c] = place]
           /\ UNCHANGED <<creq, cend>>
           /\ \E x : given' = [given EXCEPT ![c] = x] /\ (place = "closing" => x = esaved[c] /\ epc[c] = "returned")
    BY <1>4 DEF SyncStep, sync_done, sync_failed_run, legacy_sync_done, legacy_sync_failed, Respond
  <2>3. epc[c] = "returned" => esaved[c] # None
    BY <1>1, ServiceAssumption DEF IInv, KeysInv, Saved, TypeOK, TablesOK
  <2> QED BY <1>1, <1>2, <2>1, <2>2, <2>3
          DEF ExecReset, PlacesInv, Active, TypeOK, ClientsOK, ExecutorsOK
<1> QED BY <1>3, <1>4

\* Failed writes and restarts keep the places.
LEMMA MishapPlaces == ASSUME IInv, Mishap PROVE PlacesInv'
<1>1. TypeOK /\ PlacesInv
  BY DEF IInv
<1>2. ASSUME NEW r \in Runs, task_write_fails(r) PROVE PlacesInv'
  BY <1>1, <1>2, ServiceAssumption
     DEF task_write_fails, ExecReset, PlacesInv, Active, TypeOK, ClientsOK, ExecutorsOK, Executors, clientVars
<1>3. ASSUME NEW c \in Clients, handler_write_fails(c) PROVE PlacesInv'
  <2>1. cpc[c] # "idle" /\ c \notin Runs
    BY <1>1, <1>3, ServiceAssumption DEF handler_write_fails, PlacesInv, Active
  <2> QED BY <1>1, <1>3, <2>1
          DEF handler_write_fails, Respond, ExecReset, PlacesInv, Active, TypeOK, ClientsOK, ExecutorsOK, Executors
<1>4. CASE Restart
  BY <1>1, <1>4 DEF Restart, PlacesInv, Active, TypeOK, ClientsOK, Executors
<1> QED BY <1>2, <1>3, <1>4 DEF Mishap

\* Every step keeps the places.
LEMMA PlacesStep == IInv /\ [Next]_vars => PlacesInv'
<1>1. ASSUME IInv, UNCHANGED vars PROVE PlacesInv'
  BY <1>1 DEF vars, IInv, PlacesInv, Active, clientVars, execVars
<1>2. ASSUME IInv, NEW c \in Clients, Arrive(c) PROVE PlacesInv'
  <2>1. cpc[c] = "idle"
    BY <1>2 DEF Arrive
  <2>2. ~Active(c)
    BY <1>2, <2>1 DEF IInv, PlacesInv
  <2> QED BY <1>2, <2>1, <2>2 DEF Arrive, IInv, PlacesInv, Active, TypeOK, ClientsOK, execVars
<1>3. ASSUME IInv, NEW p \in Pollers, PollStep(p) PROVE PlacesInv'
  BY <1>3 DEF PollStep, poll_row, poll_result, poll_job, IInv, PlacesInv, Active, clientVars, execVars
<1> QED BY <1>1, <1>2, <1>3, HandlerPlaces, SyncPlaces, PipelinePlaces, TaskPlaces, MishapPlaces DEF Next

-----------------------------------------------------------------------------
\* Keys: at the start there are no jobs and no results.
LEMMA KeysInit == Init => KeysInv
  BY ServiceAssumption DEF Init, KeysInv, Active, Executors, Saved

\* A step that leaves every job's existence and key alone.
JobsKept == \A q \in Runs : /\ job[q] = None <=> job'[q] = None
                            /\ job[q] # None => job'[q].key = job[q].key

\* Updates of a job keep its existence and key.
LEMMA JobsKeptOrNot ==
    ASSUME TypeOK
    PROVE  /\ UNCHANGED job => JobsKept
           /\ \A r \in Runs, status \in JobStatus, error \in BOOLEAN : update_job(r, status, error) => JobsKept
<1>1. UNCHANGED job => JobsKept
  BY DEF JobsKept
<1>2. ASSUME NEW r \in Runs, NEW status \in JobStatus, NEW error \in BOOLEAN, update_job(r, status, error)
      PROVE  JobsKept
  <2>1. /\ \A q \in Runs : q # r => job'[q] = job[q]
        /\ job[r] = None <=> job'[r] = None
        /\ job[r] # None => job'[r].key = job[r].key
    BY <1>2, JobUpdate DEF TypeOK, TablesOK
  <2> QED BY <2>1 DEF JobsKept
<1> QED BY <1>1, <1>2

\* Runs named by requests and results.
LEMMA RunsNamed ==
    ASSUME TypeOK, PlacesInv
    PROVE  /\ \A x \in results : x.run \in Runs
           /\ \A c \in Clients : cpc[c] # "idle" => creq[c].run \in Runs
           /\ \A e \in Executors : Active(e) => ereq[e].run \in Runs
  BY DEF TypeOK, TablesOK, Result, PlacesInv, Request

\* An executor that moves on and reports nothing new, or a stored result with its key.
LEMMA ExecutorKeys ==
    ASSUME TypeOK, PlacesInv, KeysInv, JobsKept, UNCHANGED <<results, clientVars, ereq>>,
           NEW e \in Executors, Active(e), NEW place, epc' = [epc EXCEPT ![e] = place],
           \/ UNCHANGED esaved /\ (place \in Saved => epc[e] \in Saved)
           \/ \E x \in results : x.key = idempotency(ereq[e]) /\ esaved' = [esaved EXCEPT ![e] = x]
    PROVE  KeysInv'
  BY RunsNamed DEF JobsKept, TypeOK, ExecutorsOK, KeysInv, HasJob, Active, clientVars, idempotency

\* Pipeline steps keep the keys: a result is stored under its job's key.
LEMMA PipelineKeys ==
    ASSUME IInv, NEW e \in Executors, PipelineStep(e)
    PROVE  KeysInv'
<1>1. TypeOK /\ PlacesInv /\ KeysInv /\ Active(e) /\ UNCHANGED <<clientVars, ereq, job>>
  BY DEF IInv, PipelineStep, key_check, research_starts, research_ends, research_skipped, draw_version,
     save_check, save_insert, audit_saved, report, raises, Active, ExecAt, tableVars
<1>2. JobsKept
  BY <1>1 DEF JobsKept
<1>3. CASE save_insert(e) /\ ~UNCHANGED results
  <2>1. PICK status \in ResultStatus :
           LET x == [run |-> ereq[e].run, version |-> ever[e], key |-> idempotency(ereq[e]),
                     body |-> ereq[e].body, status |-> status]
           IN  /\ results' = results \cup {x}
               /\ epc' = [epc EXCEPT ![e] = "audit"]
               /\ esaved' = [esaved EXCEPT ![e] = x]
    BY <1>3 DEF save_insert, insert
  <2> DEFINE x == [run |-> ereq[e].run, version |-> ever[e], key |-> idempotency(ereq[e]),
                   body |-> ereq[e].body, status |-> status]
  <2>2. x.run = ereq[e].run /\ x.key = idempotency(ereq[e])
    OBVIOUS
  <2>3. results' = results \cup {x} /\ epc' = [epc EXCEPT ![e] = "audit"] /\ esaved' = [esaved EXCEPT ![e] = x]
    BY <2>1
  <2> HIDE DEF x
  <2> QED BY <1>1, <2>2, <2>3
          DEF TypeOK, ExecutorsOK, KeysInv, HasJob, Active, clientVars, idempotency, Saved
<1>4. CASE ~(save_insert(e) /\ ~UNCHANGED results)
  <2>1. UNCHANGED results
    BY <1>4 DEF PipelineStep, key_check, research_starts, research_ends, research_skipped, draw_version,
       save_check, audit_saved, report, raises, tableVars
  <2>2. \E place :
           /\ epc' = [epc EXCEPT ![e] = place]
           /\ \/ UNCHANGED esaved /\ (place \in Saved => epc[e] \in Saved)
              \/ \E x \in results : x.key = idempotency(ereq[e]) /\ esaved' = [esaved EXCEPT ![e] = x]
    <3>1. CASE key_check(e) \/ save_check(e)
      BY <3>1 DEF key_check, save_check, ExecAt, get_by_idempotency_key, Saved
    <3>2. CASE save_insert(e)
      <4>1. ExecAt(e, "raised")
        BY <1>4, <3>2 DEF save_insert, insert, IntegrityError
      <4>2. epc' = [epc EXCEPT ![e] = "raised"] /\ UNCHANGED esaved /\ "raised" \notin Saved
        BY <4>1 DEF ExecAt, Saved
      <4> QED BY <4>2
    <3>3. CASE ~(key_check(e) \/ save_check(e) \/ save_insert(e))
      BY <3>3 DEF PipelineStep, research_starts, research_ends, research_skipped, draw_version,
         audit_saved, report, raises, ExecAt, Saved
    <3> QED BY <3>1, <3>2, <3>3
  <2> QED BY <1>1, <1>2, <2>1, <2>2, ExecutorKeys
<1> QED BY <1>3, <1>4

\* Task steps keep the jobs' existence and keys.
LEMMA TaskJobs == ASSUME IInv, NEW r \in Runs, TaskStep(r) PROVE JobsKept
<1>1. TypeOK /\ PlacesInv /\ KeysInv /\ Active(r) /\ r \in Executors
  BY DEF IInv, TaskStep, task_starts, task_running, task_done, task_failed_run, task_failed_job, Active, Executors
<1>2. epc[r] = "returned" => esaved[r].status \in JobStatus
  BY <1>1 DEF KeysInv, Saved, TypeOK, TablesOK, Result, JobStatus, Terminal
<1>3. ereq[r].run = r
  BY <1>1 DEF PlacesInv
<1>4. \/ UNCHANGED job
      \/ \E status \in JobStatus, error \in BOOLEAN : update_job(r, status, error)
  BY <1>2, <1>3 DEF TaskStep, task_starts, task_running, task_done, task_failed_run, task_failed_job,
     tableVars, JobStatus, Terminal, ResultStatus
<1> QED BY <1>1, <1>4, JobsKeptOrNot

\* So do the ends of synchronous requests.
LEMMA SyncJobs == ASSUME IInv, NEW c \in Clients, SyncStep(c) PROVE JobsKept
<1>1. TypeOK /\ PlacesInv /\ KeysInv /\ Active(c) /\ c \in Executors
  BY DEF IInv, SyncStep, sync_done, sync_failed_job, sync_failed_run, legacy_sync_done, legacy_sync_failed,
     Active, Executors
<1>2. epc[c] = "returned" => esaved[c].status \in JobStatus
  BY <1>1 DEF KeysInv, Saved, TypeOK, TablesOK, Result, JobStatus, Terminal
<1>3. creq[c].run \in Runs
  BY <1>1, RunsNamed DEF PlacesInv
<1>4. \/ UNCHANGED job
      \/ \E status \in JobStatus, error \in BOOLEAN : update_job(creq[c].run, status, error)
  BY <1>2 DEF SyncStep, sync_done, sync_failed_job, sync_failed_run, legacy_sync_done, legacy_sync_failed,
     tableVars, JobStatus, Terminal, ResultStatus
<1> QED BY <1>1, <1>3, <1>4, JobsKeptOrNot

\* Task steps keep the keys.
LEMMA TaskKeys ==
    ASSUME IInv, NEW r \in Runs, TaskStep(r)
    PROVE  KeysInv'
<1>1. TypeOK /\ PlacesInv /\ KeysInv /\ Active(r) /\ r \in Executors /\ UNCHANGED <<clientVars, results>>
  BY DEF IInv, TaskStep, task_starts, task_running, task_done, task_failed_run, task_failed_job,
     Active, Executors, tableVars
<1>2. JobsKept
  BY TaskJobs
<1>3. CASE task_starts(r) \/ task_running(r) \/ task_failed_run(r)
  <2>1. UNCHANGED <<ereq, esaved>> /\ \E place \in {"update", "keyCheck", "raised2"} : epc' = [epc EXCEPT ![r] = place]
    BY <1>3 DEF task_starts, task_running, task_failed_run, ExecAt
  <2> QED BY <1>1, <1>2, <2>1, ExecutorKeys DEF Saved
<1>4. CASE task_done(r) \/ task_failed_job(r)
  <2>1. ExecReset(r)
    BY <1>4 DEF task_done, task_failed_job
  <2> QED BY <1>1, <1>2, <2>1, RunsNamed
          DEF ExecReset, JobsKept, TypeOK, ExecutorsOK, KeysInv, HasJob, Active, clientVars, idempotency, Saved
<1> QED BY <1>3, <1>4 DEF TaskStep

\* The ends of synchronous requests keep the keys.
LEMMA SyncKeys ==
    ASSUME IInv, NEW c \in Clients, SyncStep(c)
    PROVE  KeysInv'
<1>1. TypeOK /\ PlacesInv /\ KeysInv /\ Active(c) /\ c \in Executors /\ UNCHANGED <<creq, results>>
  BY DEF IInv, SyncStep, sync_done, sync_failed_job, sync_failed_run, legacy_sync_done, legacy_sync_failed,
     Active, Executors, Respond, tableVars, clientVars
<1>2. creq[c].run \in Runs /\ HasJob(creq[c])
  BY <1>1, RunsNamed DEF PlacesInv, KeysInv
<1>3. JobsKept
  BY SyncJobs
<1>4. CASE sync_failed_job(c)
  BY <1>1, <1>3, <1>4, ExecutorKeys DEF sync_failed_job, ExecAt, Saved
<1>5. CASE ~sync_failed_job(c)
  <2>1. ExecReset(c) /\ \E place \in {"done", "closing"} : cpc' = [cpc EXCEPT ![c] = place]
    BY <1>5 DEF SyncStep, sync_done, sync_failed_run, legacy_sync_done, legacy_sync_failed, Respond
  <2> QED BY <1>1, <1>2, <1>3, <2>1, RunsNamed
          DEF ExecReset, JobsKept, TypeOK, ClientsOK, ExecutorsOK, KeysInv, PlacesInv, HasJob, Active, idempotency, Saved
<1> QED BY <1>4, <1>5

\* A client that moves on keeps the keys, if it has a job where it must.
LEMMA ClientKeys ==
    ASSUME TypeOK, PlacesInv, KeysInv, JobsKept, UNCHANGED <<results, execVars, creq>>,
           NEW c \in Clients, cpc[c] # "idle", NEW place, cpc' = [cpc EXCEPT ![c] = place],
           place \in {"submit", "update"} => HasJob(creq[c]),
           place = "createJob" => job[creq[c].run] = None,
           place = "closing" => job[creq[c].run] # None
    PROVE  KeysInv'
  BY RunsNamed DEF JobsKept, TypeOK, ClientsOK, KeysInv, HasJob, Active, PlacesInv, execVars, idempotency

\* So does one that hands its request to an executor.
LEMMA HandoverKeys ==
    ASSUME TypeOK, PlacesInv, KeysInv, JobsKept, UNCHANGED <<results, creq>>,
           NEW c \in Clients, cpc[c] # "idle", HasJob(creq[c]),
           NEW place \in {"waiting", "done"}, cpc' = [cpc EXCEPT ![c] = place],
           NEW e \in Executors, NEW start \in Early, ExecStarts(e, creq[c], start)
    PROVE  KeysInv'
  BY RunsNamed
     DEF JobsKept, TypeOK, ClientsOK, ExecutorsOK, KeysInv, HasJob, Active, PlacesInv, ExecStarts, idempotency,
         Saved, Early

\* Handler steps keep the keys: a job is created by the only client that holds its run.
LEMMA HandlerKeys ==
    ASSUME IInv, NEW c \in Clients, HandlerStep(c)
    PROVE  KeysInv'
<1>1. TypeOK /\ PlacesInv /\ KeysInv /\ HandsInv /\ cpc[c] # "idle" /\ cend[c] \in Endpoints /\ UNCHANGED <<results, creq>>
  <2>1. TypeOK /\ PlacesInv /\ KeysInv /\ HandsInv
    BY DEF IInv
  <2>2. UNCHANGED results
    BY DEF HandlerStep, check_submission_lookup, check_submission_run, create_run, create_job, submit,
       sync_running, legacy_sync_closes, tableVars
  <2>3. cpc[c] # "idle" /\ cend[c] \in Endpoints
    BY <2>1, HandlerHasRequest
  <2>4. UNCHANGED creq
    <3>1. CASE check_submission_lookup(c)
      BY <2>3, <3>1, LookupCases DEF Respond, Continue
    <3>2. CASE create_job(c)
      BY <2>3, <3>2, ServiceAssumption DEF create_job, Continue
    <3>3. CASE check_submission_run(c) \/ create_run(c) \/ submit(c) \/ sync_running(c) \/ legacy_sync_closes(c)
      BY <3>3 DEF check_submission_run, create_run, submit, sync_running, legacy_sync_closes, Respond, Continue
    <3> QED BY <3>1, <3>2, <3>3 DEF HandlerStep
  <2> QED BY <2>1, <2>2, <2>3, <2>4
<1>2. creq[c].run \in Runs
  BY <1>1, RunsNamed
<1>3. UNCHANGED job => JobsKept
  BY <1>1, JobsKeptOrNot
<1>4. CASE check_submission_lookup(c)
  <2>1. UNCHANGED <<job, execVars>>
    BY <1>4 DEF check_submission_lookup, tableVars
  <2>2. CASE Continue(c, "runCheck")
    BY <1>1, <1>3, <2>1, <2>2, ClientKeys DEF Continue
  <2>3. CASE \E x \in results :
                /\ x.run = creq[c].run /\ x.key = idempotency(creq[c])
                /\ \E place \in {"done", "submit", "closing"} : cpc' = [cpc EXCEPT ![c] = place]
    <3>1. HasJob(creq[c])
      BY <1>1, <2>3 DEF KeysInv, HasJob
    <3> QED BY <1>1, <1>3, <2>1, <2>3, <3>1, ClientKeys DEF HasJob
  <2>4. CASE cpc' = [cpc EXCEPT ![c] = "done"]
    BY <1>1, <1>3, <2>1, <2>4, ClientKeys
  <2> QED BY <1>1, <1>4, <2>2, <2>3, <2>4, LookupCases DEF Respond, Continue
<1>5. CASE check_submission_run(c) \/ create_run(c) \/ legacy_sync_closes(c)
  <2>1. UNCHANGED <<job, execVars>>
    BY <1>5 DEF check_submission_run, create_run, legacy_sync_closes, tableVars
  <2>2. \E place \in {"done", "createRun", "createJob"} :
           /\ cpc' = [cpc EXCEPT ![c] = place]
           /\ place = "createJob" => row[creq[c].run] = None
    BY <1>5 DEF check_submission_run, create_run, legacy_sync_closes, Respond, Continue
  <2>3. row[creq[c].run] = None => job[creq[c].run] = None
    BY <1>1, <1>2 DEF HandsInv, HandsOf
  <2> QED BY <1>1, <1>3, <2>1, <2>2, <2>3, ClientKeys
<1>6. CASE create_job(c)
  <2> DEFINE r == creq[c].run
             new == [status |-> "QUEUED", key |-> idempotency(creq[c]), error |-> FALSE]
  <2>1. cpc[c] = "createJob" /\ job[r] = None
    BY <1>1, <1>6 DEF create_job, KeysInv
  <2>2. job' = [job EXCEPT ![r] = new]
    BY <1>6, <2>1 DEF create_job
  <2>3. new # None /\ new.key = idempotency(creq[c])
    <3>1. new \in Job
      BY <1>1, KeyType DEF Job, JobStatus, PlacesInv
    <3> QED BY <3>1, ServiceAssumption
  <2> HIDE DEF new
  <2>4. /\ job'[r] # None /\ job'[r].key = idempotency(creq[c])
        /\ \A q \in Runs : q # r => job'[q] = job[q]
    BY <1>1, <1>2, <2>2, <2>3 DEF TypeOK, TablesOK
  <2>5. Pristine(r)
    BY <1>1, <2>1 DEF KeysInv, Pristine
  <2>6. \A d \in Clients : d # c /\ cpc[d] \in {"createJob", "submit", "update"} => creq[d].run # r
    BY <1>1, <1>2, <2>1, <2>5 DEF HandsInv, HandsOf, Holds
  <2>7. \A e \in Executors : Active(e) => ereq[e].run # r
    BY <1>1, <2>1 DEF KeysInv, HasJob
  <2>8. \E place \in {"submit", "update", "waiting"} :
           /\ cpc' = [cpc EXCEPT ![c] = place]
           /\ UNCHANGED execVars \/ ExecStarts(c, creq[c], "keyCheck")
    BY <1>1, <1>6, ServiceAssumption DEF create_job, Continue
  <2>9. \A x \in results : x.run # r
    BY <2>5 DEF Pristine
  <2>10. \A x \in results' : job'[x.run] # None /\ job'[x.run].key = x.key
    BY <1>1, <2>4, <2>9, RunsNamed DEF KeysInv
  <2>11. \A e \in Executors :
            /\ Active(e)' => HasJob(ereq[e])'
            /\ epc'[e] \in Saved => esaved'[e] \in results' /\ esaved'[e].key = idempotency(ereq'[e])
    <3>1. CASE UNCHANGED execVars
      BY <1>1, <2>4, <2>7, <3>1, RunsNamed DEF KeysInv, HasJob, Active, execVars
    <3>2. CASE ExecStarts(c, creq[c], "keyCheck")
      BY <1>1, <2>4, <2>7, <3>2, RunsNamed DEF KeysInv, HasJob, Active, ExecStarts, Saved, TypeOK, ExecutorsOK
    <3> QED BY <2>8, <3>1, <3>2
  <2>12. \A d \in Clients :
            /\ cpc'[d] \in {"submit", "update"} => HasJob(creq[d])'
            /\ cpc'[d] = "createJob" => job'[creq'[d].run] = None
            /\ cpc'[d] = "closing" => job'[creq'[d].run] # None
    <3>1. TAKE d \in Clients
    <3>2. CASE d = c
      BY <1>1, <2>4, <2>8, <3>2 DEF HasJob, TypeOK, ClientsOK, idempotency
    <3>3. CASE d # c
      <4>1. cpc'[d] = cpc[d] /\ creq'[d] = creq[d]
        BY <1>1, <2>8, <3>3 DEF TypeOK, ClientsOK
      <4>2. cpc[d] # "idle" => creq[d].run \in Runs
        BY <1>1, RunsNamed
      <4> QED BY <1>1, <2>4, <2>6, <3>3, <4>1, <4>2 DEF KeysInv, HasJob, idempotency
    <3> QED BY <3>2, <3>3
  <2> QED BY <2>10, <2>11, <2>12 DEF KeysInv, HasJob, idempotency
<1>7. CASE submit(c)
  <2>1. HasJob(creq[c]) /\ cpc' = [cpc EXCEPT ![c] = "done"] /\ UNCHANGED job
    BY <1>1, <1>7 DEF submit, KeysInv, Respond, tableVars
  <2>2. UNCHANGED execVars \/ ExecStarts(creq[c].run, creq[c], "queued")
    BY <1>7 DEF submit
  <2> QED BY <1>1, <1>2, <1>3, <2>1, <2>2, ClientKeys, HandoverKeys DEF Executors, Early
<1>8. CASE sync_running(c)
  <2>1. HasJob(creq[c]) /\ cpc' = [cpc EXCEPT ![c] = "waiting"] /\ ExecStarts(c, creq[c], "keyCheck")
    BY <1>1, <1>8 DEF sync_running, KeysInv, Continue
  <2>2. JobsKept
    BY <1>1, <1>2, <1>8, JobsKeptOrNot DEF sync_running, JobStatus
  <2> QED BY <1>1, <2>1, <2>2, HandoverKeys DEF Executors, Early
<1> QED BY <1>4, <1>5, <1>6, <1>7, <1>8 DEF HandlerStep

\* Failed writes and restarts keep the keys.
LEMMA MishapKeys == ASSUME IInv, Mishap PROVE KeysInv'
<1>1. TypeOK /\ PlacesInv /\ KeysInv /\ UNCHANGED <<results, job, creq>>
  BY DEF IInv, Mishap, task_write_fails, handler_write_fails, Restart, Respond, tableVars, clientVars
<1>2. ASSUME NEW e \in Executors, ExecReset(e), NEW c \in Clients,
             UNCHANGED cpc \/ cpc' = [cpc EXCEPT ![c] = "done"]
      PROVE  KeysInv'
  BY <1>1, <1>2
     DEF ExecReset, TypeOK, ClientsOK, ExecutorsOK, KeysInv, HasJob, Active, idempotency, Saved
<1>3. ASSUME NEW r \in Runs, task_write_fails(r) PROVE KeysInv'
  BY <1>1, <1>3
     DEF task_write_fails, clientVars, Executors, ExecReset, TypeOK, ClientsOK, ExecutorsOK, KeysInv, HasJob,
         Active, idempotency, Saved
<1>4. ASSUME NEW c \in Clients, handler_write_fails(c) PROVE KeysInv'
  BY <1>2, <1>4 DEF handler_write_fails, Executors, Respond
<1>5. CASE Restart
  BY <1>1, <1>5 DEF Restart, TypeOK, ClientsOK, KeysInv, Active, Saved, HasJob, idempotency
<1> QED BY <1>3, <1>4, <1>5 DEF Mishap

\* Every step keeps the keys.
LEMMA KeysStep == IInv /\ [Next]_vars => KeysInv'
<1>1. ASSUME IInv, UNCHANGED vars PROVE KeysInv'
  BY <1>1 DEF vars, IInv, KeysInv, HasJob, Active, clientVars, execVars, tableVars, idempotency
<1>2. ASSUME IInv, NEW c \in Clients, Arrive(c) PROVE KeysInv'
  <2>1. \A d \in Clients : d # c => cpc'[d] = cpc[d] /\ creq'[d] = creq[d]
    BY <1>2 DEF Arrive, IInv, TypeOK, ClientsOK
  <2>2. cpc'[c] = "lookup"
    BY <1>2 DEF Arrive, IInv, TypeOK, ClientsOK
  <2> QED BY <1>2, <2>1, <2>2
          DEF Arrive, IInv, KeysInv, HasJob, Active, execVars, tableVars, idempotency
<1>3. ASSUME IInv, NEW p \in Pollers, PollStep(p) PROVE KeysInv'
  BY <1>3 DEF PollStep, poll_row, poll_result, poll_job, IInv, KeysInv, HasJob, Active, clientVars, execVars,
     tableVars, idempotency
<1> QED BY <1>1, <1>2, <1>3, HandlerKeys, SyncKeys, PipelineKeys, TaskKeys, MishapKeys DEF Next

-----------------------------------------------------------------------------
\* Hands: at the start nobody has a run in hand.
LEMMA HandsInit == Init => HandsInv
  BY ServiceAssumption DEF Init, HandsInv, HandsOf, Pristine, Holds, Active, Executors, Early, Core

\* The rows exist as before, and a run without a row is without a job.
RowsKept == \A q \in Runs : /\ row'[q] = None <=> row[q] = None
                            /\ row'[q] = None => job'[q] = None

\* Updates of a row keep its existence.
LEMMA RowsKeptOrNot ==
    ASSUME TypeOK, HandsInv
    PROVE  /\ UNCHANGED <<row, job>> => RowsKept
           /\ \A r \in Runs, status \in JobStatus : update_run(r, status) /\ UNCHANGED job => RowsKept
           /\ JobsKept /\ UNCHANGED row => RowsKept
<1>1. UNCHANGED <<row, job>> => RowsKept
  BY DEF RowsKept, HandsInv, HandsOf
<1>2. ASSUME NEW r \in Runs, NEW status \in JobStatus, update_run(r, status), UNCHANGED job
      PROVE  RowsKept
  BY <1>2, ServiceAssumption DEF RowsKept, HandsInv, HandsOf, update_run, TypeOK, TablesOK
<1>3. JobsKept /\ UNCHANGED row => RowsKept
  BY DEF RowsKept, HandsInv, HandsOf, JobsKept
<1> QED BY <1>1, <1>2, <1>3

\* A step after which nobody has a run in hand who had not before keeps HandsInv.
LEMMA HandsShrink ==
    ASSUME HandsInv, RowsKept, UNCHANGED <<results, started>>,
           \A c \in Clients : Holds(c)' => Holds(c) /\ creq'[c] = creq[c],
           \A e \in Executors : Active(e)' =>
               /\ Active(e) /\ ereq'[e] = ereq[e]
               /\ epc'[e] \in Core => epc[e] \in Core
               /\ epc'[e] \in Early => epc[e] \in Early
    PROVE  HandsInv'
<1>1. \A e \in Executors : epc'[e] \in Core \cup Early => Active(e)'
  BY DEF Core, Early, Active
<1>2. \A r \in Runs : Pristine(r)' = Pristine(r)
  BY DEF Pristine
<1> QED BY <1>1, <1>2 DEF HandsInv, HandsOf, RowsKept

\* A client hands the run it holds to an executor.
LEMMA Handover ==
    ASSUME TypeOK, HandsInv, RowsKept, UNCHANGED <<results, started, creq>>,
           NEW c \in Clients, Holds(c), creq[c].run \in Runs,
           NEW place \in {"done", "waiting"}, cpc' = [cpc EXCEPT ![c] = place],
           NEW e \in Executors, NEW start \in Early, ExecStarts(e, creq[c], start)
    PROVE  HandsInv'
<1> DEFINE r == creq[c].run
<1>1. row[r] # None
  BY DEF HandsInv, HandsOf
<1>2. \A d \in Clients : Holds(d)' => d # c /\ Holds(d) /\ creq'[d] = creq[d]
  BY DEF Holds, TypeOK, ClientsOK
<1>3. /\ Active(e)' /\ ereq'[e].run = r /\ epc'[e] \in Early /\ epc'[e] \notin Core
      /\ \A f \in Executors : f # e => epc'[f] = epc[f] /\ ereq'[f] = ereq[f] /\ Active(f)' = Active(f)
  BY DEF ExecStarts, Active, TypeOK, ExecutorsOK, Early, Core
<1>4. \A f \in Executors : epc[f] \in Core \cup Early => Active(f)
  BY DEF Core, Early, Active
<1>5. \A q \in Runs : Pristine(q)' = Pristine(q)
  BY DEF Pristine
<1>6. ASSUME NEW q \in Runs, Pristine(q), q # r
      PROVE  /\ \A d, g \in Clients :
                    Holds(d)' /\ Holds(g)' /\ creq'[d].run = q /\ creq'[g].run = q => d = g
             /\ \A f, g \in Executors :
                    Active(f)' /\ Active(g)' /\ ereq'[f].run = q /\ ereq'[g].run = q => f = g
             /\ \A d \in Clients, f \in Executors :
                    ~(Holds(d)' /\ Active(f)' /\ creq'[d].run = q /\ ereq'[f].run = q)
             /\ \A d \in Clients : Holds(d)' /\ creq'[d].run = q => started'[q] = 0
             /\ \A f \in Executors : epc'[f] \in Early /\ ereq'[f].run = q => started'[q] = 0
  BY <1>2, <1>3, <1>6 DEF HandsInv, HandsOf
<1>7. ASSUME Pristine(r)
      PROVE  /\ \A d \in Clients : ~(Holds(d)' /\ creq'[d].run = r)
             /\ \A f \in Executors : Active(f)' /\ ereq'[f].run = r => f = e
             /\ started'[r] = 0
  BY <1>2, <1>3, <1>7 DEF HandsInv, HandsOf
<1>8. \A q \in Runs : row'[q] = None =>
        /\ job'[q] = None
        /\ Pristine(q)
        /\ started'[q] = 0
        /\ \A d \in Clients : ~(Holds(d)' /\ creq'[d].run = q)
        /\ \A f \in Executors : ~(Active(f)' /\ ereq'[f].run = q)
  BY <1>1, <1>2, <1>3 DEF HandsInv, HandsOf, RowsKept
<1>9. \A q \in Runs, f \in Executors :
        epc'[f] \in Core /\ ereq'[f].run = q => started'[q] = 1 /\ Pristine(q)
  BY <1>3 DEF HandsInv, HandsOf
<1>10. \A q \in Runs : started'[q] <= 1 /\ \A x \in results' : x.run = q => x.version = 1 /\ started'[q] = 1
  BY DEF HandsInv, HandsOf
<1>11. ASSUME NEW q \in Runs, Pristine(q)'
       PROVE /\ \A d, g \in Clients :
                    Holds(d)' /\ Holds(g)' /\ creq'[d].run = q /\ creq'[g].run = q => d = g
             /\ \A f, g \in Executors :
                    Active(f)' /\ Active(g)' /\ ereq'[f].run = q /\ ereq'[g].run = q => f = g
             /\ \A d \in Clients, f \in Executors :
                    ~(Holds(d)' /\ Active(f)' /\ creq'[d].run = q /\ ereq'[f].run = q)
             /\ \A d \in Clients : Holds(d)' /\ creq'[d].run = q => started'[q] = 0
             /\ \A f \in Executors : epc'[f] \in Early /\ ereq'[f].run = q => started'[q] = 0
  <2>1. CASE q # r
    BY <1>5, <1>6, <1>11, <2>1
  <2>2. CASE q = r
    BY <1>5, <1>7, <1>11, <2>2
  <2> QED BY <2>1, <2>2
<1> QED BY <1>5, <1>8, <1>9, <1>10, <1>11 DEF HandsInv, HandsOf

\* An executor stays in its part of the pipeline or leaves it.
LEMMA ExecutorHands ==
    ASSUME TypeOK, HandsInv, RowsKept, UNCHANGED <<results, started, clientVars, ereq>>,
           NEW e \in Executors, Active(e), NEW place, epc' = [epc EXCEPT ![e] = place],
           place \in Core => epc[e] \in Core, place \in Early => epc[e] \in Early
    PROVE  HandsInv'
<1>1. \A f \in Executors : Active(f)' =>
          /\ Active(f) /\ ereq'[f] = ereq[f]
          /\ epc'[f] \in Core => epc[f] \in Core
          /\ epc'[f] \in Early => epc[f] \in Early
  BY DEF Active, TypeOK, ExecutorsOK
<1>2. \A c \in Clients : Holds(c)' => Holds(c) /\ creq'[c] = creq[c]
  BY DEF Holds, clientVars
<1> QED BY <1>1, <1>2, HandsShrink

\* An executor that stops; the client it works for, if any, goes to a place in
\* which it holds no run.
LEMMA ResetHands ==
    ASSUME TypeOK, HandsInv, RowsKept, UNCHANGED <<results, started, creq>>,
           NEW e \in Executors, ExecReset(e),
           \A c \in Clients : Holds(c)' => Holds(c)
    PROVE  HandsInv'
<1>1. \A f \in Executors : Active(f)' =>
          /\ Active(f) /\ ereq'[f] = ereq[f]
          /\ epc'[f] \in Core => epc[f] \in Core
          /\ epc'[f] \in Early => epc[f] \in Early
  BY DEF Active, TypeOK, ExecutorsOK, ExecReset
<1> QED BY <1>1, HandsShrink

\* Pipeline steps keep the hands: whoever enters or stores is alone with its run.
LEMMA PipelineHands ==
    ASSUME IInv, NEW e \in Executors, PipelineStep(e)
    PROVE  HandsInv'
<1>1. TypeOK /\ PlacesInv /\ KeysInv /\ HandsInv
  BY DEF IInv
<1>2. Active(e) /\ UNCHANGED <<clientVars, ereq, job>>
  BY DEF PipelineStep, key_check, research_starts, research_ends, research_skipped, draw_version,
     save_check, save_insert, audit_saved, report, raises, Active, ExecAt, tableVars
<1>3. ereq[e].run \in Runs
  BY <1>1, <1>2, RunsNamed
<1>4. CASE key_check(e) /\ ~UNCHANGED started
  <2>0. PICK r \in Runs : r = ereq[e].run
    BY <1>3
  <2>1. /\ epc[e] = "keyCheck" /\ epc' = [epc EXCEPT ![e] = "core"]
        /\ started' = [started EXCEPT ![r] = @ + 1] /\ UNCHANGED <<row, results>>
        /\ get_by_idempotency_key(idempotency(ereq[e])) = {}
    BY <2>0, <1>4 DEF key_check, ExecAt, tableVars
  <2>2. Pristine(r)
    BY <2>0, <1>1, <1>2, <2>1 DEF KeysInv, HasJob, Pristine, get_by_idempotency_key
  <2>3. started[r] = 0
    BY <2>0, <1>1, <1>3, <2>1, <2>2 DEF HandsInv, HandsOf, Early
  <2>4. started'[r] = 1 /\ \A q \in Runs : q # r => started'[q] = started[q]
    BY <2>0, <1>1, <1>3, <2>1, <2>3 DEF TypeOK, OthersOK
  <2>5. /\ epc'[e] = "core" /\ \A f \in Executors : f # e => epc'[f] = epc[f]
        /\ \A f \in Executors : Active(f)' => Active(f)
    BY <2>0, <1>1, <1>2, <2>1 DEF TypeOK, ExecutorsOK, Active
  <2>6. \A f \in Executors : epc[f] \in Core \cup Early => Active(f)
    BY DEF Core, Early, Active
  <2>7. row[r] # None
    BY <2>0, <1>1, <1>2, <1>3 DEF HandsInv, HandsOf
  <2>8. \A c \in Clients : Holds(c)' = Holds(c) /\ creq'[c] = creq[c]
    BY <2>0, <1>2 DEF Holds, clientVars
  <2>9. \A q \in Runs : Pristine(q)' = Pristine(q)
    BY <2>0, <2>1 DEF Pristine
  <2>10. \A f \in Executors : f # e => ~(Active(f) /\ ereq[f].run = r)
    BY <2>0, <1>1, <1>2, <1>3, <2>2 DEF HandsInv, HandsOf
  <2>11. \A c \in Clients : ~(Holds(c) /\ creq[c].run = r)
    BY <2>0, <1>1, <1>2, <1>3, <2>2 DEF HandsInv, HandsOf
  <2>12. "core" \notin Early
    BY DEF Early
  <2>13. ASSUME NEW q \in Runs, q # r
         PROVE  HandsOf(q)'
    BY <2>0, <1>1, <1>2, <2>1, <2>4, <2>5, <2>8, <2>9, <2>13 DEF HandsInv, HandsOf
  <2>14. /\ row'[r] # None
         /\ \A x \in results' : x.run # r
         /\ started'[r] = 1
         /\ \A f, g \in Executors :
               Active(f)' /\ Active(g)' /\ ereq'[f].run = r /\ ereq'[g].run = r => f = g
         /\ \A c \in Clients : ~(Holds(c)' /\ creq'[c].run = r)
         /\ \A f \in Executors : ~(epc'[f] \in Early /\ ereq'[f].run = r)
         /\ Pristine(r)'
    BY <2>0, <1>2, <2>1, <2>2, <2>4, <2>5, <2>6, <2>7, <2>8, <2>9, <2>10, <2>11, <2>12 DEF Pristine
  <2>15. HandsOf(r)'
    BY <2>14 DEF HandsOf
  <2> QED BY <2>13, <2>15 DEF HandsInv
<1>5. CASE save_insert(e) /\ ~UNCHANGED results
  <2>0. PICK r \in Runs : r = ereq[e].run
    BY <1>3
  <2>1. PICK x \in Result :
               /\ results' = results \cup {x} /\ x.run = r /\ x.version = ever[e]
               /\ epc' = [epc EXCEPT ![e] = "audit"]
    <3>1. PICK status \in ResultStatus :
             LET x == [run |-> ereq[e].run, version |-> ever[e], key |-> idempotency(ereq[e]),
                       body |-> ereq[e].body, status |-> status]
             IN  results' = results \cup {x} /\ epc' = [epc EXCEPT ![e] = "audit"]
      BY <1>5 DEF save_insert, insert
    <3> DEFINE x == [run |-> ereq[e].run, version |-> ever[e], key |-> idempotency(ereq[e]),
                     body |-> ereq[e].body, status |-> status]
    <3>2. x \in Result
      <4>1. ever[e] = 1 /\ ereq[e] \in Request
        BY <1>1, <1>2, <1>5 DEF save_insert, PlacesInv
      <4> QED BY <4>1, KeyType DEF Result, Request
    <3>3. x.run = ereq[e].run /\ x.version = ever[e] /\ results' = results \cup {x}
      BY <3>1
    <3> QED BY <2>0, <3>1, <3>2, <3>3
  <2>2. epc[e] = "insert" /\ UNCHANGED <<row, started>>
    BY <2>0, <1>5 DEF save_insert
  <2>3. started[r] = 1 /\ x.version = 1 /\ Pristine(r)
    BY <2>0, <1>1, <1>3, <2>1, <2>2 DEF PlacesInv, HandsInv, HandsOf, Core
  <2>4. /\ epc'[e] = "audit" /\ \A f \in Executors : f # e => epc'[f] = epc[f]
        /\ \A f \in Executors : Active(f)' => Active(f)
    BY <2>0, <1>1, <1>2, <2>1 DEF TypeOK, ExecutorsOK, Active
  <2>5. \A f \in Executors : epc[f] \in Core \cup Early => Active(f)
    BY DEF Core, Early, Active
  <2>6. row[r] # None
    BY <2>0, <1>1, <1>2, <1>3 DEF HandsInv, HandsOf
  <2>7. \A c \in Clients : Holds(c)' = Holds(c) /\ creq'[c] = creq[c]
    BY <2>0, <1>2 DEF Holds, clientVars
  <2>8. ~Pristine(r)' /\ \A q \in Runs : q # r => Pristine(q)' = Pristine(q)
    BY <2>0, <2>1 DEF Pristine
  <2>9. \A f \in Executors : f # e => ~(Active(f) /\ ereq[f].run = r)
    BY <2>0, <1>1, <1>2, <1>3, <2>3 DEF HandsInv, HandsOf
  <2>10. "audit" \notin Early /\ "audit" \notin Core
    BY DEF Early, Core
  <2>11. ASSUME NEW q \in Runs, q # r
         PROVE  HandsOf(q)'
    BY <2>0, <1>1, <1>2, <2>1, <2>2, <2>4, <2>7, <2>8, <2>11 DEF HandsInv, HandsOf
  <2>12. \A f \in Executors : ~(epc'[f] \in Core /\ ereq'[f].run = r)
    BY <2>0, <1>2, <2>4, <2>5, <2>9, <2>10
  <2>13. \A y \in results' : y.run = r => y.version = 1 /\ started'[r] = 1
    BY <2>0, <2>1, <2>2, <2>3 DEF Pristine
  <2>14. HandsOf(r)'
    BY <2>2, <2>3, <2>6, <2>8, <2>12, <2>13 DEF HandsOf
  <2> QED BY <2>11, <2>14 DEF HandsInv
<1>6. CASE UNCHANGED started /\ UNCHANGED results
  <2>1. RowsKept
    <3>1. CASE UNCHANGED row
      BY <1>1, <1>2, <3>1, RowsKeptOrNot
    <3>2. CASE \E status \in JobStatus : update_run(ereq[e].run, status)
      BY <1>1, <1>2, <1>3, <3>2, RowsKeptOrNot
    <3>3. epc[e] = "audit" => esaved[e].status \in JobStatus
      BY <1>1 DEF KeysInv, Saved, TypeOK, TablesOK, Result, JobStatus, Terminal
    <3> QED BY <3>1, <3>2, <3>3
         DEF PipelineStep, key_check, research_starts, research_ends, research_skipped, draw_version, save_check,
             save_insert, audit_saved, report, raises, tableVars, JobStatus, Terminal, ResultStatus
  <2>2. \E place :
           /\ epc' = [epc EXCEPT ![e] = place]
           /\ place \in Core => epc[e] \in Core
           /\ place \in Early => epc[e] \in Early
    <3>1. CASE key_check(e)
      <4>1. started' # [started EXCEPT ![ereq[e].run] = @ + 1]
        BY <1>1, <1>3, <1>6 DEF TypeOK, OthersOK
      <4> QED BY <3>1, <4>1 DEF key_check, Core, Early
    <3>2. CASE raises(e)
      <4>1. epc' = [epc EXCEPT ![e] = "raised"] /\ "raised" \notin Core /\ "raised" \notin Early
        BY <3>2 DEF raises, ExecAt, Core, Early
      <4> QED BY <4>1
    <3>3. CASE save_check(e)
      BY <3>3 DEF save_check, ExecAt, Core, Early
    <3>4. CASE save_insert(e)
      <4>1. epc' = [epc EXCEPT ![e] = "raised"] \/ epc' = [epc EXCEPT ![e] = "audit"]
        BY <3>4 DEF save_insert, ExecAt
      <4>2. {"raised", "audit"} \cap (Core \cup Early) = {}
        BY DEF Core, Early
      <4> QED BY <4>1, <4>2
    <3>5. CASE research_starts(e) \/ research_ends(e) \/ research_skipped(e) \/ draw_version(e)
      <4>1. epc[e] \in Core /\ \E place \in Core : epc' = [epc EXCEPT ![e] = place]
        BY <3>5 DEF research_starts, research_ends, research_skipped, draw_version, ExecAt, Core
      <4>2. Core \cap Early = {}
        BY DEF Core, Early
      <4> QED BY <4>1, <4>2
    <3>6. CASE audit_saved(e) \/ report(e)
      BY <3>6 DEF audit_saved, report, ExecAt, Core, Early
    <3> QED BY <3>1, <3>2, <3>3, <3>4, <3>5, <3>6 DEF PipelineStep
  <2> QED BY <1>1, <1>2, <1>6, <2>1, <2>2, ExecutorHands
<1>7. (key_check(e) \/ UNCHANGED started) /\ (save_insert(e) \/ UNCHANGED results)
  BY DEF PipelineStep, key_check, research_starts, research_ends, research_skipped, draw_version,
     save_check, save_insert, audit_saved, report, raises, tableVars
<1> QED BY <1>4, <1>5, <1>6, <1>7

\* Task steps let go of runs at most.
LEMMA TaskHands ==
    ASSUME IInv, NEW r \in Runs, TaskStep(r)
    PROVE  HandsInv'
<1>1. TypeOK /\ PlacesInv /\ HandsInv /\ Active(r) /\ r \in Executors
  BY DEF IInv, TaskStep, task_starts, task_running, task_done, task_failed_run, task_failed_job, Active, Executors
<1>2. UNCHANGED <<clientVars, results, started>>
  BY DEF TaskStep, task_starts, task_running, task_done, task_failed_run, task_failed_job, tableVars
<1>3. RowsKept
  <2>1. CASE task_failed_run(r)
    BY <1>1, <2>1, RowsKeptOrNot DEF task_failed_run, JobStatus, Terminal, ResultStatus
  <2>2. CASE ~task_failed_run(r)
    <3>1. UNCHANGED row
      BY <2>2 DEF TaskStep, task_starts, task_running, task_done, task_failed_job, tableVars
    <3> QED BY <1>1, <3>1, TaskJobs, RowsKeptOrNot
  <2> QED BY <2>1, <2>2
<1>4. CASE task_starts(r) \/ task_running(r) \/ task_failed_run(r)
  <2>1. \E place : /\ epc' = [epc EXCEPT ![r] = place] /\ UNCHANGED ereq
                   /\ place \in Core => epc[r] \in Core
                   /\ place \in Early => epc[r] \in Early
    BY <1>4 DEF task_starts, task_running, task_failed_run, ExecAt, Core, Early
  <2> QED BY <1>1, <1>2, <1>3, <2>1, ExecutorHands
<1>5. CASE task_done(r) \/ task_failed_job(r)
  <2>1. ExecReset(r)
    BY <1>5 DEF task_done, task_failed_job
  <2> QED BY <1>1, <1>2, <1>3, <2>1, ResetHands DEF Holds, clientVars
<1> QED BY <1>4, <1>5 DEF TaskStep

\* So do the ends of synchronous requests.
LEMMA SyncHands ==
    ASSUME IInv, NEW c \in Clients, SyncStep(c)
    PROVE  HandsInv'
<1>1. TypeOK /\ PlacesInv /\ HandsInv /\ Active(c) /\ c \in Executors
  BY DEF IInv, SyncStep, sync_done, sync_failed_job, sync_failed_run, legacy_sync_done, legacy_sync_failed,
     Active, Executors
<1>2. UNCHANGED <<creq, results, started>>
  BY DEF SyncStep, sync_done, sync_failed_job, sync_failed_run, legacy_sync_done, legacy_sync_failed,
     Respond, tableVars, clientVars
<1>3. RowsKept
  <2>1. CASE sync_failed_run(c)
    <3>1. creq[c].run \in Runs
      BY <1>1, RunsNamed DEF PlacesInv
    <3> QED BY <1>1, <2>1, <3>1, RowsKeptOrNot DEF sync_failed_run, JobStatus, Terminal, ResultStatus
  <2>2. CASE ~sync_failed_run(c)
    <3>1. UNCHANGED row
      BY <2>2 DEF SyncStep, sync_done, sync_failed_job, legacy_sync_done, legacy_sync_failed, tableVars
    <3> QED BY <1>1, <3>1, SyncJobs, RowsKeptOrNot
  <2> QED BY <2>1, <2>2
<1>4. CASE sync_failed_job(c)
  <2>1. epc' = [epc EXCEPT ![c] = "raised2"] /\ UNCHANGED <<ereq, clientVars>>
    BY <1>4 DEF sync_failed_job, ExecAt
  <2>2. "raised2" \notin Core /\ "raised2" \notin Early
    BY DEF Core, Early
  <2> QED BY <1>1, <1>2, <1>3, <2>1, <2>2, ExecutorHands
<1>5. CASE ~sync_failed_job(c)
  <2>1. ExecReset(c) /\ \E place \in {"done", "closing"} : cpc' = [cpc EXCEPT ![c] = place]
    BY <1>5 DEF SyncStep, sync_done, sync_failed_run, legacy_sync_done, legacy_sync_failed, Respond
  <2>2. \A d \in Clients : Holds(d)' => Holds(d)
    BY <1>1, <2>1 DEF Holds, TypeOK, ClientsOK
  <2> QED BY <1>1, <1>2, <1>3, <2>1, <2>2, ResetHands
<1> QED BY <1>4, <1>5

\* So do failed writes and restarts.
LEMMA MishapHands == ASSUME IInv, Mishap PROVE HandsInv'
<1>1. TypeOK /\ HandsInv /\ UNCHANGED <<results, started, row, job, creq>>
  BY DEF IInv, Mishap, task_write_fails, handler_write_fails, Restart, Respond, tableVars, clientVars
<1>2. RowsKept
  BY <1>1, RowsKeptOrNot
<1>3. ASSUME NEW r \in Runs, task_write_fails(r) PROVE HandsInv'
  <2>1. ExecReset(r) /\ UNCHANGED cpc
    BY <1>3 DEF task_write_fails, clientVars
  <2> QED BY <1>1, <1>2, <2>1, ResetHands DEF Executors, Holds
<1>4. ASSUME NEW c \in Clients, handler_write_fails(c) PROVE HandsInv'
  <2>1. ExecReset(c) /\ cpc' = [cpc EXCEPT ![c] = "done"]
    BY <1>4 DEF handler_write_fails, Respond
  <2>2. \A d \in Clients : Holds(d)' => Holds(d)
    BY <1>1, <2>1 DEF Holds, TypeOK, ClientsOK
  <2> QED BY <1>1, <1>2, <2>1, <2>2, ResetHands DEF Executors
<1>5. CASE Restart
  <2>1. \A d \in Clients : Holds(d)' => Holds(d) /\ creq'[d] = creq[d]
    BY <1>1, <1>5 DEF Restart, Holds
  <2>2. \A e \in Executors : ~Active(e)'
    BY <1>5 DEF Restart, Active
  <2> QED BY <1>1, <1>2, <2>1, <2>2, HandsShrink
<1> QED BY <1>3, <1>4, <1>5 DEF Mishap

\* Handler steps keep the hands: a run is taken up only by the creator of its row.
LEMMA HandlerHands ==
    ASSUME IInv, NEW c \in Clients, HandlerStep(c)
    PROVE  HandsInv'
<1>1. TypeOK /\ PlacesInv /\ KeysInv /\ HandsInv
  BY DEF IInv
<1>2. cpc[c] # "idle" /\ cend[c] \in Endpoints /\ creq[c].run \in Runs
  BY <1>1, HandlerHasRequest
<1>3. UNCHANGED <<results, started>>
  BY DEF HandlerStep, check_submission_lookup, check_submission_run, create_run, create_job, submit,
     sync_running, legacy_sync_closes, tableVars
<1>4. ASSUME NEW place, cpc' = [cpc EXCEPT ![c] = place], UNCHANGED <<execVars, creq>>, RowsKept,
             place \in {"createJob", "submit", "update"} => Holds(c) \/ ~Pristine(creq[c].run)
      PROVE  HandsInv'
  <2>1. \A d \in Clients : Holds(d)' => Holds(d) \/ (d = c /\ ~Pristine(creq[c].run))
    <3>1. \A d \in Clients : d # c => cpc'[d] = cpc[d]
      BY <1>1, <1>4 DEF TypeOK, ClientsOK
    <3>2. Holds(c)' => place \in {"createJob", "submit", "update"}
      BY <1>1, <1>4 DEF Holds, TypeOK, ClientsOK
    <3> QED BY <1>4, <3>1, <3>2 DEF Holds
  <2>2. \A r \in Runs : Pristine(r)' = Pristine(r)
    BY <1>3 DEF Pristine
  <2>3. \A e \in Executors : Active(e)' = Active(e) /\ ereq'[e] = ereq[e] /\ epc'[e] = epc[e]
    BY <1>4 DEF Active, execVars
  <2>4. ASSUME NEW r \in Runs PROVE HandsOf(r)'
    <3>1. row'[r] = None => row[r] = None /\ job'[r] = None
      BY <1>4 DEF RowsKept
    <3>2. \A d \in Clients : Holds(d)' /\ creq'[d].run = r => (Holds(d) /\ creq[d].run = r) \/ ~Pristine(r)
      BY <1>4, <2>1
    <3>3. \A d \in Clients : creq'[d] = creq[d]
      BY <1>4
    <3>4. HandsOf(r)
      BY <1>1 DEF HandsInv
    <3> QED BY <1>3, <2>2, <2>3, <3>1, <3>2, <3>3, <3>4 DEF HandsOf
  <2> QED BY <2>4 DEF HandsInv
<1>5. CASE check_submission_lookup(c)
  <2>1. UNCHANGED <<row, job, execVars>>
    BY <1>5 DEF check_submission_lookup, tableVars
  <2>2. RowsKept
    BY <1>1, <2>1, RowsKeptOrNot
  <2>3. UNCHANGED creq
    BY <1>2, <1>5, LookupCases DEF Respond, Continue
  <2>4. \E place : cpc' = [cpc EXCEPT ![c] = place]
                   /\ (place \in {"createJob", "submit", "update"} => ~Pristine(creq[c].run))
    <3>1. \/ \E place \in {"runCheck", "done", "closing"} : cpc' = [cpc EXCEPT ![c] = place]
          \/ cpc' = [cpc EXCEPT ![c] = "submit"] /\ \E x \in results : x.run = creq[c].run
      BY <1>2, <1>5, LookupCases DEF Respond, Continue
    <3> QED BY <3>1 DEF Pristine
  <2> QED BY <1>4, <2>1, <2>2, <2>3, <2>4
<1>6. CASE check_submission_run(c) \/ legacy_sync_closes(c)
  <2>1. RowsKept
    BY <1>1, <1>2, <1>6, RowsKeptOrNot
       DEF check_submission_run, legacy_sync_closes, tableVars, JobStatus, Terminal, ResultStatus
  <2>2. UNCHANGED <<execVars, creq>> /\ \E place \in {"done", "createRun"} : cpc' = [cpc EXCEPT ![c] = place]
    BY <1>6 DEF check_submission_run, legacy_sync_closes, Respond, Continue
  <2> QED BY <1>4, <2>1, <2>2
<1>7. CASE create_run(c)
  <2>1. UNCHANGED <<job, execVars, creq>>
    BY <1>7 DEF create_run, Respond, Continue
  <2>2. CASE row[creq[c].run] # None
    <3>1. UNCHANGED row /\ cpc' = [cpc EXCEPT ![c] = "done"]
      BY <1>7, <2>2 DEF create_run, Respond
    <3> QED BY <1>1, <1>4, <2>1, <3>1, RowsKeptOrNot
  <2>3. CASE row[creq[c].run] = None
    <3>1. PICK r \in Runs : r = creq[c].run
      BY <1>2
    <3>2. row' = [row EXCEPT ![r] = "QUEUED"] /\ cpc' = [cpc EXCEPT ![c] = "createJob"]
      BY <1>7, <2>3, <3>1 DEF create_run, Continue
    <3>3. row'[r] # None /\ \A q \in Runs : q # r => row'[q] = row[q]
      BY <1>1, <3>2, ServiceAssumption DEF TypeOK, TablesOK, JobStatus
    <3>4. \A d \in Clients : creq'[d] = creq[d] /\ (Holds(d)' => Holds(d) \/ d = c)
      BY <1>1, <2>1, <3>2 DEF Holds, TypeOK, ClientsOK
    <3>5. \A q \in Runs : Pristine(q)' = Pristine(q)
      BY <1>3 DEF Pristine
    <3>6. \A e \in Executors : Active(e)' = Active(e) /\ ereq'[e] = ereq[e] /\ epc'[e] = epc[e]
      BY <2>1 DEF Active, execVars
    <3>7. \A e \in Executors : epc[e] \in Core \cup Early => Active(e)
      BY DEF Core, Early, Active
    <3>8. /\ Pristine(r) /\ started[r] = 0
          /\ \A d \in Clients : ~(Holds(d) /\ creq[d].run = r)
          /\ \A e \in Executors : ~(Active(e) /\ ereq[e].run = r)
      BY <1>1, <2>3, <3>1 DEF HandsInv, HandsOf
    <3>9. HandsOf(r)'
      BY <1>3, <3>1, <3>3, <3>4, <3>5, <3>6, <3>7, <3>8 DEF HandsOf, Pristine
    <3>10. ASSUME NEW q \in Runs, q # r PROVE HandsOf(q)'
      <4>1. HandsOf(q)
        BY <1>1 DEF HandsInv
      <4>2. \A d \in Clients : Holds(d)' /\ creq'[d].run = q => Holds(d)
        BY <3>1, <3>4, <3>10
      <4> QED BY <1>3, <2>1, <3>3, <3>4, <3>5, <3>6, <3>10, <4>1, <4>2 DEF HandsOf
    <3> QED BY <3>9, <3>10 DEF HandsInv
  <2> QED BY <2>2, <2>3
<1>8. CASE create_job(c)
  <2>1. Holds(c) /\ row[creq[c].run] # None /\ UNCHANGED row
    BY <1>1, <1>2, <1>8 DEF create_job, Holds, HandsInv, HandsOf
  <2>2. RowsKept
    <3>1. \A q \in Runs : q # creq[c].run => job'[q] = job[q]
      BY <1>1, <1>2, <1>8 DEF create_job, TypeOK, TablesOK
    <3> QED BY <1>1, <2>1, <3>1 DEF RowsKept, HandsInv, HandsOf
  <2>3. UNCHANGED creq /\ \E place \in {"submit", "update", "waiting"} :
           /\ cpc' = [cpc EXCEPT ![c] = place]
           /\ UNCHANGED execVars \/ (place = "waiting" /\ ExecStarts(c, creq[c], "keyCheck"))
    BY <1>2, <1>8, ServiceAssumption DEF create_job, Continue
  <2>4. CASE UNCHANGED execVars
    BY <1>4, <2>1, <2>2, <2>3, <2>4
  <2>5. CASE cpc' = [cpc EXCEPT ![c] = "waiting"] /\ ExecStarts(c, creq[c], "keyCheck")
    BY <1>1, <1>2, <1>3, <2>1, <2>2, <2>3, <2>5, Handover DEF Early, Executors
  <2> QED BY <2>3, <2>4, <2>5
<1>9. CASE submit(c)
  <2>1. Holds(c) /\ RowsKept
    BY <1>1, <1>9, RowsKeptOrNot DEF submit, Holds, tableVars
  <2>2. UNCHANGED creq /\ cpc' = [cpc EXCEPT ![c] = "done"]
    BY <1>9 DEF submit, Respond
  <2>3. UNCHANGED execVars \/ ExecStarts(creq[c].run, creq[c], "queued")
    BY <1>9 DEF submit
  <2> QED BY <1>1, <1>2, <1>3, <1>4, <2>1, <2>2, <2>3, Handover DEF Early, Executors
<1>10. CASE sync_running(c)
  <2>1. Holds(c) /\ UNCHANGED <<row, creq>> /\ JobsKept
    BY <1>1, <1>2, <1>10, JobsKeptOrNot DEF sync_running, Holds, Continue, JobStatus
  <2>2. cpc' = [cpc EXCEPT ![c] = "waiting"] /\ ExecStarts(c, creq[c], "keyCheck")
    BY <1>10 DEF sync_running, Continue
  <2> QED BY <1>1, <1>2, <1>3, <2>1, <2>2, RowsKeptOrNot, Handover DEF Early, Executors
<1> QED BY <1>5, <1>6, <1>7, <1>8, <1>9, <1>10 DEF HandlerStep

\* Every step keeps the hands.
LEMMA HandsStep == IInv /\ [Next]_vars => HandsInv'
<1>1. ASSUME IInv, UNCHANGED vars PROVE HandsInv'
  BY <1>1 DEF vars, IInv, HandsInv, HandsOf, Holds, Pristine, Active, clientVars, execVars, tableVars
<1>2. ASSUME IInv, NEW c \in Clients, Arrive(c) PROVE HandsInv'
  <2>1. TypeOK /\ HandsInv /\ UNCHANGED <<results, started, row, job, execVars>>
    BY <1>2 DEF Arrive, IInv, tableVars
  <2>2. \A d \in Clients : Holds(d)' => Holds(d) /\ creq'[d] = creq[d]
    BY <1>2, <2>1 DEF Arrive, Holds, TypeOK, ClientsOK
  <2>3. \A e \in Executors : Active(e)' = Active(e) /\ ereq'[e] = ereq[e] /\ epc'[e] = epc[e]
    BY <2>1 DEF Active, execVars
  <2> QED BY <2>1, <2>2, <2>3, RowsKeptOrNot, HandsShrink
<1>3. ASSUME IInv, NEW p \in Pollers, PollStep(p) PROVE HandsInv'
  <2>1. HandsInv /\ UNCHANGED <<results, started, row, job, clientVars, execVars>>
    BY <1>3 DEF PollStep, poll_row, poll_result, poll_job, IInv, tableVars
  <2> QED BY <2>1 DEF HandsInv, HandsOf, Holds, Pristine, Active, clientVars, execVars
<1> QED BY <1>1, <1>2, <1>3, HandlerHands, SyncHands, PipelineHands, TaskHands, MishapHands DEF Next

-----------------------------------------------------------------------------
\* Open jobs: at the start there are no jobs.
LEMMA OpenInit == Init => OpenInv
  BY ServiceAssumption DEF Init, OpenInv

\* Rows leave "QUEUED" only for runs with a job.
LEMMA TaskRows ==
    ASSUME IInv, NEW r \in Runs, TaskStep(r)
    PROVE  \A q \in Runs : job'[q] = None => row'[q] \in {None, "QUEUED"}
<1>1. TypeOK /\ PlacesInv /\ KeysInv /\ OpenInv /\ Active(r) /\ r \in Executors
  BY DEF IInv, TaskStep, task_starts, task_running, task_done, task_failed_run, task_failed_job, Active, Executors
<1>2. job[r] # None
  BY <1>1 DEF PlacesInv, KeysInv, HasJob
<1>3. \A q \in Runs : q # r => row'[q] = row[q]
  BY <1>1 DEF TaskStep, task_starts, task_running, task_done, task_failed_run, task_failed_job, update_run,
     tableVars, TypeOK, TablesOK
<1> QED BY <1>1, <1>2, <1>3, TaskJobs DEF JobsKept, OpenInv

\* The same of the ends of synchronous requests.
LEMMA SyncRows ==
    ASSUME IInv, NEW c \in Clients, SyncStep(c)
    PROVE  \A q \in Runs : job'[q] = None => row'[q] \in {None, "QUEUED"}
<1>1. TypeOK /\ PlacesInv /\ KeysInv /\ OpenInv /\ Active(c) /\ c \in Executors
  BY DEF IInv, SyncStep, sync_done, sync_failed_job, sync_failed_run, legacy_sync_done, legacy_sync_failed,
     Active, Executors
<1>2. creq[c].run \in Runs /\ job[creq[c].run] # None
  BY <1>1, RunsNamed DEF PlacesInv, KeysInv, HasJob
<1>3. \A q \in Runs : q # creq[c].run => row'[q] = row[q]
  BY <1>1 DEF SyncStep, sync_done, sync_failed_job, sync_failed_run, legacy_sync_done, legacy_sync_failed,
     update_run, tableVars, TypeOK, TablesOK
<1> QED BY <1>1, <1>2, <1>3, SyncJobs DEF JobsKept, OpenInv

\* The same of pipeline steps.
LEMMA PipelineRows ==
    ASSUME IInv, NEW e \in Executors, PipelineStep(e)
    PROVE  \A q \in Runs : job'[q] = None => row'[q] \in {None, "QUEUED"}
<1>1. TypeOK /\ PlacesInv /\ KeysInv /\ OpenInv /\ Active(e) /\ UNCHANGED job
  BY DEF IInv, PipelineStep, key_check, research_starts, research_ends, research_skipped, draw_version,
     save_check, save_insert, audit_saved, report, raises, Active, tableVars
<1>2. ereq[e].run \in Runs /\ job[ereq[e].run] # None
  BY <1>1, RunsNamed DEF KeysInv, HasJob
<1>3. \A q \in Runs : q # ereq[e].run => row'[q] = row[q]
  BY <1>1 DEF PipelineStep, key_check, research_starts, research_ends, research_skipped, draw_version,
     save_check, save_insert, audit_saved, report, raises, update_run, tableVars, TypeOK, TablesOK
<1> QED BY <1>1, <1>2, <1>3 DEF OpenInv

\* The same of handler steps.
LEMMA HandlerRows ==
    ASSUME IInv, NEW c \in Clients, HandlerStep(c)
    PROVE  \A q \in Runs : job'[q] = None => row'[q] \in {None, "QUEUED"}
<1>1. TypeOK /\ PlacesInv /\ KeysInv /\ OpenInv
  BY DEF IInv
<1>2. creq[c].run \in Runs
  BY <1>1, HandlerHasRequest
<1>3. CASE create_run(c)
  BY <1>1, <1>2, <1>3 DEF create_run, OpenInv, TypeOK, TablesOK
<1>4. CASE legacy_sync_closes(c)
  <2>1. job[creq[c].run] # None /\ UNCHANGED job
    BY <1>1, <1>4 DEF legacy_sync_closes, KeysInv
  <2>2. \A q \in Runs : q # creq[c].run => row'[q] = row[q]
    BY <1>1, <1>4 DEF legacy_sync_closes, update_run, TypeOK, TablesOK
  <2> QED BY <1>1, <2>1, <2>2 DEF OpenInv
<1>5. CASE ~create_run(c) /\ ~legacy_sync_closes(c)
  <2>1. UNCHANGED row
    BY <1>5 DEF HandlerStep, check_submission_lookup, check_submission_run, create_job, submit, sync_running,
       tableVars
  <2>2. \A q \in Runs : job'[q] = None => job[q] = None
    <3>1. CASE create_job(c)
      BY <1>1, <1>2, <3>1 DEF create_job, TypeOK, TablesOK
    <3>2. CASE sync_running(c)
      BY <1>1, <1>2, <3>2, JobsKeptOrNot DEF sync_running, JobsKept, JobStatus
    <3>3. CASE ~create_job(c) /\ ~sync_running(c)
      BY <1>5, <3>3 DEF HandlerStep, check_submission_lookup, check_submission_run, submit, tableVars
    <3> QED BY <3>1, <3>2, <3>3
  <2> QED BY <1>1, <2>1, <2>2 DEF OpenInv
<1> QED BY <1>3, <1>4, <1>5

\* Who may write a job afterwards could do so before.
LEMMA WritersShrink ==
    ASSUME \A c \in Clients : Holds(c)' => Holds(c) /\ creq'[c] = creq[c],
           \A e \in Executors : Active(e)' =>
               /\ Active(e) /\ ereq'[e] = ereq[e]
               /\ e \in Clients /\ epc[e] = "raised2" => epc'[e] = "raised2"
    PROVE  \A r : MayWrite(r)' => MayWrite(r)
  BY DEF MayWrite

\* Moves that keep the jobs, or after which whoever may write a job finds it open.
LEMMA OpenKept ==
    ASSUME OpenInv, \A r \in Runs : job'[r] = None => row'[r] \in {None, "QUEUED"},
           results \subseteq results',
           \A r \in Runs : Pristine(r) /\ job'[r] # None /\ MayWrite(r)' =>
               \/ job'[r].status \in Open
               \/ MayWrite(r) /\ job'[r] = job[r]
    PROVE  OpenInv'
<1>1. \A r \in Runs : Pristine(r)' => Pristine(r)
  BY DEF Pristine
<1> QED BY <1>1 DEF OpenInv

\* The last one who may write a run's job leaves none behind.
LEMMA NobodyLeft ==
    ASSUME TypeOK, HandsInv, NEW e \in Executors, Active(e), NEW r \in Runs, ereq[e].run = r, Pristine(r),
           \A c \in Clients : Holds(c)' => Holds(c) /\ creq'[c] = creq[c],
           \A f \in Executors : Active(f)' => Active(f) /\ ereq'[f] = ereq[f],
           ~Active(e)' \/ (e \in Clients /\ epc'[e] = "raised2")
    PROVE  ~MayWrite(r)'
<1>1. \A c \in Clients : ~(Holds(c) /\ creq[c].run = r)
  BY DEF HandsInv, HandsOf
<1>2. \A f \in Executors : Active(f) /\ ereq[f].run = r => f = e
  BY DEF HandsInv, HandsOf
<1>3. \A c \in Clients : ~(Holds(c)' /\ creq'[c].run = r)
  BY <1>1
<1>4. \A f \in Executors : Active(f)' /\ ereq'[f].run = r => f = e
  BY <1>2
<1> QED BY <1>3, <1>4 DEF MayWrite

\* Pipeline steps leave every job as it is.
LEMMA PipelineOpen ==
    ASSUME IInv, NEW e \in Executors, PipelineStep(e)
    PROVE  OpenInv'
<1>1. TypeOK /\ OpenInv /\ Active(e) /\ epc[e] # "raised2" /\ UNCHANGED <<clientVars, ereq, job>>
  BY DEF IInv, PipelineStep, key_check, research_starts, research_ends, research_skipped, draw_version,
     save_check, save_insert, audit_saved, report, raises, Active, ExecAt, tableVars
<1>2. results \subseteq results'
  BY DEF PipelineStep, key_check, research_starts, research_ends, research_skipped, draw_version,
     save_check, save_insert, audit_saved, report, raises, tableVars, insert
<1>3. \E place : epc' = [epc EXCEPT ![e] = place]
  BY DEF PipelineStep, key_check, research_starts, research_ends, research_skipped, draw_version,
     save_check, save_insert, audit_saved, report, raises, ExecAt, insert
<1>4. \A f \in Executors : Active(f)' =>
          /\ Active(f) /\ ereq'[f] = ereq[f]
          /\ f \in Clients /\ epc[f] = "raised2" => epc'[f] = "raised2"
  BY <1>1, <1>3 DEF Active, TypeOK, ExecutorsOK
<1>5. \A c \in Clients : Holds(c)' => Holds(c) /\ creq'[c] = creq[c]
  BY <1>1 DEF Holds, clientVars
<1> QED BY <1>1, <1>2, <1>4, <1>5, PipelineRows, WritersShrink, OpenKept

\* A task settles a job as the last one who may write it.
LEMMA TaskOpen ==
    ASSUME IInv, NEW r \in Runs, TaskStep(r)
    PROVE  OpenInv'
<1>1. TypeOK /\ HandsInv /\ PlacesInv /\ OpenInv /\ Active(r) /\ r \in Executors /\ r \notin Clients
  BY ServiceAssumption
     DEF IInv, TaskStep, task_starts, task_running, task_done, task_failed_run, task_failed_job, Active, Executors
<1>2. UNCHANGED <<clientVars, results>> /\ ereq[r].run = r
  BY <1>1 DEF TaskStep, task_starts, task_running, task_done, task_failed_run, task_failed_job, tableVars, PlacesInv
<1>3. \A c \in Clients : Holds(c)' => Holds(c) /\ creq'[c] = creq[c]
  BY <1>2 DEF Holds, clientVars
<1>4. \A f \in Executors : Active(f)' =>
          /\ Active(f) /\ ereq'[f] = ereq[f]
          /\ f \in Clients /\ epc[f] = "raised2" => epc'[f] = "raised2"
  <2>1. ExecReset(r) \/ (UNCHANGED ereq /\ \E place : epc' = [epc EXCEPT ![r] = place])
    BY DEF TaskStep, task_starts, task_running, task_done, task_failed_run, task_failed_job, ExecAt
  <2> QED BY <1>1, <2>1 DEF ExecReset, Active, TypeOK, ExecutorsOK
<1>5. \A q \in Runs : MayWrite(q)' => MayWrite(q)
  BY <1>3, <1>4, WritersShrink
<1>6. CASE task_starts(r) \/ task_failed_run(r)
  BY <1>1, <1>2, <1>5, <1>6, TaskRows, OpenKept DEF task_starts, task_failed_run, tableVars
<1>7. CASE task_running(r)
  <2>1. \A q \in Runs : /\ q # r => job'[q] = job[q]
                        /\ q = r /\ job'[q] # None => job'[q].status = "RUNNING"
    <3>1. update_job(r, "RUNNING", FALSE)
      BY <1>2, <1>7 DEF task_running
    <3> QED BY <1>1, <3>1, JobUpdate DEF JobStatus, TypeOK, TablesOK
  <2> QED BY <1>1, <1>2, <1>5, <2>1, TaskRows, OpenKept DEF Open
<1>8. CASE task_done(r) \/ task_failed_job(r)
  <2>1. Pristine(r) => ~MayWrite(r)'
    <3>1. ~Active(r)'
      BY <1>1, <1>8 DEF task_done, task_failed_job, ExecReset, Active, TypeOK, ExecutorsOK
    <3> QED BY <1>1, <1>2, <1>3, <1>4, <3>1, NobodyLeft
  <2>2. \A q \in Runs : q # r => job'[q] = job[q]
    BY <1>1, <1>8 DEF task_done, task_failed_job, update_job, TypeOK, TablesOK
  <2> QED BY <1>1, <1>2, <1>5, <2>1, <2>2, TaskRows, OpenKept
<1> QED BY <1>6, <1>7, <1>8 DEF TaskStep

\* So does a synchronous request.
LEMMA SyncOpen ==
    ASSUME IInv, NEW c \in Clients, SyncStep(c)
    PROVE  OpenInv'
<1>1. TypeOK /\ HandsInv /\ PlacesInv /\ OpenInv /\ Active(c) /\ c \in Executors
  BY DEF IInv, SyncStep, sync_done, sync_failed_job, sync_failed_run, legacy_sync_done, legacy_sync_failed,
     Active, Executors
<1>2. UNCHANGED <<creq, results>> /\ ereq[c] = creq[c] /\ creq[c].run \in Runs
  BY <1>1, RunsNamed DEF SyncStep, sync_done, sync_failed_job, sync_failed_run, legacy_sync_done, legacy_sync_failed,
     Respond, tableVars, clientVars, PlacesInv
<1>3. \A d \in Clients : Holds(d)' => Holds(d) /\ creq'[d] = creq[d]
  <2>1. UNCHANGED cpc \/ \E place \in {"done", "closing"} : cpc' = [cpc EXCEPT ![c] = place]
    BY DEF SyncStep, sync_done, sync_failed_job, sync_failed_run, legacy_sync_done, legacy_sync_failed,
       Respond, clientVars
  <2> QED BY <1>1, <1>2, <2>1 DEF Holds, TypeOK, ClientsOK
<1>4. \A f \in Executors : Active(f)' =>
          /\ Active(f) /\ ereq'[f] = ereq[f]
          /\ f \in Clients /\ epc[f] = "raised2" => epc'[f] = "raised2"
  <2>1. ExecReset(c) \/ (UNCHANGED ereq /\ epc' = [epc EXCEPT ![c] = "raised2"])
    BY DEF SyncStep, sync_done, sync_failed_job, sync_failed_run, legacy_sync_done, legacy_sync_failed, ExecAt
  <2> QED BY <1>1, <2>1 DEF ExecReset, Active, TypeOK, ExecutorsOK
<1>5. \A q \in Runs : MayWrite(q)' => MayWrite(q)
  BY <1>3, <1>4, WritersShrink
<1>6. CASE UNCHANGED job
  BY <1>1, <1>2, <1>5, <1>6, SyncRows, OpenKept
<1>7. CASE sync_done(c) \/ sync_failed_job(c)
  <2>1. Pristine(creq[c].run) => ~MayWrite(creq[c].run)'
    <3>1. ~Active(c)' \/ epc'[c] = "raised2"
      BY <1>1, <1>7 DEF sync_done, sync_failed_job, ExecReset, ExecAt, Active, TypeOK, ExecutorsOK
    <3>2. PICK r \in Runs : r = creq[c].run
      BY <1>2
    <3>3. creq'[c].run = r
      BY <1>2, <3>2
    <3>4. Pristine(r) => ~MayWrite(r)'
      BY <1>1, <1>2, <1>3, <1>4, <3>1, <3>2, NobodyLeft
    <3> QED BY <3>2, <3>3, <3>4 DEF MayWrite
  <2>2. \A q \in Runs : q # creq[c].run => job'[q] = job[q]
    BY <1>1, <1>7 DEF sync_done, sync_failed_job, update_job, TypeOK, TablesOK
  <2>3. \A q \in Runs : q = creq[c].run /\ Pristine(q) => ~MayWrite(q)'
    BY <1>2, <2>1 DEF MayWrite
  <2> QED BY <1>1, <1>2, <1>5, <2>2, <2>3, SyncRows, OpenKept
<1> QED BY <1>6, <1>7 DEF SyncStep, sync_failed_run, legacy_sync_done, legacy_sync_failed, tableVars

\* Failed writes and restarts leave every job as it is.
LEMMA MishapOpen == ASSUME IInv, Mishap PROVE OpenInv'
<1>1. TypeOK /\ PlacesInv /\ OpenInv /\ UNCHANGED <<results, row, job, creq>>
  BY DEF IInv, Mishap, task_write_fails, handler_write_fails, Restart, Respond, tableVars, clientVars
<1>2. \A d \in Clients : Holds(d)' => Holds(d) /\ creq'[d] = creq[d]
  <2>1. \/ UNCHANGED cpc
        \/ \E c \in Clients : cpc' = [cpc EXCEPT ![c] = "done"]
        \/ cpc' = [c \in Clients |-> IF cpc[c] \notin {"idle", "done"} THEN "done" ELSE cpc[c]]
    <3>1. CASE Restart
      BY <3>1 DEF Restart
    <3> QED BY <3>1 DEF Mishap, task_write_fails, handler_write_fails, Respond, clientVars
  <2> QED BY <1>1, <2>1 DEF Holds, TypeOK, ClientsOK
<1>3. \A f \in Executors : Active(f)' =>
          /\ Active(f) /\ ereq'[f] = ereq[f]
          /\ f \in Clients /\ epc[f] = "raised2" => epc'[f] = "raised2"
  <2>1. (\E e \in Executors : ExecReset(e)) \/ epc' = [e \in Executors |-> "none"]
    BY DEF Mishap, task_write_fails, handler_write_fails, Restart, Executors
  <2> QED BY <1>1, <2>1 DEF ExecReset, Active, TypeOK, ExecutorsOK
<1> QED BY <1>1, <1>2, <1>3, WritersShrink, OpenKept DEF OpenInv

\* A client that goes on holds no more than before, or a run with a result.
LEMMA ClientWriters ==
    ASSUME TypeOK, NEW c \in Clients, NEW place, cpc' = [cpc EXCEPT ![c] = place], UNCHANGED <<execVars, creq>>,
           place \in {"createJob", "submit", "update"} => Holds(c) \/ ~Pristine(creq[c].run)
    PROVE  \A q \in Runs : Pristine(q) /\ MayWrite(q)' => MayWrite(q)
<1>1. \A d \in Clients : creq'[d] = creq[d] /\ (d # c => cpc'[d] = cpc[d])
  BY DEF TypeOK, ClientsOK
<1>2. cpc'[c] = place
  BY DEF TypeOK, ClientsOK
<1>3. \A d \in Clients : Holds(d)' => Holds(d) \/ ~Pristine(creq[d].run)
  BY <1>1, <1>2 DEF Holds
<1>4. \A e \in Executors : Active(e)' = Active(e) /\ ereq'[e] = ereq[e] /\ epc'[e] = epc[e]
  BY DEF execVars, Active
<1> QED BY <1>1, <1>3, <1>4 DEF MayWrite

\* A client that hands over its run leaves one writer of its job.
LEMMA HandoverWriters ==
    ASSUME TypeOK, NEW c \in Clients, Holds(c), UNCHANGED creq,
           NEW place \in {"done", "waiting"}, cpc' = [cpc EXCEPT ![c] = place],
           NEW e \in Executors, NEW start \in Early, ExecStarts(e, creq[c], start)
    PROVE  \A q \in Runs : MayWrite(q)' => MayWrite(q)
<1>1. \A d \in Clients : creq'[d] = creq[d] /\ (Holds(d)' => Holds(d))
  BY DEF Holds, TypeOK, ClientsOK
<1>2. /\ ereq'[e] = creq[c]
      /\ \A f \in Executors : f # e => Active(f)' = Active(f) /\ ereq'[f] = ereq[f] /\ epc'[f] = epc[f]
  BY DEF ExecStarts, Active, TypeOK, ExecutorsOK
<1> QED BY <1>1, <1>2 DEF MayWrite

\* Handler steps write open jobs only.
LEMMA HandlerOpen ==
    ASSUME IInv, NEW c \in Clients, HandlerStep(c)
    PROVE  OpenInv'
<1>1. TypeOK /\ PlacesInv /\ OpenInv
  BY DEF IInv
<1>2. cpc[c] # "idle" /\ cend[c] \in Endpoints /\ creq[c].run \in Runs
  BY <1>1, HandlerHasRequest
<1>3. UNCHANGED results
  BY DEF HandlerStep, check_submission_lookup, check_submission_run, create_run, create_job, submit,
     sync_running, legacy_sync_closes, tableVars
<1>4. CASE check_submission_lookup(c)
  <2>1. UNCHANGED <<job, execVars>>
    BY <1>4 DEF check_submission_lookup, tableVars
  <2>2. UNCHANGED creq
    BY <1>2, <1>4, LookupCases DEF Respond, Continue
  <2>3. \/ \E place \in {"runCheck", "done", "closing"} : cpc' = [cpc EXCEPT ![c] = place]
        \/ cpc' = [cpc EXCEPT ![c] = "submit"] /\ ~Pristine(creq[c].run)
    BY <1>2, <1>4, LookupCases DEF Respond, Continue, Pristine
  <2>4. \A q \in Runs : Pristine(q) /\ MayWrite(q)' => MayWrite(q)
    BY <1>1, <2>1, <2>2, <2>3, ClientWriters
  <2> QED BY <1>1, <1>3, <2>1, <2>4, HandlerRows, OpenKept
<1>5. CASE check_submission_run(c) \/ legacy_sync_closes(c)
  <2>1. UNCHANGED <<job, creq, execVars>> /\ \E place \in {"createRun", "done"} : cpc' = [cpc EXCEPT ![c] = place]
    BY <1>5 DEF check_submission_run, legacy_sync_closes, tableVars, Respond, Continue
  <2>2. \A q \in Runs : Pristine(q) /\ MayWrite(q)' => MayWrite(q)
    BY <1>1, <2>1, ClientWriters
  <2> QED BY <1>1, <1>3, <2>1, <2>2, HandlerRows, OpenKept
<1>6. CASE create_run(c)
  <2>1. UNCHANGED <<job, creq, execVars>>
    BY <1>6 DEF create_run, Respond, Continue
  <2>2. CASE cpc' = [cpc EXCEPT ![c] = "done"]
    <3>1. \A q \in Runs : Pristine(q) /\ MayWrite(q)' => MayWrite(q)
      BY <1>1, <2>1, <2>2, ClientWriters
    <3> QED BY <1>1, <1>3, <2>1, <3>1, HandlerRows, OpenKept
  <2>3. CASE row[creq[c].run] = None /\ cpc' = [cpc EXCEPT ![c] = "createJob"]
    <3>1. job[creq[c].run] = None
      BY <1>2, <2>3 DEF IInv, HandsInv, HandsOf
    <3>2. \A q \in Runs : q # creq[c].run /\ MayWrite(q)' => MayWrite(q)
      <4>1. \A d \in Clients : creq'[d] = creq[d] /\ (Holds(d)' /\ d # c => Holds(d))
        BY <1>1, <2>1, <2>3 DEF Holds, TypeOK, ClientsOK
      <4>2. \A e \in Executors : Active(e)' = Active(e) /\ ereq'[e] = ereq[e] /\ epc'[e] = epc[e]
        BY <2>1 DEF execVars, Active
      <4> QED BY <4>1, <4>2 DEF MayWrite
    <3>3. \A q \in Runs : job'[q] # None => job[q] # None /\ job'[q] = job[q] /\ q # creq[c].run
      BY <2>1, <3>1
    <3> QED BY <1>1, <1>3, <3>2, <3>3, HandlerRows, OpenKept
  <2> QED BY <1>6, <2>2, <2>3 DEF create_run, Respond, Continue
<1>7. CASE create_job(c)
  <2> DEFINE new == [status |-> "QUEUED", key |-> idempotency(creq[c]), error |-> FALSE]
  <2>1. job[creq[c].run] = None /\ Holds(c) /\ job' = [job EXCEPT ![creq[c].run] = new]
    BY <1>7 DEF create_job, IInv, KeysInv, Holds
  <2>2. new.status \in Open
    BY DEF Open
  <2> HIDE DEF new
  <2>3. \A q \in Runs : /\ q # creq[c].run => job'[q] = job[q]
                        /\ q = creq[c].run => job'[q].status \in Open
    BY <1>1, <2>1, <2>2 DEF TypeOK, TablesOK
  <2>4. UNCHANGED creq /\ \E place \in {"submit", "update", "waiting"} :
           /\ cpc' = [cpc EXCEPT ![c] = place]
           /\ UNCHANGED execVars \/ (place = "waiting" /\ ExecStarts(c, creq[c], "keyCheck"))
    BY <1>2, <1>7, ServiceAssumption DEF create_job, Continue
  <2>5. \A q \in Runs : Pristine(q) /\ MayWrite(q)' => MayWrite(q)
    <3>1. CASE UNCHANGED execVars
      BY <1>1, <2>1, <2>4, <3>1, ClientWriters
    <3>2. CASE cpc' = [cpc EXCEPT ![c] = "waiting"] /\ ExecStarts(c, creq[c], "keyCheck")
      BY <1>1, <2>1, <2>4, <3>2, HandoverWriters DEF Early, Executors
    <3> QED BY <2>4, <3>1, <3>2
  <2> QED BY <1>1, <1>3, <2>3, <2>5, HandlerRows, OpenKept
<1>8. CASE submit(c)
  <2>1. Holds(c) /\ UNCHANGED <<job, creq>> /\ cpc' = [cpc EXCEPT ![c] = "done"]
    BY <1>8 DEF submit, Holds, tableVars, Respond
  <2>2. UNCHANGED execVars \/ ExecStarts(creq[c].run, creq[c], "queued")
    BY <1>8 DEF submit
  <2>3. \A q \in Runs : Pristine(q) /\ MayWrite(q)' => MayWrite(q)
    BY <1>1, <1>2, <2>1, <2>2, ClientWriters, HandoverWriters DEF Early, Executors
  <2> QED BY <1>1, <1>3, <2>1, <2>3, HandlerRows, OpenKept
<1>9. CASE sync_running(c)
  <2>1. Holds(c) /\ UNCHANGED creq /\ cpc' = [cpc EXCEPT ![c] = "waiting"] /\ ExecStarts(c, creq[c], "keyCheck")
    BY <1>9 DEF sync_running, Holds, Continue
  <2>2. \A q \in Runs : MayWrite(q)' => MayWrite(q)
    BY <1>1, <2>1, HandoverWriters DEF Early, Executors
  <2>3. \A q \in Runs : /\ q # creq[c].run => job'[q] = job[q]
                        /\ q = creq[c].run /\ job'[q] # None => job'[q].status = "RUNNING"
    BY <1>1, <1>2, <1>9, JobUpdate DEF sync_running, JobStatus, TypeOK, TablesOK
  <2> QED BY <1>1, <1>3, <2>2, <2>3, HandlerRows, OpenKept DEF Open
<1> QED BY <1>4, <1>5, <1>6, <1>7, <1>8, <1>9 DEF HandlerStep

\* Every step keeps the jobs of unfinished runs open.
LEMMA OpenStep == IInv /\ [Next]_vars => OpenInv'
<1>1. ASSUME IInv, UNCHANGED vars PROVE OpenInv'
  BY <1>1 DEF vars, IInv, OpenInv, MayWrite, Holds, Pristine, Active, clientVars, execVars, tableVars
<1>2. ASSUME IInv, NEW c \in Clients, Arrive(c) PROVE OpenInv'
  <2>1. TypeOK /\ OpenInv /\ UNCHANGED <<results, row, job, execVars>>
    BY <1>2 DEF Arrive, IInv, tableVars
  <2>2. \A d \in Clients : Holds(d)' => Holds(d) /\ creq'[d] = creq[d]
    BY <1>2, <2>1 DEF Arrive, Holds, TypeOK, ClientsOK
  <2>3. \A e \in Executors : Active(e)' = Active(e) /\ ereq'[e] = ereq[e] /\ epc'[e] = epc[e]
    BY <2>1 DEF Active, execVars
  <2> QED BY <2>1, <2>2, <2>3, WritersShrink, OpenKept DEF OpenInv
<1>3. ASSUME IInv, NEW p \in Pollers, PollStep(p) PROVE OpenInv'
  <2>1. OpenInv /\ UNCHANGED <<results, row, job, clientVars, execVars>>
    BY <1>3 DEF PollStep, poll_row, poll_result, poll_job, IInv, tableVars
  <2> QED BY <2>1 DEF OpenInv, MayWrite, Holds, Pristine, Active, clientVars, execVars
<1> QED BY <1>1, <1>2, <1>3, HandlerOpen, SyncOpen, PipelineOpen, TaskOpen, MishapOpen DEF Next

-----------------------------------------------------------------------------
\* Settled jobs.
LEMMA SettledKept ==
    ASSUME SettledJobHasResult, results \subseteq results',
           \A r \in Runs : job'[r] # None =>
               \/ job'[r] = job[r]
               \/ job'[r].status \in Open
               \/ job'[r].status = "FAILED" /\ job'[r].error
               \/ \E x \in results : x.key = job'[r].key /\ x.status = job'[r].status
    PROVE  SettledJobHasResult'
  BY DEF SettledJobHasResult, Open

\* What an update of a job leaves behind, when it says nothing but the truth.
LEMMA SettledUpdate ==
    ASSUME TypeOK, SettledJobHasResult, UNCHANGED results, NEW r \in Runs, NEW status \in JobStatus,
           NEW error \in BOOLEAN, update_job(r, status, error),
           job[r] # None =>
               \/ status \in Open
               \/ status = "FAILED" /\ error
               \/ \E x \in results : x.key = job[r].key /\ x.status = status
    PROVE  SettledJobHasResult'
<1>1. /\ \A q \in Runs : q # r => job'[q] = job[q]
      /\ job'[r] # None => /\ job[r] # None /\ job'[r].status = status
                           /\ job'[r].error = error /\ job'[r].key = job[r].key
  BY JobUpdate DEF TypeOK, TablesOK
<1> QED BY <1>1, SettledKept

\* An executor that has returned has a result with the key of its run's job.
LEMMA ReturnedResult ==
    ASSUME IInv, NEW e \in Executors, epc[e] = "returned"
    PROVE  /\ esaved[e] \in results /\ esaved[e] \in Result /\ esaved[e].status \in JobStatus
           /\ ereq[e].run \in Runs /\ esaved[e].key = job[ereq[e].run].key
<1>1. TypeOK /\ PlacesInv /\ KeysInv /\ Active(e) /\ epc[e] \in Saved
  BY DEF IInv, Active, Saved
<1>2. esaved[e] \in results /\ esaved[e].key = idempotency(ereq[e]) /\ HasJob(ereq[e])
  BY <1>1 DEF KeysInv
<1>3. esaved[e] \in Result
  BY <1>1, <1>2 DEF TypeOK, TablesOK
<1> QED BY <1>1, <1>2, <1>3, RunsNamed DEF HasJob, Result, JobStatus, Terminal

\* Every step settles a job with a stored result or an error.
LEMMA SettledStep == IInv /\ [Next]_vars => SettledJobHasResult'
<1> SUFFICES ASSUME IInv, [Next]_vars PROVE SettledJobHasResult'
  OBVIOUS
<1>1. TypeOK /\ PlacesInv /\ KeysInv /\ SettledJobHasResult
  BY DEF IInv
<1>2. CASE UNCHANGED job /\ results \subseteq results'
  BY <1>1, <1>2, SettledKept
<1>3. ASSUME NEW c \in Clients, create_job(c) PROVE SettledJobHasResult'
  <2> DEFINE new == [status |-> "QUEUED", key |-> idempotency(creq[c]), error |-> FALSE]
  <2>1. job[creq[c].run] = None /\ job' = [job EXCEPT ![creq[c].run] = new] /\ UNCHANGED results
    BY <1>1, <1>3 DEF create_job, KeysInv
  <2>2. new.status \in Open
    BY DEF Open
  <2> HIDE DEF new
  <2>3. \A q \in Runs : job'[q] = job[q] \/ job'[q].status \in Open
    BY <1>1, <2>1, <2>2 DEF TypeOK, TablesOK
  <2> QED BY <1>1, <2>1, <2>3, SettledKept
<1>4. ASSUME NEW c \in Clients, sync_running(c) PROVE SettledJobHasResult'
  <2>1. creq[c].run \in Runs
    BY <1>1, <1>4, HandlerHasRequest DEF HandlerStep
  <2> QED BY <1>1, <1>4, <2>1, SettledUpdate DEF sync_running, JobStatus, Open
<1>5. ASSUME NEW c \in Clients, SyncStep(c) PROVE SettledJobHasResult'
  <2>1. Active(c) /\ c \in Executors
    BY <1>5 DEF SyncStep, sync_done, sync_failed_job, sync_failed_run, legacy_sync_done, legacy_sync_failed,
       Active, Executors
  <2>2. ereq[c] = creq[c] /\ creq[c].run \in Runs
    BY <1>1, <2>1, RunsNamed DEF PlacesInv
  <2>3. CASE sync_done(c)
    BY <1>1, <2>1, <2>2, <2>3, ReturnedResult, SettledUpdate DEF sync_done
  <2>4. CASE sync_failed_job(c)
    BY <1>1, <2>2, <2>4, SettledUpdate DEF sync_failed_job, JobStatus, Terminal, ResultStatus
  <2> QED BY <1>2, <1>5, <2>3, <2>4
          DEF SyncStep, sync_failed_run, legacy_sync_done, legacy_sync_failed, tableVars
<1>6. ASSUME NEW r \in Runs, TaskStep(r) PROVE SettledJobHasResult'
  <2>1. Active(r) /\ r \in Executors
    BY <1>6 DEF TaskStep, task_starts, task_running, task_done, task_failed_run, task_failed_job, Active, Executors
  <2>2. ereq[r].run = r
    BY <1>1, <2>1 DEF PlacesInv
  <2>3. CASE task_done(r)
    BY <1>1, <2>1, <2>2, <2>3, ReturnedResult, SettledUpdate DEF task_done
  <2>4. CASE task_failed_job(r)
    BY <1>1, <2>4, SettledUpdate DEF task_failed_job, JobStatus, Terminal, ResultStatus
  <2>5. CASE task_running(r)
    <3>1. update_job(r, "RUNNING", FALSE) /\ UNCHANGED results
      BY <2>2, <2>5 DEF task_running
    <3> QED BY <1>1, <3>1, SettledUpdate DEF JobStatus, Open
  <2> QED BY <1>2, <1>6, <2>3, <2>4, <2>5 DEF TaskStep, task_starts, task_failed_run, tableVars
<1>7. ASSUME NEW c \in Clients, Arrive(c) \/ HandlerStep(c) PROVE SettledJobHasResult'
  BY <1>2, <1>3, <1>4, <1>7
     DEF Arrive, HandlerStep, check_submission_lookup, check_submission_run, create_run, submit,
         legacy_sync_closes, tableVars
<1>8. ASSUME NEW e \in Executors, PipelineStep(e) PROVE SettledJobHasResult'
  BY <1>2, <1>8
     DEF PipelineStep, key_check, research_starts, research_ends, research_skipped, draw_version, save_check,
         save_insert, insert, audit_saved, report, raises, tableVars
<1>9. ASSUME NEW p \in Pollers, PollStep(p) PROVE SettledJobHasResult'
  BY <1>2, <1>9 DEF PollStep, poll_row, poll_result, poll_job, tableVars
<1>10. CASE Mishap \/ UNCHANGED vars
  BY <1>2, <1>10 DEF Mishap, task_write_fails, handler_write_fails, Restart, tableVars, vars
<1> QED BY <1>5, <1>6, <1>7, <1>8, <1>9, <1>10 DEF Next

-----------------------------------------------------------------------------
\* Answers.
LEMMA AnswersKept ==
    ASSUME TypeOK, AnswersCarryTheKey, NEW c \in Clients, NEW x, given' = [given EXCEPT ![c] = x],
           UNCHANGED creq, x # None => x.key = idempotency(creq[c])
    PROVE  AnswersCarryTheKey'
  BY DEF AnswersCarryTheKey, TypeOK, ClientsOK, idempotency

\* Every step answers with a result of the request's key.
LEMMA AnswersStep == IInv /\ [Next]_vars => AnswersCarryTheKey'
<1> SUFFICES ASSUME IInv, [Next]_vars PROVE AnswersCarryTheKey'
  OBVIOUS
<1>1. TypeOK /\ PlacesInv /\ KeysInv /\ AnswersCarryTheKey
  BY DEF IInv
<1>2. CASE UNCHANGED <<given, creq>>
  BY <1>1, <1>2 DEF AnswersCarryTheKey, idempotency
<1>3. ASSUME NEW c \in Clients, Arrive(c) PROVE AnswersCarryTheKey'
  <2>1. given[c] = None /\ UNCHANGED given
    BY <1>1, <1>3 DEF Arrive, PlacesInv
  <2>2. \A d \in Clients : d # c => creq'[d] = creq[d]
    BY <1>1, <1>3 DEF Arrive, TypeOK, ClientsOK
  <2> QED BY <1>1, <2>1, <2>2 DEF AnswersCarryTheKey, idempotency
<1>4. ASSUME NEW c \in Clients, HandlerStep(c) PROVE AnswersCarryTheKey'
  <2>1. cend[c] \in Endpoints
    BY <1>1, <1>4, HandlerHasRequest
  <2>2. CASE check_submission_lookup(c)
    <3>1.               \/ UNCHANGED <<given, creq>>
                         \/ \E x : /\ given' = [given EXCEPT ![c] = x] /\ UNCHANGED creq
                                   /\ x # None => x.key = idempotency(creq[c])
      BY <2>1, <2>2, LookupCases DEF Respond, Continue
    <3> QED BY <1>1, <1>2, <3>1, AnswersKept
  <2>3. CASE create_job(c)
    BY <1>2, <2>1, <2>3, ServiceAssumption DEF create_job, Continue
  <2>4. CASE legacy_sync_closes(c)
    BY <1>1, <2>4, AnswersKept DEF legacy_sync_closes, Respond, AnswersCarryTheKey
  <2>5. CASE check_submission_run(c) \/ create_run(c) \/ submit(c) \/ sync_running(c)
    BY <1>1, <1>2, <2>5, AnswersKept DEF check_submission_run, create_run, submit, sync_running, Respond, Continue
  <2> QED BY <1>4, <2>2, <2>3, <2>4, <2>5 DEF HandlerStep
<1>5. ASSUME NEW c \in Clients, SyncStep(c) PROVE AnswersCarryTheKey'
  <2>1. epc[c] = "returned" => esaved[c].key = idempotency(creq[c])
    BY <1>1 DEF KeysInv, Saved, PlacesInv, Active, Executors
  <2> QED BY <1>1, <1>2, <1>5, <2>1, AnswersKept
          DEF SyncStep, sync_done, sync_failed_job, sync_failed_run, legacy_sync_done, legacy_sync_failed,
              Respond, clientVars
<1>6. ASSUME NEW e \in Executors, PipelineStep(e) PROVE AnswersCarryTheKey'
  BY <1>2, <1>6
     DEF PipelineStep, key_check, research_starts, research_ends, research_skipped, draw_version, save_check,
         save_insert, audit_saved, report, raises, clientVars
<1>7. ASSUME NEW r \in Runs, TaskStep(r) PROVE AnswersCarryTheKey'
  BY <1>2, <1>7
     DEF TaskStep, task_starts, task_running, task_done, task_failed_run, task_failed_job, clientVars
<1>8. ASSUME NEW p \in Pollers, PollStep(p) PROVE AnswersCarryTheKey'
  BY <1>2, <1>8 DEF PollStep, poll_row, poll_result, poll_job, clientVars
<1>9. CASE Restart
  BY <1>1, <1>9 DEF Restart, AnswersCarryTheKey, idempotency
<1>10. ASSUME NEW c \in Clients, handler_write_fails(c) PROVE AnswersCarryTheKey'
  BY <1>1, <1>10, AnswersKept DEF handler_write_fails, Respond
<1>11. CASE UNCHANGED vars \/ \E r \in Runs : task_write_fails(r)
  BY <1>2, <1>11 DEF vars, task_write_fails, clientVars
<1> QED BY <1>3, <1>4, <1>5, <1>6, <1>7, <1>8, <1>9, <1>10, <1>11 DEF Next, Mishap

-----------------------------------------------------------------------------
\* The invariant.
THEOREM Invariance == Spec => []IInv
<1>1. Init => IInv
  <2>1. Init => SettledJobHasResult /\ AnswersCarryTheKey
    BY DEF Init, SettledJobHasResult, AnswersCarryTheKey
  <2> QED BY <2>1, TypeInit, PlacesInit, KeysInit, HandsInit, OpenInit DEF IInv
<1>2. IInv /\ [Next]_vars => IInv'
  BY TypeStep, PlacesStep, KeysStep, HandsStep, OpenStep, SettledStep, AnswersStep DEF IInv
<1> QED BY <1>1, <1>2, PTL DEF Spec

\* All variables keep their types.
THEOREM TypeCorrect == Spec => []TypeOK
<1>1. IInv => TypeOK
  BY DEF IInv
<1> QED BY <1>1, Invariance, PTL

\* The pipeline of a run is entered at most once, for any number of clients,
\* any mixture of endpoints and keys, and any number of mishaps.
THEOREM PipelineRunsOnce == Spec => []PipelineOncePerRun
<1>1. IInv => PipelineOncePerRun
  BY DEF IInv, HandsInv, HandsOf, PipelineOncePerRun
<1> QED BY <1>1, Invariance, PTL

\* A job settled without an error has its result in the store.
THEOREM SettledJobsHaveResults == Spec => []SettledJobHasResult
<1>1. IInv => SettledJobHasResult
  BY DEF IInv
<1> QED BY <1>1, Invariance, PTL

\* Whatever stored result a client is answered with has its request's key.
THEOREM AnswersMatchKeys == Spec => []AnswersCarryTheKey
<1>1. IInv => AnswersCarryTheKey
  BY DEF IInv
<1> QED BY <1>1, Invariance, PTL

=============================================================================
