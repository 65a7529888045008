# Verification of KB-AI

TLA+ models of the analysis backend under `src/backend/src`, checked with TLC and, where a theorem
is stated, proved with TLAPS. Paths below are relative to `src/backend/src`.

## Inventory

**Job runner and run control** (`orchestration/job_runner.py`, `orchestration/run_control.py`).
State: `futures` (last future per run), the thread pool's queue, `_cancelled`, `_deadlines`. Operations:
`submit`, `retry`, `cancel`, `get_status`, `_run_controlled`; `begin`, `finish`, `cancel`,
`stop_reason`. The HTTP layer submits, the research agents poll `stop_reason`. Hard: `cancel` and
`get_status` leave the lock after one read; one registry serves all pool threads. Correct when no run
executes twice at once, a cancellation hits exactly the execution it was made for, and every accepted
item ends. *Modelled.*

**Analysis submission, execution and result store** (`api/main.py`, `storage/job_repository.py`,
`storage/analysis_repository.py`, `AuditRepository`, and the database steps of
`orchestration/analysis_orchestrator.py` and `orchestration/research_pipeline.py`). State: the tables
`research_runs`, `analysis_jobs`, `analysis_results`. Operations: four submitting endpoints, the task
`_execute`, status and result endpoints, `/v1/what-if`. Hard: every table access is a transaction of its own, so
each check-then-act races; exceptions at any step; restarts. Correct when a run's pipeline starts
once, results carry the key they were asked for with, and what clients see of a run only moves forward.
*Partly: not `/v1/what-if`, the read-only endpoints and the rate limiter.*

**Research agents** (`research_agents/base.py` and its four subclasses). Per run of an agent: seeds,
queries, hits, documents, the snapshots already seen, documents to extract, outcomes, candidates, failures;
budgets for queries, documents and extractions, an optional wall-clock deadline. Hard: stops, the deadline
and provider failures in each of four loops, documents that are met on several ways, and a bundle that has
to say truthfully what is missing. The policy agent extracts policies in a loop of its own after that. *Partly:
not the texts of queries, the metrics, and the relevance ranking's figures.*

**Research pipeline** (`orchestration/research_pipeline.py`). Runs the agents on a pool of its own, merges
their documents and candidates, validates each candidate with one retry, reconciles and stores. Hard:
completion order, agents that raise, retries, concurrent writes to the source tables. Correct when COMPLETED
means that nothing was lost and every candidate has one verdict. *Modelled.*

**Event validation and reconciliation** (`validation/research_validator.py`, `reconciler.py`). A candidate
passes through checks of claims, quotes, dates, places and evidence to ACCEPTED, CONFLICTED or REJECTED;
accepted ones are merged into canonical events, decisions of the central bank into one sequence. Correct when what is accepted
is grounded in a document and unopposed. *Partly: not the older validators, which only tests use.*

**Policy validation, eligibility and relief** (`validation/policy_*.py`, `relief/`). Policies are
identified, validated, merged, stored under a hash shared by all runs, judged per store, simulated and ranked. Hard:
identity is a hash of some fields while sameness is a relation that is not transitive; notices terminate or correct
other notices. *Partly: not wording and `benefit_simulator.py`.*

**Document and event repositories** (`storage/repositories.py`, `storage/database.py`). Source documents
with revisions and a latest pointer, events, policies, audit logs; a schema upgrade at start. *Partly: not
model-call records, logs and the upgrade.*

**Official data and features** (`orchestration/official_data_pipeline.py`, `ingestion/official_api/`,
`forecasting/official_features.py`, `official_event_bridge.py`). Vintages, freshness, look-ahead guards, caps.
Correct when no figure after the analysis date is used and gaps are told. *Partly: not URLs, paging and wire formats.*

**Geocoding** (`ingestion/official_api/map_api.py`). A cascade of lookups at two providers. *Partly: query
texts are abstracted to what is answered to them.*

**Source snapshots** (`source_snapshot/`). The reading of the Bank of Korea's decisions is modelled; the fetcher (redirects,
limits), the quality gate and text extraction appear as their answers. *Partly.*

**Forecasting, finance, signals** (`forecasting/`, `finance/`, `signals/`). Choice of a model by back-tests, loan schedules,
monthly flows, scenario adjustments. Pure Decimal algorithms; hard are their edges (short histories, grace periods, caps, rates that change
from month to month) and their composition. *Partly: not prediction intervals, the library's fits and the legacy modules.*

**Orchestrator sections** (`orchestration/analysis_orchestrator.py`). Sections move from NOT_STARTED to a terminal
status while failures are contained per section; the overall status follows from them. *Partly: not the what-if version, payloads and reports.*

**Extraction and search providers** (`providers/`): the policy extractor with its retries, repair and failures is modelled, the
others are answers. *Partly.* **Normalization**: containment of regions is modelled, text conversions are not. *Partly.*

**Not modelled**: registries and contracts (tables and data classes, from which the models take their domains), reporting, metrics and
settings, the legacy pipelines, the frontend, evaluation, scripts and migrations (see below).

How they interact: a handler creates row and job, submits `_execute` to the runner, which runs the
orchestrator; the orchestrator collects official data, runs the research (core agents and policy agent),
forecast, signals, finance, relief, and saves one result. Agents and pipeline poll run control. Clients poll the
status endpoint, which reads the three tables.

## Modules

| Module | Models | Built on |
| --- | --- | --- |
| `RunControl` | `RunControlRegistry`: flags and deadlines; time is folded into armed/lapsed | - |
| `JobRunner` | `InProcessJobRunner`, the parts of `ThreadPoolExecutor` and `Future` it uses (external) | extends `RunControl` |
| `RunSlots` | abstract: one slot per run, at most Capacity executing | - |
| `ResultStore` | the table `analysis_results` with its lookups and unique constraints | - |
| `AnalysisService` | endpoints, `_execute`, database steps of orchestrator and research pipeline, polling, restarts | extends `ResultStore`, uses `RunSlots` in place of the runner |
| `RunLifecycle` | abstract: what a polling client is promised | - |
| `DocumentIntake` | what an agent does with one fetched document: duplicates, listings, linked documents, Bank of Korea recovery | - |
| `ResearchAgent` | `BaseResearchAgent.run`: seeds, discovery, fetching, extraction, the bundle | extends `DocumentIntake` |
| `SourceStore` | `SourceRepository.save` as a lookup and a write | - |
| `LocationResolution` | `resolve_location`: the cascade of lookups and the selection of a match | - |
| `EventValidation` | validator and reconciler of events | extends `LocationResolution` |
| `ResearchPipeline` | the pool of agents, merge, validation and its retry, saves, the settled run | extends `EventValidation`, `SourceStore` |
| `PolicyIdentity`, `PolicyValidation`, `PolicyRelief` | identity; evidence, semantics, reconciliation; eligibility, benefit, ranking | each extends the one before |
| `PolicyPipeline` | the policy agent's loop with its extractor, merge, store, recommendation | extends `PolicyRelief` |
| `OfficialData`, `OfficialFeatures` | adapters' row filters and the collection; features and the bridge for decisions | each extends the one before |
| `BaselineForecast`, `MonthlySignals`, `MonthlyFinance` | model choice; adjustments from events; loans, flows, break-even, comparison | each extends the one before |
| `BokDecision` | what a document of the central bank decides | - |
| `AnalysisSections` | `AnalysisOrchestrator.run` over the five modules above | extends `MonthlyFinance`, `BokDecision` |
| `Selections` | list comprehensions with a condition and sorts, as functions the prover can follow | - |
| `SequenceLemmas` | induction over positions and finite sets, `FoldLeft`, `FlattenSeq`, `Chosen`, `Arranged` and sums | uses `Selections` |
| `*_proofs` | theorems about `JobRunner`, `AnalysisService` (two modules), `ResearchAgent`, `ResearchPipeline`, `PolicyPipeline`, `AnalysisSections` | extend them and use `SequenceLemmas` |
| `MC*` | instances for TLC | - |

Definitions introduced by a comment "Fault" are not part of any specification: they are wrong versions of
the definition after them, kept to see that the property they should break notices.

### State and actions

`JobRunner`. `futures` is the dictionary of the class; a future has the states of
`concurrent.futures.Future`, a pool thread (`wpc`) goes through pick-up, `begin`, polling, `finish` and
setting the outcome. Each lock-protected block is one action; what follows outside the lock (the rest of
`cancel` and `get_status`) is one action per look.

`AnalysisService`. `row`, `job` and `results` are the three tables; each transaction is one action and each
caller has a program counter (`cpc` for handlers, `epc` for whoever runs the pipeline). Exceptions are
alternatives of the actions at which the code can raise; a restart keeps the tables and drops the rest.

`ResearchAgent`. `stage` and `next` are the loop and the iteration; one action is one iteration with the
provider's answer chosen from `Answers`, `SearchHits` or `Extractions`. `stopped` and `clock` stand for the
run's stop reason and the deadline and move by themselves. They are read only at the head of an iteration
(the code reads them nowhere else), which is why an iteration can be one action. A page stands for a
snapshot; the quality gate's verdict on it is data (`disposition`), the routing by verdict is modelled.
Metrics, timings and ordinary logging are left out; several timeouts of one kind count as one failure. `accesses` is a
history variable: the page or the exception that each access to a budgeted document came to, which the code keeps nowhere as such.

`ResearchPipeline`. The agents are threads with a program counter `at`; what an agent will read and extract is its `load`. `Look` and `Save`
are the two halves of `SourceRepository.save`: the lookup happens before the transaction takes the write lock. `Collect` hands
over results in the order agents finish. After that one thread works: `Merge`, one `ValidateNext` per candidate with its retry, `Reconcile`,
one `SaveNext` per event, `Finish`, `Summarise`. A candidate is a shape (what its text says) over a source; the validator is the operator
`EventValidation` applies to it.

`PolicyPipeline`. `phase` and `at` are the position, `request` the open request of the extractor with its retries and repair; each answer of the
provider is an action. `Merge` validates and reconciles (`PolicyValidation`), `Save` is one transaction of the policy repository, which the
rows of other runs share (`Earlier` are those it finds), `Recommend` is the relief pipeline (`PolicyRelief`). `ending` is a ghost that remembers how the extraction of a source ended.
`handed` is what the base agent hands over: any status and reasons in `HandedOver`, to which this loop adds its own. A policy's conditions are a list;
its identity keeps the last rule for each field, a zero of an amount and a false value of a rule count there as not stated, and the identity of a merge takes the
rules of each original after that (`eligibility_map`, `written`, `known_rules`), as `policy_identity.py` has it.

`AnalysisSections`. One action per section of `run()`; within finance one per scenario, since each is saved in a transaction of its own and
what raises leaves the earlier ones stored. Providers' answers and the outcome of the research are chosen in the action. The calculations are
operators over integers: a relative figure is in ten-thousandths, a rate in hundredths of its unit (`unit_scale`; the code looks for PERCENT in a unit's
name, the model has the set `Percentages`), money is a whole number, days are numbered and months have thirty of them. Rounding to
whole units stands for the code's rounding to cents; properties are about identities that hold under either.

## What is checked

| Run | Question | Instance |
| --- | --- | --- |
| `job_runner_safety` | no double execution, cancellations and deadlines stay with their execution, `RunSlots` is implemented | 2 runs, 3 futures, 2 workers, 1 canceller |
| `job_runner_liveness` | every accepted item is executed or cancelled, terminal answers of `get_status` stay true | 1 run, 2 futures, 1 worker, 1 canceller, 1 reader |
| `service_safety` | one pipeline per run, settled jobs have results, answers carry their key, `RunLifecycle` is implemented | 2 runs, 2 clients, all endpoints, a header, 1 mishap |
| `service_polling` | a status answer that can be opened has its result and stays; jobs settle | 1 run, 2 clients, 1 poller |
| `research_agents` | the bundle is truthful; seeds and protected documents survive the deadline; stored documents are accounted for; no rate decision is lost | a policy and a local agent with one query, a macro agent with two, over webs of 7 to 9 pages |
| `research_pipeline` | what is accepted is grounded, unopposed and has one verdict; COMPLETED loses nothing; the store stays consistent | 2 agents, 3 sources, 2 revisions, 33 shapes of candidates |
| `policy_pipeline` | what is recommended is open, grounded and uncontested; no policy is lost or renamed | 2 documents, 2 more revisions elsewhere, 14 forms of a programme, 3 bundles of the base agent, rows of an earlier run |
| `analysis_sections` | figures were known in time, one cause acts once, the status tells the truth, comparisons and loans add up | 9 stores, 5 request lists, 8 research outcomes |

The bounds are the smallest at which the cases of interest meet. Two runs and two workers are
needed for one run's `begin` and `finish` to fall into another's execution; three futures let a run be
submitted, settled and submitted again while the other runs. Two clients give every pair of submissions
(same run or not, same key or not, any two endpoints) and one mishap a restart or a failed write at any
point; a third client repeats the race against whichever of the two is left. The agent instances let every
kind of outcome occur for a seed, a hit and a linked document, and set each budget one below what
may be found, so that each is exceeded in some behaviour. The macro agent's web has Bank of Korea pages of every routing, some that are
recovered from others, and some whose decision the routing drops. In `research_pipeline` every check of the validator has a shape that fails
it, and every kind of document one that it is tried on; three sources of any three tiers are what a majority, a tie and a
decision by tier need; decisions on five days include the past, the present and the future one; two agents that store two revisions of one
source are the race. In `policy_pipeline` the forms are the pairs that must be kept apart or merged, with several rules for one field and a zero among them, and two documents let a policy be
confirmed, contradicted, terminated or read elsewhere. In `analysis_sections` the histories have the lengths at which another model becomes
eligible, the loans every kind of repayment with grace, renewal and delayed first payment, and the answers every mark an observation can get.

Deadlock is not checked where the system stops by itself (a finished run, clients served, no future left to submit).
`ResearchAgent` is checked for deadlock.

`OneVerdictPerCandidate` excepts runs in which two candidates of one source are retried: their identifiers may coincide (below).

### Fairness

`JobRunner` and `AnalysisService`: each pool thread and each handler thread keeps being scheduled (weak
fairness), and a task whose end is possible again and again ends (strong fairness on `TaskEnds`: research
providers have timeouts and the agents poll the stop reason). Nothing is assumed of
clients, cancellers, restarts or clocks. The other specifications are about safety: each has one thread whose loops run over finite lists
once the agents, whose end is the runner's subject, have returned.

### Disagreements between code and documentation

Each of these is a run that TLC finds violated.

- `service_shared_key`: two runs submitted together with one key; the later is reported completed and has no
  result (docs/OPERATIONS.md:137).
- `policy_corrections`: a correction that restates the facts of its notice has the notice's identifier, supersedes itself and
  overwrites the notice (`validation/policy_identity.py:137`, against `policy_validator.py:250`).
- `policy_regions`: a policy for a city is ineligible in its districts (`normalization/region_normalizer.py:75-76`).
- `sections_stale`: data older than a request allows leaves the section COMPLETED (`official_data_pipeline.py:245-249`, against
  docs/API.md:187).

Also in the models, or met while writing them, without a run:

Service and runner
- With an `Idempotency-Key`, a second body for a run is not refused with 409 (docs/API.md:137) but answered with the first
  body's result (`api/main.py:293`).
- The legacy synchronous endpoint creates a job and never settles it (`api/main.py:639-648`), although
  docs/OPERATIONS.md:133 has jobs store their final status.
- A cancellation between pick-up and `begin` is forgotten; `get_status` can raise `CancelledError`; a failing
  status write outside `_execute`'s try block leaves the job open.

Research
- A final URL and body reached through two URLs is extracted twice and not marked as a duplicate (`base.py:765`,
  docs/ARCHITECTURE.md:89); a recovered Bank of Korea document that is also a hit yields the same candidate identifiers
  twice (`base.py:1038`), which `contracts/attribution.py:184-186` rejects for the whole result.
- A linked page or attachment that times out is recorded as `DETAIL_FETCH_FAILED`, never as a timeout
  (docs/OPERATIONS.md:129), and its bundle may be COMPLETED.
- A rate decision on a page that the quality gate routes elsewhere is dropped: a page that changes the rate under ROUTE_TO_DETAIL,
  FETCH_ATTACHMENTS, REFERENCE_ONLY or REJECT is never extracted (`base.py:985,1165`), and a hold only when it is met as a search hit or a
  seed. The macro instance has such pages; `DecisionsAreKept` speaks of pages that may be extracted.
- A listing all of whose rows are stale has all its links followed (`ranked_urls`), against the docstring at `base.py:98`.
- Two candidates of one source that are retried can get one identifier (`research_pipeline.py:62`; docs/TEST_RESULTS.md:30).
- Two agents that store a new revision together collide in `SourceRepository.save`, and one agent's documents are lost; the
  run is then PARTIAL. A collision in the normalization log leaves the run RUNNING.
- The outcome of a tie is decided after the merge, among candidates of other tiers (`reconciler.py:34`); reconciliation
  depends on the order of candidates; conflicting ones vanish from the result.
- Two decisions of the bank on one day leave one labelled as future; a decision in force is not ended by the next future one.
- An invalid offset range is coded QUOTE_NOT_FOUND; the geocoder's area fallback looks at the last keyword lookup only.

Policies
- All runs of the policy agent share its `_active_deadline`; the loop breaks at an unprotected document after the deadline, so that
  protected ones after it are not tried.
- A contradiction on a page concerns every policy of that page; purposes and exclusions separate programmes without a
  conflict; repayment method and collateral are part of the identity and never compared; two candidates with the same facts, one of them
  closed by its quote, stay two results with one identifier; an updated policy keeps the run of its first save.
- An identity keeps the last rule of a field only and writes an amount of zero like one that is not stated (`policy_identity.py:117-167`), so that programmes
  that differ in nothing else share an identifier and the later save overwrites the row (`repositories.py:209-223`), although
  `PolicyIdentityCollisionError` is there to refuse it (`repositories.py:200`). The row of a merge is known by rules that need not be its last ones.
- A date, an amount or a rate without a quote for it, and a guarantee's coverage and fee with or without one, are compared with nothing
  (`policy_semantics.py:123-160`): a policy may be recommended on such a term.
- A schema error causes one repair request, although docs/CONFIGURATION.md:154 says none is repeated; the relief pipeline does not read `recommendation_failure_codes`.

Data, forecast and finance
- `max_age_days` of the registry is displayed and never applied; error keys of two indicators overwrite each other; every failure an adapter
  catches shows as NO_OBSERVATIONS; one row with an impossible month fails a whole response; a missing required indicator is only
  PARTIAL when any other figure exists; a KOSIS revision after the analysis date hides the value known before it.
- A bridged decision is applied to a monthly figure dated to the first of the month even when the figure contains it
  (docs/ARCHITECTURE.md:78).
- A declared revenue of 0 without a history raises `IndexError` (`forecasting/pipeline.py:198`).
- Month i of a variable loan is read from a schedule calculated at month i's rate (`monthly_scenario.py:57-72,99-102`), so that a loan whose rate
  changes is not repaid exactly, and may be left open after a grace period. `LoansSettle` therefore speaks of one rate.
- Lower rates never lower interest; three axes' bounds of the coefficients are not applied; events are reported FINANCIALLY_APPLIED
  when finance failed, and bridged ones VALIDATED_REFERENCE_ONLY though they move features; a scenario whose save failed stays in the result.

## What is proved

For every value of the constants, with TLAPS.

`JobRunner_proofs`, from `WorkersAssumption` (finitely many pool threads) and `NoneAssumption`:

- `TypeCorrect`, from `TypeInv`: a canceller past its read holds a run.
- `ExclusiveExecution` (`OneExecutionPerRun`), from `ExclusionInv`: a live future is the one its run is
  registered with, so a run has one live future at a time, and a worker holds it alone.
- `CancellationIsExact`, `DeadlinesAreOwned`, from `ControlInv`, which adds that a run's flag and deadline
  were set during its current execution; exclusion is what keeps other executions' `begin` and `finish` away.
- `CancellationIsNeverLost` (`MarkedStaysCancelled`), from the same invariant: the flag of a cancellation that met a running task is
  discarded by that task's own `finish` and by nobody else.
- `AnswersAreTrue` (`TerminalAnswersStayTrue`), from `AnswerInv`: a reader past its second look saw the future done, and done futures stay.
- `DoneStaysDone`; and `RunnerImplementsSlots`, from `SlotInv`: a running future is in the hands of a worker, so
  the executing runs map one to one into the workers, which gives the capacity.

`AnalysisService_proofs`, from `ServiceAssumption`. The properties are not inductive by themselves: that a
pipeline is not started twice depends on who may still act. `IInv` says of a run without a result that it is in
the hands of at most one client or executor (`HandsInv`), that job, requests and results of a run agree on its key
(`KeysInv`), that places, requests and slots fit together (`PlacesInv`), and that a job whose run was never
finished stays open while somebody may write it (`OpenInv`). It is shown
action by action with one lemma for each kind of step. From it follow `TypeCorrect`, `PipelineRunsOnce`,
`SettledJobsHaveResults` and `AnswersMatchKeys`.

`AnalysisServiceLife_proofs`: every step of the service changes the tables of at most one run, in one of five
ways (`SetsRow`, `CreatesRow`, `CreatesJob`, `SetsJob`, `StoresResult`), and each way is a step of
`RunLifecycle` or leaves it as it is: `ServiceImplementsLifecycle`. `OpenableAnswersAreTrue` and `OpenableAnswersLast` are about what pollers
are told (`OpenableAnswersHaveResult`, `OpenableAnswersStay`). They assume `[]KeysAreOwn`, that no two runs are requested with one
`Idempotency-Key`: where some are, the first is false (the run `service_shared_key`). `DerivedKeysAreOwn` shows that clients without the header never
break it. `PollsInv` adds to `IInv` that a job's key was some request's (`JobsWereAsked`), that a run has one result, and what a half-finished poll may
rely on (`Reading`): a row past QUEUED has a job for good, and a poller that was told an openable status finds the result in its second read.

`SequenceLemmas` has what the proofs about lists share. The library's induction theorems are out of the provers' reach, but a set of
positions without a least member is empty, which the prover finds by itself; from this follow `PrefixInduction`, the steps of a fold
(`FoldSteps`, for any binary operator, by `INSTANCE ... WITH Op <- ...`), the members and the positions of a flattened list, and that `Chosen`
keeps exactly the chosen members in their order, and that `Arranged` by a strict total order rearranges a list and loses none of it.
Sums have a part of their own: `SumFunctionOnSet` is a `CHOOSE` of a recursive function over subsets that takes whichever member it likes, so that
`SumsExist` and `SumsAgree` first show that there is such a function and that the order makes no difference; `SumAdd`, `SumSame`, `SumMinus` and
`SumDrop` are what remains to be cited.

`ResearchPipeline_proofs`, from `LoadsAssumption` (an agent reads finitely many documents that the store may hold) and `ShapesAssumption` (the
types of what a candidate may say):

- `StoreStaysConsistent`, `StoreOnlyGrows`: any write of `SourceRepository.save`, whatever its lookup had found, keeps the latest
  pointer on a stored revision and takes nothing away.
- `CompletedKeepsSnapshots`, `CompletedIsEverything` (`CompletedMeansEverything`): a COMPLETED run has the snapshots of all its agents and a verdict
  on each of their candidates. `ReadIsStored` relates an agent's counter to the store, and a lookup that found a revision to the revision being
  there still; `AllAreWaitedFor` says that past the collection every agent has finished or is an error, and that an error excludes COMPLETED.
- `AcceptedRestOnEvidence` (`AcceptedAreGrounded`), `AcceptedPrevail` (`AcceptedAreUnopposed`), `DecisionsFollowEachOther` (`OneDecisionInForce`),
  from `VerdictsInv`: what was extracted is judged or still to be judged, every verdict is `Reasoned` (reasons unless it accepts, and then a
  `Grounded` event), and the accepted events are the reconciliation of the verdicts'. What `reconcile` does is shown by induction over its folds:
  the base event of a group `Prevails` over the first n of them (nobody among them is of a higher tier, and unless it is in conflict those that say
  something else are of a lower one), so that what stays accepted is opposed by nobody.
- `OneVerdict` (`OneVerdictPerCandidate`), from `NumberedInv` and `SavingInv`. `NumberedInv`: what is still to be judged has identifiers of its own that
  nobody was judged under, and a verdict on a retried candidate follows the verdict that asked for the retry, of the same agent and source (`InTurn`);
  so two verdicts with one identifier mean two retries of a source. `SavingInv`: the events still to be saved differ from each other and
  from those that were. Between the two lies reconciliation: through the fold over a group its events stay `Apart`, each having grown out of
  one candidate and taken over only later ones that nobody else has (`GrewFrom`), and events of different groups share none (`GroupsPart`).
- `TypeCorrect`, from `TypesInv`.

`ResearchAgent_proofs`, from `AgentsAssumption`, `IntakeLimits` and the types of its data. `IInv` has one invariant for each loop of
`BaseResearchAgent.run` and one for what they share:

- `Worked`: the work record is `Sound`. Nothing but central bank documents is queued twice, what is queued was seen, what was seen is stored, and a
  local agent's stored document is queued or has an outcome. Intake, linked documents and recovery keep it (lemmas per branch, folds by `FoldSteps`).
- `Accessing` says that each access to a budgeted document was recorded with its page or its exception, and that without a provider failure each of
  them gave its content; `Timely` that without one no seed timed out.
- `Asking`, `Trying`, `Reading`, `Seeded` relate the position of a loop to the records it wrote; a loop that ended before its last element has a
  timeout stage, a provider failure and a count for what it left (`OwnedUp`). `Reported` ties the bundle to the state it was made of.

From it follow `Typing` (`TypeOK`), `CutsAreOwnedUpTo` (`CutsAreReported`), `CompletedIsWhole` (`CompletedMeansWhole`), `ProtectedMinimum`
(`ProtectedWorkIsTried`), `ReasonsAreTrue` (`ReasonsTellTheTruth`), `NoneExtractedTwice` (`ExtractedOnce`) and `NothingStoredIsForgotten`
(`StoredMeansAccountedFor`).
`CompletedMeansWhole` is about what the accesses came to, not about how many were tried. `NoDecisionIsLost` (`DecisionsAreKept`) goes through the intake once
more: `Kept` says that no decision stored is left behind, but for those of pages still in work, and `Seeking` that a search behind a page passes over nothing that
decides and ends with a page that does.

`PolicyPipeline_proofs`, from `PolicyAssumption`: `BundleIsTrue` (`PolicyBundleTellsTheTruth`), whatever status and reasons the base agent hands over. In
`LoopInv`, `Looping` says that unless it was cut the loop left an ending for exactly the documents before its position, `CutWhere` that a cut left it at a
document which only a cancellation makes a protected one, and `Honest` that failures, their traces and the status agree at every moment.
`NothingVanishes` (`NothingExtractedVanishes`) is about the merge. `Accounts(rs, X)` says that the results `rs` speak for the candidates `X`, and no
candidate for two of them; it is shown for one group (its originals come to one result by `MergeAccounts`, its notices are added one by one by a fold),
then for groups one after the other (`FlattenAccounts`) and for the marks of conflicts. `GroupedDivides` shows that the groups divide the candidates,
whatever equivalence says of them (it is not transitive), and `StrengthsOrder` and `NumbersOrder` that both sorts are by strict total orders. The
invariant adds `Tracked`: a candidate's identifier names a document before the loop's position, so that none comes twice. `PolicyAssumption` says that an
agent holds one document of a source (a dictionary by `source_id`, base.py:764) and that an answer is made of whole candidates (the contract
`PolicyCandidate`), whose days, amounts and rates are numbers (`Amounts`).

What becomes of the candidates is followed to the rank and the row by `RankInv`, which adds that every result is `Settled`: all that validation found for
it still holds after the merge of originals, the linking of notices and the marks, since a merged field is one candidate's own, a quote keeps its
candidate's verdict and a contradiction marks both sides through their sources. `OnlyUncontestedAreRecommended` (`RecommendedAreUncontested`) takes
from it what the gate lets through. What a theorem about it can say of quotes is limited by the code: `policy_semantics` goes through the quotes that are given
for limits, rates, months and days, and only through those, so that where there is one the term is stated and quoted, and a term without one,
a guarantee's coverage and its fee are compared with nothing. A `CORRECTION` may be ranked, a `TERMINATION` never.
`StoredKeepIdentity` (`StoredPoliciesKeepIdentity`) rests on `Sealed`: an identifier is the fingerprint stored under it, of one candidate
(`Identified`) or of a merge (`Joined`), no identifier is both, and the fingerprint agrees with the row's name, type, lists, terms that are not zero and
rules (`Ruled`). It does not agree with all of the row: `eligibility_map` keeps a field's last rule and `written` no zero. So the property says that
a row rewritten keeps what an identity looks at, every rule it is known by and the fields it has rules for, and not that it keeps every fact. It assumes
the same of the rows in `Earlier`; `RowsStaySealed` shows that a run leaves them so, which closes the circle from run to run. `PolicyTypes` is `TypeOK`.
`PolicyAssumption` says of the base agent's bundle only that it is COMPLETED or PARTIAL and gives none of this agent's own reasons (`policy_reasons`).

`AnalysisSections_proofs`: `StatusTellsTheTruth` (`OverallStatusTellsTheTruth`) for any stores, answers, coefficients and outcomes. The property
looks at a finished result only, so the invariant follows the run: `DataIsWhole` ties a section's status to what it collected,
`LayersAreStored` the set of stored layers to the stage, the order of the scenarios and the status of finance, `ResultIsAssembled` the
result to the sections it was made from.

`RestOnEvidence` (`FiguresRestOnEvidence`) and `AddUp` (`FiguresAddUp`) are about the figures. Their invariant is `FiguresInv`
(`FiguresInvariance`): the data kept is sound and was known by the analysis date, or is a decision bridged from an event; features, forecasts and
signals are those of what was collected (`FiguresFollow`); each layer is the scenario of them at its own adjustments (`LayersFollow`); the result
compares the layers and tells of the events that the run has (`ResultFollows`). What was read early in the run is thus what every later section
was made from, and the properties become statements about the calculations:

- a figure enters a month's features only through observations that `collect` let in (a fold over the requests) or that the bridge made (a fold over the
  events in order of their start), so what a feature names as its source was known or is a decision not yet in the series;
- `dedupe_causes` takes from each group of signals one that none outdoes, which is a strict order, so a cause has one signal a month and axis
  (`CausesOnce`); an event without signals, or with signals of nothing, leaves every sum of shocks as it is (`SumDrop`, `UnappliedChangesNothing`);
- a role's change is bounded by its cap whatever series speak for it, and a part of a forecast rises with the ratio (`CapHolds`);
- `ScheduleSettles` follows a loan through the fold over its months: what is left and what was repaid are the balance (`PaidTo`), and a loan without
  grace or delay whose last contractual month is among them ends at nothing;
- `FlowsAreSound`: each month begins with what the one before left and adds what its entries are worth (`gain`). `ApartByShifts` shows
  by induction over the months that two such flows differ by the sums of what their entries differ by, which is the attribution.

They assume of the constants what the contracts enforce (`InputsAssumption`: amounts are not negative, horizons and terms positive, an event has an
identifier, contracts/store.py, loan.py, canonical_event.py), that a statistical fit fails or forecasts each month without negative revenue
(`SoundFits`, forecasting/pipeline.py:92-120), that days and settings are numbers (`OfficialAssumption`, `ForecastAssumption`), and
that a shock's bounds lie on either side of nothing (`SignalAssumption`, registries/coefficients.v1.yaml). A cap or a bound on another side would
make them false.

Only model-checked:

- All liveness: fairness is out of the prover's reach.
- `SeedsRemainUseful` of `ResearchAgent`. It is not true of every web: a central bank page among a macro agent's seeds that may be extracted gives its place
  to another when it decides nothing about the rate. The macro agent has no seeds in the code; the instance has them for the policy agent.

## Plan

Modules: `Fetcher` (redirects, limits, retries) and the quality gate in place of their answers; what-if versions beside
`ResultStore`; the frontend's polling.

Every safety property and every action property that a run checks is proved, but for the one named above. What those modules would add is still to be
proved with them: that a what-if version leaves the run it was made from untouched, and that redirects and retries end within their limits.

## Not modelled

Providers' wire formats, text normalisation and conversions, the statistical library, reports, wording and presentation, scripts, evaluation and
migrations: pure input and output or conversions that unit tests reach. Registries and contracts are data. Metrics are counters nobody
reads back; the rate limiter is a list of times in one process. The legacy pipelines with `finance/scenario.py` and
`relief/benefit_simulator.py` are superseded by the orchestrator; tests and the chatbot tools still use them. `signals/aggregator.py` and the older
validators are exported and tested, and called by nothing else.
