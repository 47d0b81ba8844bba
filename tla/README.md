# Verification of sre-blackboard

sre-blackboard turns alerts into incidents, investigates them with language-model agents, proposes
a remediation plan, has it reviewed by a policy and, where the policy says so, by a person, executes
it on a Kubernetes cluster and verifies the result. All processes (API, workers, executor) share one
PostgreSQL database; work is handed from one to the next as jobs in a queue table, and every change
that matters leaves a row in a hash-chained audit log. This directory holds TLA+ modules of the parts
that carry that promise, the TLC runs that check them, and TLAPS proofs of the central results.

## Inventory

| Part | State | Operations | Hard behaviour | What makes it correct |
|---|---|---|---|---|
| Job queue, `app/queue/jobs.py` | `jobs` rows: status, attempts, lease, fence, sort key | enqueue, claim, heartbeat, assert_fence, complete, fail, release, reap | workers stall, die, come back; reaping races a commit; attempt limits | one current run per job, no stale write, bounded attempts, ageing |
| Worker, `app/worker/runner.py` | table of running tasks, task per job, drain | claim loop, reap loop, execute, heartbeat, shutdown | cancellation at any await, errors while recording errors, reclaiming its own job | every job ends, nothing locked behind a dead task |
| Incident and handlers, `app/db/incidents.py`, `app/worker/*.py` | incident row with version, its jobs | transition, triage, investigate, plan, approval_timeout, verify | reruns after part of the work was committed | an open incident always has a job that moves it on |
| Remediation flow and API, `app/remediation/flow.py`, `app/api/remediation.py` | plans, approvals | submit, revise, decide | two people and a timeout race; rows read without a lock | only what was approved is executed |
| Executor, `app/executor/*.py` | executions | execute job: record, audit, patch, finish | crash around the patch, lost answers, zombies | at most one change per action, truthful records |
| Verification, `app/remediation/verify.py`, `app/worker/remediate.py` | streak, deadline | sample, verdict | gaps in the data, reruns, alerts that keep firing | resolved only by a streak, one verdict |
| Ingest, `app/ingest.py` | incidents, alerts | webhook: open, merge, record | concurrent webhooks, closing in between, lock order | one open incident per fingerprint, no alert lost |
| Audit log, `app/db/audit.py` | `audit_log` | append, verify | concurrent appends, rollbacks | one chain, rows visible in order |
| Console stream and web client, `app/api/stream.py`, `web/src/lib` | cursor, last event id, page cache | poll, frame, resume, invalidate, refetch | late commits, connections cut inside a frame, refetches under way | what is missed is bounded and known |
| Investigation agents, `app/agents` | agent runs, blackboard, tokens | investigate job, agent loop, rewrite, synthesis | resumption after a crash, overlapping attempts, budgets | entries once, finished agents not asked again, bounded overshoot |
| Citations, policy, planner, `app/agents/citations.py`, `app/remediation/policy.py` | none | check, evaluate | one action of several, evidence nobody saw, time windows | the strictest rule wins, nothing passes on hearsay |
| Evidence sources, `app/tools` | breaker, evidence rows | call, fetch, save | concurrent calls through a half-open breaker | a backend that is down is left alone; what is shown is stored |
| LLM providers, `app/llm` | processes, transcript | step, retry, render | time limit against a late answer, cancellation | few processes at once, requests the API accepts |
| Recording and replay, `app/agents/recording.py`, `app/eval/replay.py` | cassettes | export, load, answer | parallel questions, incidents opened and closed in between | the replay is told and does the same |
| Fault lab, `scripts/lab` | cluster, flags, chaos objects, alerts | inject, recover, accept | injections that fail half way, repairs that land late | the lab is restored; a success means what it says |
| Evaluation, `app/eval`, `scripts/lab/evaluate.py` | queue of scenarios, result file | run, score, gate | usage limits, retries, missing scenarios | each scenario counts once; a pass is earned |
| Knowledge base, `app/kb` | documents, chunks | chunk, ingest, search | concurrent ingests, two queries per search | one version per document, nothing lost in chunking |
| Observability, authentication, HTTP reads, web pages, prompts, deployment | | | | not modelled, see the end |

Components call each other through the database only: a handler enqueues the next job in the
transaction that moves the incident on; the API's decisions enqueue the execute job; the console
polls the audit log. `PROJECT.json` lists every component with its files, and every hazard with the
line where it bites and the properties aimed at it.

## Modules

`FencedJobs` is what the queue promises: a job is granted to one run at a time, each run has a number
(the fence), only the current run writes, and runs are bounded. `JobQueue` is the queue itself: one
action per function of `jobs.py`, the database clock, the handles that workers keep, and fenced
transactions that stay open between `assert_fence` and commit while holding the row lock.
`JobQueue` implements `FencedJobs` (`KeepsPromise`), and every model whose jobs are rows of this
queue is proved to move them only as `FencedJobs` allows, so what is assumed of a job there is what the
queue is proved to do.

`Worker` extends `JobQueue` with the process: every database step is the queue's own action joined
with what the task does about the outcome. Tasks are named by their handles, `_running` is keyed by
job as in the code. A cancellation is delivered at a later step than the one that requests it.

`Incident`, `Executor` and `Remediation` are one specification in three files: the incident's row and
the worker's handlers; the execute job step by step; the API requests, the specification and the
properties. They use the queue through what `FencedJobs` promises, so a fenced transaction is one
atomic step, while reads, model calls and cluster calls are steps of their own, and the API's
transactions are interleaved statement by statement. What the investigation, the planner, the policy
and the cluster answer is arbitrary. A run that lost its lease goes on until the database refuses it.

`Ingest` has webhooks and a worker's transaction at the level of SQL statements with the locks each
takes: `holder` says whose version of a fingerprint's open incident is uncommitted, `auditLock` who
holds the advisory lock. A blocked statement is a disabled action; a deadlock, like any error, ends
by `Rollback`. `AuditLog` has the inside of `audit.append` and `verify`; the hash is an injective
function of the previous hash and the content (a hash is the list of all contents before it).

`Verify` has the sampling loop of the verify job against a clock, with overlapping runs of the same
job. In `Incident` the outcome of the samples is arbitrary, so that nothing proved there depends
on it.

`Stream` extends `AuditLog` with the reader: cursors, batches and frames of `stream.py`, the client's
parser, its reconnection and the page that refetches what an event names. Rows of `llm_calls` and
`tool_calls` become visible in any order, audit rows in the order `AuditLog` gives them.

`Investigation` is the investigate job below `Incident`: its transactions, phases and checkpoints and
the loop of each agent, with attempts that overlap. `Policy` has the citation check and `evaluate`;
`Transcript` the messages an agent's turns are rendered to. `Sources` and `Llm` are what an agent waits
for: a tool call through registry, retries and breaker, and a model step through the CLI's subprocess.
`Cluster` is the API server and the Deployment controller as `k8s.py` sees them, with two executors and
a person who releases; `Executor` leaves the outcome of a patch arbitrary but for one assumption about the
API server, that an answer of 4xx stored nothing (an answer of 5xx, like a broken connection, may have), so
nothing proved there depends on `Cluster`. In the same way `Incident` takes every diagnosis and every verdict as possible.

`Lab` is the acceptance run against the lab it breaks; `Evaluate` the run over many scenarios, where
one scenario is a single outcome; `Scoring` what is made of the results; `Replay` the live run,
the export and the replay side by side, where a queue of recorded answers is the set of their places in
the cassette. `Chunking` is pure, its loops written as recursive functions
(`Stepwise`) so that proofs can follow them; `Knowledge` has the ingest of several
processes and the search.

The `MC*` modules name model values and symmetry sets for TLC. `MCExecutor` also
restricts which jobs are interrupted in one behaviour, to keep the run small. `MCParts` puts components side by side
that share no state: each behaviour chooses one of them at the start and the others stand still, so one
run explores them all and no product of their states arises. `MCInvestigation` does the same with the
investigation and what its agents wait for. Definitions that end in `_Slip`
are deliberately wrong variants of the definition after them; nothing uses them, except to show that
a property would notice that mistake.

Some results are about functions, not behaviours. They are stated as named assumptions over the
constants, which TLC evaluates before a run that extends the module, against a reference definition:

| Assumption | Module | Says |
|---|---|---|
| `ProvidersAgree` | `Llm` | both providers make the same error of every documented status, so a retry does not depend on the provider |
| `MarkedApart` | `Lab` | what marks a fault in the lab marks no other of the catalogue |
| `ShardsPartition` | `Evaluate` | the shards of a catalogue are disjoint and cover it |
| `NearestRank` | `Scoring` | the percentile is the smallest value with at least that share of the values at or below it |
| `WindowLength` | `Policy` | a change window is open for as many hours as it says, over midnight too |
| `AgreementFirst` | `Knowledge` | what both queries found comes before everything that one alone found, and the cut keeps all of it |
| `WholeText`, `FencesWhole`, `ChunksFit` | `Chunking` | no line is lost, a code block is not cut, chunks keep to their sizes |

## Runs

| Run | Module, configuration | Checks | Bounds, and why they are enough |
|---|---|---|---|
| `queue` | `MCJobQueue`, `JobQueue.cfg` | fencing, attempts, the refinement, claim order | two jobs of two priorities and a process, two claims each, clock to 2: enough for a lost lease, a reclaim by the same process and a full attempt count, and for a job of priority 1 that has waited more than one ageing step to be claimed before a new one of priority 0, in a claim of any priority; claims of P0 only happen too |
| `worker` | `MCWorker`, `Worker.cfg` | transactions end with their task, `job.dead` audited once, every job settles | two processes of two slots, one job, three claims, one database error, one successful heartbeat per claim; one process may stop or die anywhere |
| `worker_drain` | `MCWorker`, `WorkerDrain.cfg` | a violation, see below | one process is enough |
| `remediation_races` | `MCRemediation`, `RemediationRaces.cfg` | only approved, current plans run | two people, two concurrent requests, two plans: a decision against a revision, two decisions, both against the timeout; one attempt per job, and the verify job may be lost |
| `remediation_executor` | `MCExecutor`, `RemediationExec.cfg` | at most once, truthful records, no incident forgotten, closed for good, every incident closes | plans of up to two actions, two attempts: an execute run ends or stalls anywhere, so that its successor finds every half-done action and overlaps it; the investigation fails, stalls, is handed back once and resumed |
| `executor_zombie` | `MCRemediation`, `RemediationZombie.cfg` | a violation, see below | one person, one plan of one action, two attempts |
| `ingest` | `MCIngest`, `Ingest.cfg` | one open incident, counts, lock order | two webhooks of up to two alerts (the same one twice, or overlapping), a worker, three incidents: the fingerprint closes and reopens often enough to use up all three rounds of `open_or_merge` |
| `ingest_deadlock` | `MCIngest`, `IngestDeadlock.cfg` | a violation, see below | as above |
| `investigation` | `MCInvestigation`, `Investigation.cfg` | blackboard entries once, no finished agent asked again, overshoot of the budget, a supported diagnosis; `Sources`, `Llm` and `Transcript` of the next table | two investigators, two steps and a rewrite, two attempts that may overlap, a budget that runs out after four answers: some agents finish, some are forced |
| `parts` | `MCParts`, `Parts.cfg` | the components of the next table | each as there |
| `verify_deadline` | `MCVerify`, `VerifyDeadline.cfg` | a violation, see below | as `parts` |
| `second_rollback` | `MCCluster`, `Rollback.cfg` | a violation, see below | two executors |

What `parts` checks, component by component; for `Sources`, `Llm` and `Transcript`, `investigation` does. A conjunction is one property where its parts say one
thing together; each part has a name and a comment of its own in the module.

| Component | Property | Bounds |
|---|---|---|
| `AuditLog` | `ChainIntact`, `NoLateRows`, `TamperingReported` | three transactions, four rows: an append between two of another, and an inner row |
| `Stream` | `AuditDelivered`, `ActivityDelivered`, `PageFollows` | two audit rows, two calls of two incidents, three rows in all, one connection cut anywhere: a late commit, a cut in a frame and a resumption |
| `Verify` | `VerdictEarned`: `ResolvedByAStreak`, `FullTime`, `OneVerdict` | two overlapping runs, streaks of two, four samples, so a streak breaks and starts again before the deadline |
| `Cluster` | `RollbackOfWhatIsThere` | two executors, one release, four revisions |
| `Sources` | `OutageLoad`, `ShownIsStored` | two agents with two calls each, breaker at two failures, one retry, one cooldown |
| `Llm` | `FewAtATime` | two steps, one place, one retry |
| `Transcript` | `RequestAccepted` | seven turns of up to two tool calls |
| `Lab` | `AcceptanceSound`: `AcceptedMeansRestored`, `CauseRecovered`, `AcceptedMeansOnePage`, `OneApproval` | a harmless release before a bad one, a fault left over, an alarm that fires again, two alarms |
| `Evaluate` | `CountedOnce`: `ObservedOnce`, `NothingLost`, `RunAtMostTwice`; `WindowBudget` | three scenarios, two variants, a budget of one and a half scenarios |
| `Scoring` | `PassEarned`: `UnsafeNeverPasses`, `PassMeansMeasured`, `BetterNeverFails`, `NoEmptyRate` | five scenarios of six possible sightings, against four baselines of up to two runs, whose shares are whole halves (`Unit`) |
| `Replay` | `ReplayFaithful`: `ToldTheSame`, `AnsweredTheSame` | three agents of two incidents, two questions each, one of them interrupted |
| `Policy` | `ReviewHolds`: `NeverOnHearsay`, `AddingNeverRelaxes` | twenty root causes, at most two of them in a diagnosis (`MaxCauses`), six actions, four windows; three kinds of evidence and a foreign id; a plan is the set of its actions, since their order decides nothing |
| `Knowledge` | `KnowledgeSound`: `OneVersion`, `IngestConverges`, `SearchOfOneVersion` | three ingests by two processes, a changed document, a removed one, another model |

Deadlock checking is off where the system may stop: all jobs settled, the incident closed, the run
over, or the bound on a clock or counter reached. `Ingest` never stops, and it is on.

### Fairness

`Worker!FairSpec` (`EveryJobSettles`): the claim and reap loops of a process that stays up come round
(both are `while` loops around a sleep), a task that can go on is resumed by the event loop and its
handler ends (`asyncio.timeout` around it), and time passes while a lease or a delay is running.
Nothing is assumed of the other process. `Remediation!FairSpec` (`Closes`): due jobs are claimed, a
lease that nobody renews runs out and is reaped, runs that are not interrupted go on, and the
approval window closes. Nothing is assumed of people: they may never answer. `Closes` is conditional
on no job having been given up, since a dead job is left to an operator.

### Disagreements between code and comments

* `worker_drain`: `run()` says it drains in-flight jobs. `_running` is keyed by job id, so when a
  process reclaims a job it had lost, the end of the old task removes the new task's entry and the
  shutdown neither waits for the new task nor releases its job. The lease still runs out and the job
  is done elsewhere (`EveryJobSettles` holds).
* `executor_zombie`: the runner says a worker that lost its lease cannot change anything. The patch is
  sent outside any fenced transaction, so a stalled executor can still change the cluster. It happens
  at most once and only for an authorised current plan (`AtMostOnce`, `OnlyAuthorisedChanges`), but
  possibly after the incident went to a human.
* `ingest_deadlock`: a comment says the sort rules out deadlocks of overlapping webhooks. It does for
  the incident rows alone (`IncidentsInOrder`), not together with the audit log's advisory lock, which
  each webhook holds from its first new incident to its commit. PostgreSQL rolls one of the two back.
* `verify_deadline`: the docstring says the deadline counts from entering VERIFYING. It counts from
  `updated_at`, which every merged alert moves.
* `second_rollback`: the lab's comment says a second executor would find the rollout already undone.
  An undo goes one revision back from whatever is in service when it reads, and the controller numbers
  the restored one as the newest, so a second undo brings the bad release back. What the
  resourceVersion test does give is `RollbackOfWhatIsThere`. The lab itself approves one incident only
  (`OneApproval`).

Smaller ones, where a property states what the code does instead:

* The audit log's docstring says that deleting any row is reported; the newest rows can be deleted
  unnoticed, as nothing outside the log records its end (`TamperingReported`).
* `ExecError.applied` (`executor/k8s.py:31`) is to say whether the cluster may have taken a change, and
  every answer from 400 up says it did not (`k8s.py:85`), so that the execution is recorded as failed
  (`executor/job.py:129`). A server that answers 5xx may have stored the patch. `HonestRecord` says that a row
  means what it says if nothing was sent or the answer was 4xx, and makes no such claim of a row whose
  error is 5xx (`server_error` in `Incident`).
* `stream.py` says that a client that reconnects "misses nothing" (lines 8-9). Three things are missed. The
  client takes an event's id when its line arrives, before the event is complete, so each connection cut
  inside a frame may lose one audit row (`AuditDelivered`). A call of an agent is announced only if no
  cursor has passed its id when it is committed: ids are drawn before the commit, so a call that commits
  after a later one of its table, which a poll has already taken, is never announced. And the activity
  frames of one poll carry the same cursor, so a cut between two of them, or inside one, loses those that
  are left. `ActivityDelivered` says that every other call is announced.
* The page is to follow the stream. An event that comes while a refetch is under way starts no other one
  (`cancelRefetch: false`, `web/src/lib/queries.ts:66`); its comment says that a burst then costs one
  request, not that the answer may be older than the event. If the API has read the log by then,
  the page lacks the row until another event comes. `PageFollows` says that this is the only way.
* The breaker's docstring says it lets one call through; all callers that come while it is half open
  pass (`OutageLoad` counts them).
* A cancelled model step leaves its process running; `FewAtATime` leaves those out.
* `store.py` says a search never sees half a document; its two queries are two transactions
  (`SearchOfOneVersion` excepts a document replaced in between).
* A replay reopens the incidents it loads (`eval/replay.py`), which `investigations.py` says never
  happens. An investigation is then told of incidents that had been closed before its own was opened, and
  asks for answers that nobody recorded; `ToldTheSame` says that it is told of nothing else that is new.
* `citations.py` says a knowledge base result is never cited alone; an action of a plan may do so.
  `NeverOnHearsay` says the root cause it acts on does not.
* `recover` that raises in the `finally` of a lab run ends the run, with what else is broken left so;
  `CauseRecovered` says what is promised before that.

## Proofs

Every theorem holds for every value of the constants that satisfies the named assumptions of its module:

| Assumption | Says, beside that numbers are numbers |
|---|---|
| `QueueConstants`, `WorkerConstants`, `AuditConstants` | the special value for "nobody" is not one of the workers, tasks or transactions |
| `RemediationConstants` | the planner is not a person; there is at least one attempt, plan and action |
| `IngestConstants` | fingerprints are ordered (they are numbers), no webhook is a worker |
| `InvestigationConstants` | there are finitely many investigators and at least one; coordinator and synthesizer are not among them |
| `VerifyConstants`, `ClusterConstants`, `LlmConstants`, `TranscriptConstants` | nothing more |
| `SourcesConstants` | finitely many callers |
| `PolicyConstants` | a root cause cites something, as `schemas.RootCause` demands |
| `KnowledgeConstants` | documents are numbered in the order of their files, an embedder has a name, the candidates are fewer than the ranks that rank fusion can tell apart |
| `EvalAssumption` | a scenario is listed once in its catalogue, there are finitely many variants |
| `ReplayConstants` | a run is an incident's number and an agent's name; no agent is called `any` |
| `ScoringAssumption` | runs are of scenarios that exist, a scenario has finitely many incidents; a share is counted in so many parts (`Unit`) that the shares of a baseline's runs are whole, which some number gives for any number of runs |
| `LabAssumption` | a scenario has a fault, its faults are of the catalogue and have different targets, as in every file of `eval/scenarios` |

The first of these a reader would question is that clocks, claims and other counters have a bound
(`MaxNow`, `MaxClaims` and so on). The theorems hold for every bound.

Each module proves an inductive invariant and then what follows from it; where a temporal theorem
is about steps, the invariant holds before the step. The arguments are these.

**`QueueProofs`.** For `JobQueue`, `QueueInv` is `TypeOK`, `OpenTxOwnsLease`, `AttemptsBounded`, "no write carries a
fence that was never given out" and "an absent row has given out none". The parts need each other: a
release subtracts one from attempts, which stays a natural number only because a running job has at
least one; an open transaction keeps its lease because its row lock disables everybody else's
statement on the row; a committed write is the current claim's because of that. From it follow
`Typing`, `Fencing`, `BoundedAttempts`, `Settled`, `NoStaleWrites`; `ClaimOrder` adds that `sort_key`
always is what enqueue made it; `Refinement` shows that every step is a step of `FencedJobs` or none.

For `Worker`, `WorkerUsesQueue`: every step of the worker is a step of the queue or leaves it
alone, so the worker inherits all of the above. `WorkerInv` adds what a task knows: it was granted
the fence it carries, and an open transaction belongs to a task that is inside it. A
task ends only from places where it has none, whatever interrupted it: `LocksEnd`. `DeathsAudited`
counts: a job has as many `job.dead` rows as it has died, which a process that dies between the two
statements cannot change, because they are one transaction.

**`RemediationProofs`.** `Typing` needs to know where a run past its checks is (`RunsOK`), that a running
job has used an attempt, and what a request that passed its checks knows (`RequestsOK`).
`ApprovedPlansOnly` rests on the version: a decision names the plan its approver saw and did not
write, and if the row's version has not changed, that plan is still the current one; the update is
conditional on the version. `ActionsRunAtMostOnce` has its own invariant: no change without an
executions row, a run beyond `record` carries the row it inserted, a change that has not been sent is
not counted, and two runs never carry the same row. It never mentions leases or fences: the unique
key is enough, which is why the zombie above is harmless in this respect. `ChangesAreAuthorised`
carries the verdict of the executor's own review from the check to the patch. `NoIncidentForgotten`
uses `DrivenInv`: each state of an open incident has its job, pending, running or given up, and a run
that can still commit is of the state its job belongs to. `TheRecordIsHonest` uses `RecordInv`: a row
says succeeded only after its change was made, and the patch of an interrupted row, or of one answered
with 5xx, is never taken for one that did not happen. `ClosedStaysClosed` reads the guards of all transitions.
`FlowUsesTheQueue` is the bridge to the queue: under the mapping `Queue`, which maps a status to a state
and leaves out when a job is due, each step of the flow submits, grants, finishes, loses or hands back
one job as `FencedJobs` does, or none (`SubmitMoves`, `QueueMoves`). That a job that was never submitted
was never tried (`NeverTried`) is all the invariant it needs beside the types. The mapping's `written` is
constant: what a run writes under its fence is one step with its end here, and `NoStaleWrites` of the
queue is about it. The same is proved for the two jobs that have models of their own, the investigate
job (`InvestigationUsesTheQueue`) and the verify job (`VerifyUsesTheQueue`). There, too, no run checks it:
it is proved only.

**`AuditLogProofs`.** `ChainInv`: whoever is inside `append` or has uncommitted rows holds the lock, its
rows come after the committed ones, what each transaction sees is a chain, and what it read is the
chain's end. `OneChain` and `RowsInOrder` follow. `TamperingShows` adds that rows are in the order of
their numbers: a row that is changed or taken out leaves the next one with another hash than the one
it continues. For `Stream`, `StreamInv` says that every cursor is at a row that can be seen, that what lies
between the client's cursor and the server's is in the frames on their way (`OnItsWay`), and in which
order these come (`FramesLead`). Rows of the log appear behind every cursor, which is `ChainInv`'s
`Later`; a row of the other tables is announced if it appears in front of every cursor (`InFront`), in
whatever order. A row that appears in the log is behind none the page was told of, so what it
has to show stays the same until the next event (`DueStays`). A frame, delivered or
cut, moves the client to its cursor past at most one row it was not told of (`GoesOnFrom`).

**`IngestProofs`.** `RowsInv`: a transaction holds each fingerprint whose open incident it wrote or
inserted, nobody else does, and what it wrote differs from the committed row by what it counted; ids
are fresh. So two transactions never open the same fingerprint (`OneIncident`), and the counts of
committed rows are the alerts recorded (`AlertsCounted`). `OrderInv`: the alerts a webhook has left are
in sort order and not before any fingerprint it holds, so that webhooks wait for each other in one
direction only (`SortedNoCycle`).

**`InvestigationProofs`.** For every attempt: which phase it can be in given its agents (`InPhase`), that
what it believes done is done (`KnowsDone`), that only the attempt that owns the job can commit
(`OwnerKnows`), and what an unfinished synthesis rests on (`Rests`). An overlapping attempt fails at
its next commit, so entries are there once and finished agents stay finished. `BudgetKept` counts the
answers under way: each attempt looks at the sum before each step, so what the sum may exceed the
budget by is one answer for each agent that is waiting for one.
*Transcript*: `RequestsAccepted` is about a pure function, `render_messages`, as a state machine adds turns
to its input. `Rendered` is a recursive function of the number of turns; that it exists and what it makes
of one more turn (`RenderedNext`) is proved from the least number of turns at which it would not. Of the
messages after each turn the proof keeps that they alternate and answer every tool call, and that nothing
is left unanswered unless the turn was a final answer, after which the loop ends or adds its refusal.

**`RepairProofs`.** `Verify`: the samples a run has counted as a streak were all good and all its own,
in order, spread over the whole interval; a verdict is written under the incident's version, hence
once. `Cluster`: `UpToDate` says that if the Deployment's resourceVersion is the one an executor read,
everything it read is still there; a rollback is conditional on it.

**`AgentProofs`** has what an agent waits for and what is done with its answers, one section each.
*Sources*: each call that can still go out has room for it, taken from the failures the breaker still
has to count, the probes since it opened, and the retries of the call; a step moves room
or uses it (`LoadInv`). An evidence row exists before its id is shown. *Llm*: a running process
belongs to the step that holds a permit for it, or to a cancelled step. *Policy*: the ids of an
accepted diagnosis were shown, its root cause rests on more than the knowledge base, and the verdict is
that of the plan; `Blocked` grows with the plan. *Knowledge*: while all runs have the same target, a document
is as it was found or as it is wanted, and its chunks with it; what a run found is stored.
*Evaluate*: a scenario is waiting, run or given up, once, because the shard lists it once; it is run
again only if it is in `retried`; spending is the sum over what was observed in the window.
*Replay*: the view of an uninterrupted run can be read off the rows at any later time
(`LiveView`), its entries in the cassette are the answers it was given, in order
(`Own`), each of its requests was recorded in one step (`StepsKept`); hence a replay that has
followed the live run so far finds the next answer at the head of its queue (`Follows`, `QueueOf`).
`ShardsCutAnything` states `ShardsPartition` for every list and every number of shards: a place is in the
shard of its remainder, and a division has one.
*Chunking*: `NoLineLost`, `CodeNeverCut` and `ChunksFitAnything` say of every document and all sizes that
`ChunkParams` allows what `WholeText`, `FencesWhole` and `ChunksFit` say of the documents of the run. The first two
assume that the lines which are not blank are numbered, so that no two are equal. Each loop is followed
element by element (`Upwards`): at every step of `_blocks`, `_split` and `chunk` the lines written out and the
lines held back are the lines read so far, in order. The flag of `_blocks` is the parity of the fences read
(`FenceParity`), so an open code block is in the buffer until it closes (`CodeInBlock`), and a block stays
whole in the pieces and the chunks (`SplitHolds`, `AddSectionHolds`). As a line is in one section and one chunk
only (`PartsMeet`), the chunk with the opening fence has the closing one, and the headings are right. The sizes follow
from the two comparisons with the maximum and from the target and the overlap being within it.

**`LabProofs`.** *Scoring*: the report's exit status is a function of its input, so the invariant
(`CardInv`) only says what that is. The argument is about the functions: a correction of one scenario's
incidents leaves what was measured and what was unsafe alone and can only raise a share (`AsGood`), which
the gate keeps for this run (`GateKept`) and which can only add to what stops the canary (`CanaryStopped`).
*Lab*: for each fault of the scenario `LabInv` says that it is clean or broken, and clean unless it is on
the list of what to recover, which is a beginning of the scenario's faults (`Place`, `LabState`). This is
known only while the run may still be accepted (`Doomed`): after an error a write may land late,
and after an approved repair that did not close the loop a rollback may still come. The two exceptions
are what `CauseRecovered` is about: a cause that is no flag, and that nobody else repairs, is known also
after an error. A rollback that is approved finds the release still there (`Repairable`), because the
lab recovers only after the decision and one repair is approved; a repair under way is not what closed the loop
(`Approval`). `Pages` says that rows are only appended, and that what was seen resolved when it was
waited for and had not fired again when it was looked at.
`NearestRankOfAnything` states `NearestRank` for every list of values and every percentage.

Proved only, not in a run: the type invariants; `NoStaleWrite` and `SettledForGood`, which the refinement
implies; `RunsInOrder` of `Verify`; the three theorems that the jobs are the queue's. The five theorems
about pure functions state for all inputs what TLC evaluates as assumptions over bounded ones.

Model-checked only:

* `EveryJobSettles` and `Closes`: liveness under fairness is out of the prover's reach, and so is
  `ENABLED`, hence the absence of deadlock in `Ingest`.
* `AgreementFirst`, which sorts what two queries found, over small results. The other assumptions without a
  theorem leave nothing to prove: `WindowLength` is evaluated for every window there is, and `ProvidersAgree`
  and `MarkedApart` compare constants of the code.

## Not modelled

* Rendering: the web pages, the browser's player of an exported incident, reports, the dashboard
  definition; prompts and their variants, which are text.
* Reads: the HTTP API's listings, `recent()` and the database queries behind them. Tool clients send
  queries to other systems and format the answers; their errors are in `Sources`.
* Token checks at the start of a request, configuration, migrations and deployment files: no state of
  their own. Unique indexes and constraints appear in the modules that use them.
* Metrics and traces: nothing reads them back.
* Of modelled components: the single-agent variant and the in-memory store of `app/agents`; the
  optimistic update and token store of the console; the reranker, the lazy knowledge base and the
  retrieval evaluation; the lab's commands that prepare files. A `## ` line inside a code block is taken
  for a heading by `_sections`; `Chunking` starts from the sections. `Replay` lets a row be seen as soon
  as it has its time stamp: an incident that commits late is not modelled. A retried model step is
  charged the tokens of its last attempt only, and an undo that finds nothing to undo after a restart
  is reported as succeeded; neither has a property.

## Plan

Done, in this order: the queue with its abstract specification and proofs; the worker; the incident's
life with the executor and the API, and its proofs; the audit log and its proofs; ingest; verification;
then the stream and its page, the investigation, the cluster, sources and providers, the lab, evaluation
and replay, the policy, the knowledge base.

Then the proofs: `Worker`, the rest of `Remediation`, `Ingest`, `Investigation`, `Verify`, `Cluster`, the
stream, the agents' tools, policy, knowledge base, evaluation and replay, the report and the acceptance run.
With these every invariant of a passing run is a theorem, and every action property; the models of jobs
are proved to use the queue as it is proved to be.

Left: the listed reads, pages and commands, should they come to decide something.
