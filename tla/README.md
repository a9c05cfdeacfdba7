# CronControl: a TLA+ development

CronControl is a scheduler: it plans runs of *processes* (cron, fixed delay, on
demand) and jobs of *queues*, executes them on remote systems or through worker
agents, watches them, retries them, and recovers them after a restart. Almost
everything that can go wrong in it goes wrong between two statements: most writes
of a state column are an `UPDATE` that tests only the id, several goroutines write
the same row, and the executions go on elsewhere whatever the server does. This
directory models that part of the program, checks it with TLC and proves its
central invariants with TLAPS.

    RunState               states, declared transitions, predicates (package runstate)
    RunLifecycle           the runs of one process and everybody who touches them
    DetachedRemote         the ssh/ssm scripts on the remote host, over the attempts of a run
    RemoteJobs             http, k8s and the foreground methods: jobs elsewhere and lost answers
    QueueJobs              the jobs of one queue, statement by statement
    Workers                dispatcher, channels, worker agents and their messages
    Schedule               planner, recovery, resolver, process and orchestra requests over time
    SlotLedger             what planner and recovery promise; Schedule implements it
    MC_*.tla, MC_*.cfg     instances for TLC
    RunLifecycle_proofs    theorems about RunLifecycle: types, owners of running rows, attempts
    RunExecutions_proofs   theorems about RunLifecycle: outcomes, one execution per run
    DetachedRemote_proofs, RemoteJobs_proofs, QueueJobs_proofs, Workers_proofs, Schedule_proofs
                           theorems about the other modules

`PROJECT.json` maps every definition to source lines, and lists runs, mutants,
findings, hazards and theorems.

    tlc -workers 2 -config MC_RunLifecycle_races.cfg MC_RunLifecycle
    tlapm RunLifecycle_proofs.tla

## 1. Inventory

### Components, their state and their operations

| Component | State | Operations | Module |
|---|---|---|---|
| run state machine, `internal/runstate` | none | 14 states, transition table, `IsTerminal`, `ContinuesFixedDelayChain`. `ValidateTransition` has no caller outside its tests | RunState |
| orchestrator, `executor/orchestrator.go` | `runs`, in-memory map of handles | 1 s loop: claim due rows (one goroutine each), `processKillRequests`, `processAsyncRuns`; `dispatch`, `handleTerminal`, `Kill` | RunLifecycle, Workers |
| async runs, `executor/async_runs.go` | `runs.execution_handle`, offsets, `run_output`, `run_attempts` | list and poll handles, store output, finalize killed / result | RunLifecycle, DetachedRemote |
| ssh, ssm | files of a remote directory; sessions | `Start`, `Poll`, `Kill`, `Execute` | DetachedRemote, RemoteJobs |
| http, k8s | jobs of a service, objects of a cluster | `Start` (sync, async_blind, async_tracked; detached, wait), `Poll`, `Kill` | RemoteJobs |
| monitor, `internal/monitor` | none | list running rows, mark late ones hung, kill them | RunLifecycle, Workers |
| recovery, `internal/recovery` | none | at start-up: running rows become hung, missed cron slots and stopped fixed-delay chains get rows | RunLifecycle, Schedule |
| planner, `internal/planner` | none | inserts the slots of cron processes up to a horizon | Schedule |
| dependency resolver, `internal/dependency` | none | triggers downstream processes after terminal runs | Schedule |
| queue processor, `internal/queue` | `jobs`, `job_attempts` | 5 s loop: claim, dispatch under a concurrency limit, kill, poll; expiry | QueueJobs |
| workers, `internal/worker`, `cmd/croncontrol-worker` | a channel of tasks per worker; the agent's active tasks | select, enqueue, long poll, control poll, result, heartbeat, stale workers | Workers |
| API handlers, `internal/handler/service.go` | none | processes, runs, queues, jobs, workers, orchestras; accounts and settings | all of them |
| orchestras | `orchestras`, `runs.choice_config` | create, next movement, choices, pause, resume, cancel, finish | Schedule |
| webhook notifier, provisioner, container method, cleanup, auth, ssrf, storage, crypto, logging, CLI, MCP, SDKs, frontend | - | see section 6 | - |

### How they interact

Through the database. The planner, the handlers, recovery, the resolver and
`handleTerminal` insert pending rows. A tick of the orchestrator selects due rows
`FOR UPDATE SKIP LOCKED` in a transaction that changes nothing and starts a
goroutine per row; that goroutine writes `running`, calls `Start` and either stores
the handle or finalizes a synchronous result. The same loop asks methods to kill
rows in `kill_requested`, then polls every running or kill_requested row that has a
handle. The queue processor does the same for jobs, but polls one handle after the
other and keeps one row per attempt. With `runtime = worker` dispatch puts the task
into an in-memory channel instead; the agent takes it by a long poll, hears of kills
by a control poll and reports the result once. The monitor lists running rows on its
own clock. The recovery pass runs alone, before the others start; there is none for
jobs.

### What is hard

- **Stale snapshots.** Dispatches, polls, the monitor, `CancelRun`, `CancelJob`,
  `UpdateProcess`, `ProcessResult` and `checkStaleWorkers` all act on a row they read
  earlier, and write without testing what it has become.
- **Double claims.** Between the commit of the claim and the write of `running`
  the row can be claimed again, in the orchestrator and in the queue processor.
- **False reports.** A poll without an answer, a job object that has expired or an exit
  code of another attempt ends an attempt whose execution goes on.
- **Crashes** between `Start` and the stored handle, between the cleared handle
  and the outcome, between the outcome and the next run of a chain, between two
  inserts of a planning or recovery pass; channels are lost.
- **Remote reality.** A start whose answer is lost; a kill that meets a finished
  execution; a script that reads four files one after the other while they
  change; attempts that share a directory or a job name; reports sent once.
- **Boundaries**: `attempt < max_attempts`, `activeCount > 1`, the limit of a queue,
  the ends of the recovery and planning windows, byte cursors.

`PROJECT.json` lists the hazards by line, with the properties that watch them.

### What makes the parts correct

- lifecycle: no running row is forgotten; no outcome is invented or belongs to
  another row; a retry runs beside the attempt it retries only if that was reported over
  when it was not; attempts stay within the maximum; ended executions are noticed; chains
  go on;
- remote methods: no output before the cursor is lost; completion is true; ended
  commands are reported; what was reported killed is gone;
- queue: one execution per job unless it is claimed twice or reported over; attempts within
  the largest maximum the queue has had; outcomes are those of its own executions; running
  jobs are followed and ended executions noticed;
- workers: an assigned task is in the channel or was delivered; a running row has
  somebody who will report; outcomes are backed;
- scheduling: each slot once, none missed, recovery capped, dependents only after
  the parent they wait for.

## 2. Plan

Done: every module above, its runs, and a proof of every invariant that a run checks and
of the refinement of SlotLedger. Left, in this order:

1. Failing SQL statements in `RunLifecycle`, and a recovery pass that fails there, with the
   proofs carried over.
2. The webhook notifier.

## 3. The models

### RunLifecycle

One direct-runtime process, its rows `Runs`, and dispatch calls `Dispatches`,
each used once; the execution a dispatch starts carries the identifier of the
dispatch. Rows are columns as functions (`state`, `attempt`, `handle`,
`killedBy`); `newest` is the row `GetLastRunByProcess` finds for a fixed-delay
process. A goroutine is a dispatch or the poll of a row (`Tasks`); `pc` says
where it is, `local` what it has read. Every SQL statement, call of a method and
access to the map of handles is one step.

| Code | Actions |
|---|---|
| `Planner.plan`, `TriggerProcess`, `ReplayRun` | `PlanRun`, `TriggerProcess`, `ReplayRun` |
| `CancelRun` (read, then write) | `CancelRead`, `CancelWrite` |
| `KillRun` | `KillRun` |
| `PauseProcess`, `ResumeProcess` (process, then rows) | `SetProcessEnabled`, `BulkWrite` |
| `tick` | `TickClaims` |
| `processKillRequests`, `Kill` | `ListKillRequested`, `KillOne`, `Kill` |
| `processAsyncRuns`, `pollAsyncRun` | `ListActiveAsync`, `PollNothing`, `PollTerminal`, `PollMistaken` |
| `dispatch` | `DispatchAbort`, `CheckOverlap`, `WriteSkipped`, `WriteQueued`, `WriteRunning`, `FailStart`, `StartAccepted`, `StartRejected`, `StartBlocking`, `StartReturned`, `GiveUp`, `SaveHandle`, `SaveHandleFails`, `ReadCurrent` |
| `finalizeRunResult`, `finalizeRunKilled` | `ClearHandle`, `WriteOutcome` |
| `handleTerminal` | `ContinueChain`, `EndTerminal` |
| `Monitor.check`, `doKill` | `MonitorList`, `MonitorMark`, `MonitorKill` |
| `recovery.Run` | `Restart` |
| the execution, a crash (external) | `ExecEnds`, `Crash` |

What is abstracted:

- Time. Which claimable rows are due, and which running rows are late, is any
  subset; the claims' order and LIMIT are left open with it. `PromptDispatch`
  states one timing fact separately: a claimed row is written before the next
  tick. Runs that need it set it; the others do not.
- The execution, to `running`, `stopping`, an end, `lost` (it goes on although its start or a
  poll was reported failed or killed, or a blocking method gave up on it) or `missed` (it
  succeeded and was reported failed or killed). `Belied` takes an execution there.
- What a poll is told. `PollTerminal` reports the true end. `PollMistaken` reports what the
  code may make of anything else, whatever the execution does: a lost or unexpected answer is a
  failure (http.go:140-189), an object that is gone is a kill (k8s.go:119), and the exit code
  and the kill mark may be another attempt's of the row (ssh.go:614, 670). A false success
  is possible only where some attempt of the row left an exit code of zero.
- The planner's reads. Its listing may be stale when it inserts, but the row it
  inserts is one `TriggerProcess` could insert at that moment too.
- A method that does not support kills is a choice of `ReadCurrent`, which then
  keeps the failure.
- Statements do not fail except where the program branches on the error
  (`DispatchAbort`, `SaveHandleFails`, `PollNothing`), and the recovery pass
  succeeds.
- The worker runtime is `Workers`; times of slots and dependents are `Schedule`;
  output is `DetachedRemote`. Alerts and webhooks are left out.

### DetachedRemote

Where the false reports of `RunLifecycle` come from: this module is what the ssh and ssm
scripts do when a poll asks them: the directory of one run on the
remote host (`log`, `exit_code`, `kill_requested`, the pid of the current shell)
over all its attempts, with each test or read of a file a step of its own and
the commands writing meanwhile. The start script empties the logs and leaves the
rest; the poll takes sizes, reads the new bytes, then looks for the exit code,
then for the process; the kill leaves its mark and signals the shell only. The
orchestrator's side is the output cursor, the two appends of the last chunk and
the verdict. stdout and stderr are handled alike, so one log is modelled; bytes
are lines.

### RemoteJobs

The same question for the methods whose work is a *job* of somebody else: http in
its three modes, k8s detached and waiting, ssh and ssm in the foreground. The state
is what each attempt has started (`job`), the objects in the cluster (`exists`,
`deleting`) and the row. A start, a poll and a kill are one request each, and each
may be lost before or after it took effect. `DispatchResult`, `HttpVerdicts` and
`K8sPoll` are what the code makes of the answers: `Result.IsSuccess` looks at the
response code before the error, so a 2xx answer without a status URL completes the
run; a poll that gets no answer counts as a failed job; a missing k8s object counts as
killed. `JobName` is the name all attempts share.

### QueueJobs

One direct-runtime queue. Rows are columns as functions, `attemptRow` is the table
`job_attempts`; an identifier of `Dispatches` names a call of `dispatch`, the attempt
row it inserts and the execution it starts. The loop is sequential (`phase`,
`killList`, `pollList`): it polls the rows it listed one after the other, with what it
read of them. `UpdateJobState` is modelled with what it overwrites by NULL.

The claim changes nothing, so the next tick may claim a row again that a dispatch has not
written yet; `reclaims` counts such ticks (`MaxReclaims` bounds them). `UpdateQueue` changes
`enabled`, `concurrency` and `max_attempts` at any time, and a goroutine keeps the limit and
the maximum it claimed or listed. Polls may be told what is not true (`PollMistaken`), a `Start`
whose answer is lost leaves its execution running, and a blocking one may give up (`GiveUp`).

| Code | Actions |
|---|---|
| `EnqueueJob`, `BatchEnqueueJobs`, `ReplayJob` | same names |
| `CancelJob` (read, then write) | `CancelRead`, `CancelWrite` |
| `UpdateQueue` | `UpdateQueue` |
| `tick` | `TickClaims` |
| `processKillRequests` | `ListKills`, `KillOne` |
| `processAsyncJobs`, `pollAsyncJob` | `ListPolls`, `PollNothing`, `PollTerminal`, `PollMistaken`, `EndRound` |
| `dispatch` | `CheckConcurrency`, `FailUnknown`, `WriteRunning`, `WriteAttempt`, `Start`, `StartReturned`, `GiveUp`, `SaveHandle`, `SaveHandleFails` |
| `finalizeJobResult` | `CloseAttempt`, `ClearHandle`, `WriteOutcome` |
| `expirationLoop` | `ListExpired`, `Expire` |

`EnqueueJob` and the batch never set `scheduled_at`, which the table declares NOT
NULL: their inserts are refused, and only a replay adds rows. The instances start
with jobs that are already stored.

### Workers

Runs and jobs with `runtime = worker`. The dispatcher's channels are bounded
sequences in memory; a goroutine of `dispatch` selects a worker, enqueues, and writes
the row in that order. A `delivery` is one task given to an agent, until its report has
been processed or is gone; `registered` are the entries of the agent's task table,
which has one per task. `ProcessResult` reads and writes in two steps, and so do
`CancelRun`/`CancelJob` (`todo`). `checkStaleWorkers` lists (`stale`), and then marks each
worker and reassigns its runs in two statements (`MarkStale`, `Reassign`) whose errors it
ignores, so either may be missing. The counter of failures decides only between offline and
unhealthy, which no statement tells apart, so both are one status. Faults (a lost
answer, an abandoned poll, a lost report, an agent that stops, a crash of the server)
are counted by `faults`, requests by `requests`; `MaxEvents` bounds both together.
A report that is refused because its worker was disabled or deleted is no fault: it is
the phase `refused`. A worker that is deleted during its long poll may still be given a
task; the statements that name it fail by their foreign key, after which a run is
answered all the same and a job is not (`PollRefused`), and a dispatch falls back to
waiting without a worker (`AssignFails`). Labels, limits and the maximum of a queue may change at
any time.

The two `UPDATE` statements differ, and the model keeps the difference:
`UpdateRunState` keeps `worker_id` when none is given, `UpdateJobState` writes NULL.

### Schedule and SlotLedger

Discrete time, in ticks of any fraction of a minute; a schedule is the set of times at which
it fires. The planner begins a pass `Interval` after the last one, or up to `Lag` later. The recovery pass and
the planner are *passes* over the processes they listed, with one insert per step and a
clock reading taken at the beginning; a crash may come between any two. Process
requests (create, trigger, pause, resume, update in two steps, delete) come in between, and
the workspace may be suspended and activated again (`active`), which planner and recovery
look at when they list processes.
`RunEnds` writes an outcome (completed, failed, killed or skipped) and leaves a hook for `handleTerminal`; `Evaluate` is the
resolver's callback with the row as the caller has it, so the stale row of a skipped run
triggers nothing.
`hooks` are lost in a crash. `Insertable` is the table: the CHECK on `origin` and the
unique key (process, time, origin). The orchestra handlers insert rows of origin
`orchestra`, which that CHECK refuses.

`SlotLedger` is the abstract promise: time passes, a free slot within the horizon is
served by one giver, a deleted process is forgotten. Schedule implements it with
`clock <- now` and `served <-` the rows of origin cron or recovery. The ledger has one
key per slot, the table one per slot *and origin*: that no slot gets both is due to
where the recovery window begins and ends.

## 4. What TLC checks

| Run | Instance | Checks | Result |
|---|---|---|---|
| `lifecycle_races` | 1 row, 2 dispatches that may claim it twice, 2 requests, 1 crash, both modes | `TypeOK`, `RunningHasOwner`, `AttemptsBounded`, `OutcomeIsBacked` | holds, 4.2 M states |
| `lifecycle_cron` | 2 rows, 3 dispatches, 2 attempts, skip and queue, a kill | `RunningHasOwner`, `AttemptsBounded`, `OneExecutionPerRun`, `OutcomeIsBacked` | holds, 3.0 M states |
| `lifecycle_chain` | fixed delay, 2 rows, a crash, a request, fairness | `OutcomeIsBacked`, `EndedIsReconciled`, `ChainContinues` | holds, 106 k states |
| `remote_polls` | 2 attempts, 1 line each, lost answers, fairness | `TypeOK`, `CursorCovered`, `CompletedIsTrue`, `EndedIsReported` | holds, 78 k states |
| `remote_jobs` | 3 attempts, all 7 modes | `TypeOK`, `SuccessIsReal`, `KilledIsGone` | holds, 26 k states |
| `queue_jobs` | 1 job, 3 dispatches, a double claim, limit 1, up to 2 attempts, a request | `TypeOK`, `JobAttemptsBounded`, `RunningIsFollowed`, `OneExecutionPerJob`, `JobOutcomeIsBacked` | holds, 2.1 M states |
| `queue_live` | 2 jobs (1 stored and expiring, 1 replayed), 2 dispatches, a request, a crash, fairness | `JobReconciled`, `OneExecutionPerJob`, `JobOutcomeIsBacked` | holds, 0.3 M states |
| `workers` | a run, a job, 2 workers (1 enrolled), 2 deliveries, a request, a failed statement or a fault | `TypeOK`, `WorkerOutcomeIsBacked`, `AssignedIsHandled`, `RunningIsDelivered` | holds, 2.7 M states |
| `schedule` | a cron process, one that depends on its success, one that depends on its end, one to be created; 5 moments, horizon 2, interval 1, lag 1, 2 requests or crashes | `TypeOK`, `NoMissedSlot`, `RecoveryCapped`, `DependentsBacked`, refinement `SlotsServedOnce` | holds, 3.4 M states |
| `closed_rows` | 1 row, 1 request | `ClosedStaysClosed` | violated |
| `overlap` | 2 rows, `allow_parallel = false` | `NoOverlap` | violated |
| `remote_stale` | 2 attempts | `TerminalWhenFinished` | violated |

What the properties of the newer modules say, with the exceptions the code makes
necessary:

- `OutcomeIsBacked` and `JobOutcomeIsBacked` do not say that a retried execution has
  failed: it failed, was killed, or was reported to have when it had not (`lost`, `missed`).
  They say that a completion, a kill and a retry come from an execution of that very row, and
  that a completed one has an execution that ended well.
- `OneExecutionPerRun` and `OneExecutionPerJob` count the executions that go on and have not
  been reported over. Those that were reported over and go on (`lost`) are not bounded by
  anything: a retry does run beside them. For runs the property is about prompt dispatches,
  for jobs about executions in which no row was claimed twice.
- `JobAttemptsBounded` is about the largest maximum the queue has had: a job may be ahead of
  a maximum that was lowered.
- `RunningIsFollowed` and `JobReconciled` hold as long as the server has not crashed.
  A crash between finishing the attempt and clearing the handle leaves a row that
  `listAsyncJobs` passes over for ever, and no recovery pass is about jobs.
- `JobOutcomeIsBacked` lets a job be completed by an execution that has vanished: a
  poll that says killed, without exit code or error, of a row that was running when it
  was listed, completes the job (async_jobs.go:281-295).
- `AssignedIsHandled` and `RunningIsDelivered` hold without faults: channels are lost
  in a crash, and reports are sent once. The report of a worker that is disabled or
  deleted is refused and the row stays running. A run that waits without a worker is not
  claimed again; nothing is said of it.
- `NoMissedSlot` is about processes that execute missed slots and have been planned before,
  while recovery stays below its cap, and not about slots between the clock readings of
  recovery and of the planner's first pass. Exempt are processes that a request was about or
  whose workspace was suspended, and every process once a recovery pass has failed. It needs
  `Interval + Lag <= Horizon`: the clock has fractions of a minute, so a window of that length
  holds `Horizon` minutes and not one more. (The defaults of `main.go:201-202` are an hour and a day.)
- `DependentsBacked`: the resolver is called for killed runs too, and creates their `after`
  dependents.
- `SuccessIsReal` excepts `async_blind`, which asks for acceptance only, and the 2xx
  answers described above. `KilledIsGone` is about kills that a poll confirms.

**Bounds.** The hazards are pairs: two goroutines at one row, a write between a
read and a write, a crash between two steps, a second attempt after a first.
One row with two dispatches has every pair of goroutine kinds (a second dispatch,
a poll, the monitor, a request); two rows are needed only where rows interact,
which is the overlap count and the chain. A third dispatch lets a retry coexist
with another row's execution. `MaxCrashes = 1` reaches a crash at any point and
the goroutines of the restarted server against what was left. `lifecycle_races`
has `MaxAttempts = 1`, so that the boundary is met at the first failure;
`lifecycle_cron` has 2, so that a retry happens. One line of output per attempt
suffices for a cursor that may be before, at, or (after a truncation) beyond it.
The numbers of requests and crashes are named constants; the invariants are
proved for all of them.

`queue_jobs` gives one job three dispatches: two that claim it at once and the retry of either;
a second job would interact with it through the count of running jobs only, which no property
is about. `queue_live` has the second job, which a replay inserts, the expiry, and the crash,
after which its liveness property claims nothing but its invariants do. `workers` needs a
second worker for the reassignment of a task that stays in the first one's channel, and
two deliveries for a task that is given out twice; a channel of one task fills up. In
`schedule` the horizon is shorter than the schedule, so that the planner needs several
passes, each of which may be as late as the assumption allows, the two schedules overlap, and two
events give a crash during the recovery from a crash. `Requested` leaves requests about the two
dependents out: they are created, paused and deleted like any other process. Three attempts in
`remote_jobs` let a retry meet an object that is being deleted and one that has expired.

**Symmetry** (rows, dispatches, requests; the identifiers of deliveries) is used in the
two large safety runs of RunLifecycle and in Workers, and in no run with liveness.
Deadlock is checked in RunLifecycle, where a trigger or the loop is always possible, and
in DetachedRemote, where a run that is over says so (`Over`). The other modules may stop: their identifiers, their clock or their
run come to an end.

**Fairness.** RunLifecycle: a goroutine that can step does (the Go scheduler),
the loop goes round (a ticker), a crashed server is started again, and a handle
that is polled again and again is not always polled in vain (strong fairness of
`PollTerminal`; without it a host that is never reachable refutes everything).
Nothing is assumed of the executions, the monitor, the clients, nor that a
blocking method gives up. DetachedRemote: the loop and the finishing of a shell
whose command has ended; repeated polls and appends do not fail for ever;
commands need not end. QueueJobs: the dispatches and the loop go on, and the handle of
an ended execution is not polled in vain for ever; nothing is assumed of executions,
requests or expiry.

**Mutants.** Each property of a passing run is broken by a plausible bug in one
mapped definition: an inclusive comparison of attempts, a monitor that retries
instead of marking, a recovery that leaves orphans, polls of running rows only, a
kill that beats a success, a cursor that advances past a failed append.

### What the violated runs show

1. `closed_rows`: a row cancelled after its claim committed is written `running` and
   executed ("`cancelled` means execution never started",
   docs/product-specification.md:239). A poll in flight when the monitor marks its row
   hung breaks the same property by writing its outcome over `hung` ("No late
   reconciliation reopens a hung run", docs/product-specification.md:351).
2. `overlap`: `activeCount > 1` presumes that the claimed row is counted, which
   a pending or queued row is not: a second run starts beside the first.
3. `remote_stale`: the first poll of a second attempt reads the exit code the
   first one left and reports the running attempt failed.

### Disagreements met by reading

Five more disagreements between documents and code are plain from the statements, and the
models contain them as behaviour. No property is stated for them: one that passes would only
repeat what the code does.

- The limit of a queue. docs/epics/epic-04-tasks.md:105 says "Queue processing respects
  concurrency and plan constraints." The count and the write of `running` are two
  statements (processor.go:141, 161), so all jobs of one claim, and those of a second tick
  that comes early, may pass the check together.
- Attempts on workers. docs/product-specification.md:201 and docs/epics/epic-04-tasks.md:48 say
  "`max_attempts` includes the first attempt" ("includes first attempt"). `ProcessResult` adds
  one to the attempt of a job that it retries (dispatcher.go:299) and the next dispatch adds
  another, so the number passes the maximum, and a job gets fewer attempts than it may have.
- Unhealthy workers. docs/product-specification.md:335 ("unhealthy after 5 consecutive
  failures"), docs/epics/epic-03-tasks.md:89, docs/worker-guide.md:105 and dispatcher.go:11. Only
  online workers are listed as stale (workers.sql), and the heartbeat that makes a worker
  online again clears its count: unless `SetWorkerStatus` fails four times, five failures in a
  row are never counted.
- Kills of jobs on workers. docs/epics/epic-11-tasks.md:55 says "Server returns per-task commands
  such as `kill`", and service.go:1758 selects the jobs of a worker in `kill_requested`. But the
  statement that writes this state writes NULL to `worker_id` (jobs.sql:53), so none is
  ever found.
- Movements of orchestras. docs/epics/epic-09-tasks.md:48-49 say that `POST /runs/{id}/next`
  "Creates new run". The row has the origin `orchestra`, which the CHECK of schema.sql:234-235
  refuses.

## 5. What is proved

Every invariant of section 4, and the refinement, for all values of the constants. The
assumptions are the named ASSUMEs of the models, which TLC evaluates on every instance:
identifiers of different kinds differ, `max_attempts` and the LIMIT of a claim are positive,
tables are finite (`FiniteAssumption`, used for the counts of QueueJobs), and the planner
looks again before its horizon is used up (`Interval + Lag <= Horizon` in `ScheduleAssumption`,
which `NoSlotIsMissed` needs). The bounds on requests, crashes and faults are constants like any other:
the theorems hold for all of them. Hardly any of the invariants is inductive; what is added to
them says where the information is between two statements.

**RunLifecycle** (`RunLifecycle_proofs`, `RunExecutions_proofs`)

- `TypeCorrect`: `Spec => []TypeOK`. One lemma per group of actions.
- `NoRunForgotten`: `Spec => []RunningHasOwner`. While the server is up, a
  running row has a stored handle or a goroutine that will write its outcome or
  store a handle. The invariant used is `TypeOK /\ PollsQuiet /\ RunningHasOwner`
  with `PollsQuiet`: polls exist only in the polling phase of the loop. It is
  needed because listing the active handles overwrites the local state of every
  poll, which would take a row away from a poll that is finishing it. The core
  is `OwnerKept`: a step that leaves a row and its owners alone keeps it owned;
  each action is then about the one row it writes. The step that clears the
  handle is safe because its goroutine is still going to write the outcome, a
  crash because of `up`, and the restart because recovery leaves no row running.
- `OutcomesAreBacked`: `Spec => []OutcomeIsBacked`, with polls that may be mistaken. `BackingInv` follows the evidence on
  its way to the row: a dispatch has an execution only after it has called its method
  (`Started`), a stored handle and a listed poll name an execution of their own row
  (`HandlesOwn`, `PollsOwn`), `kill_requested` is always signed (`KillsAsked`), and a goroutine
  that holds a result has an execution for it (`ResultsBacked`). Evidence is never lost: each
  step satisfies `Advances`, also the kill that turns an ended execution into a killed one and
  the false report that makes one lost or missed.
- `OneExecution`: `PromptDispatch => (Spec => []OneExecutionPerRun)`. No column protects a row;
  the order of the writes does. `ExclusionInv` says of each row: while it may be claimed, or may
  become so, nothing runs for it, nobody works on it and it has no handle (`OpenIsQuiet`); a
  dispatch is alone with its row (`DispatchIsAlone`); the handle, and the poll that read it, is
  about the execution that goes on (`LiveIsFollowed`); a poll has cleared the handle before it
  writes the outcome (`HandleIsCleared`). `PromptDispatch` is used in the claim only, and cannot
  be dropped there: without it two dispatches of one row start two executions. A false report
  keeps the invariant because the execution it ends is no longer counted: it is lost.
- `AttemptsStayBounded`: `NeverQueues => (Spec => []AttemptsBounded)`, where
  `NeverQueues` says that a cron process does not use `on_overlap = 'queue'`
  (the other schedule types do not check for overlaps). The invariant relates rows
  (`RowAttempts`: a row that can be claimed is below the maximum) and goroutines
  (`TaskAttempts`: a claim is below it, a working dispatch at most at it). Double
  claims are allowed: both write the same number. With `on_overlap = 'queue'` the
  argument fails, as a stale dispatch may write `queued` over a row whose last
  attempt is running, which makes it claimable again.
- `PromptAttemptsBounded`: `PromptDispatch => (Spec => []AttemptsBounded)`, with queueing. A
  dispatch that is alone with its row still holds the attempt the row has (`CountInv`), so
  queueing it gives no attempt away.

**DetachedRemote**: `TypeCorrect`, `CursorNeverSkips` (`CursorCovered`), `CompletedHasExited`
(`CompletedIsTrue`). The invariant adds what a poll has read so far (`Progress`: the log is at
least as long as the size taken, and what lies between the cursor and that size is in the chunk), that an
exit code of zero was written by a command that ended with it (`Ends`), and where the loop may
be (`Control`).

**RemoteJobs**: `TypeCorrect`, `SuccessOnlyWhenReal` (`SuccessIsReal`), `KilledLeavesNothing`
(`KilledIsGone`). A verdict on its way to the row is backed (`VerdictBacked`), a k8s job that runs
has an object (`RunningHasObject`), and a poll that says killed has found none, whichever attempt
created it (`VerdictGone`).

**QueueJobs**: `TypeCorrect`, `OneExecution`, `AttemptsStayBounded`, `OutcomesAreBacked`,
`RunningHasFollower`. `Core` says what goroutines, finalizers, polls and handles are about in
every state, double claims included (`Goroutines`, `Finals`, `Polls`, `Handles`). `Alone` is
what holds until a row is claimed twice: at most one dispatch can still be brought to bear on a
job, be it through its goroutine, its execution, its unfinished attempt, its handle, or a listed
poll (`Unique`), and none on a job that is, or can be, claimed (`Claims`, `Idle`). `Numbers` is added
for the attempts (a claim is below the largest maximum), `Evidence` and `Backed` for the outcomes
(an execution that backs a result keeps doing so), and `WellFollowed` for the followers.

**Workers**: `TypeCorrect`, `OutcomesAreBacked`, `RunningHasDelivery`, `AssignedHasHandler`. One
lemma describes what a step may do to a delivery (`DeliveryStep`) and one what it may do to a
state (`StateStep`); each theorem adds a small invariant about the columns it is about
(`OutcomesInv`, `AssignedInv`). `References` is the foreign key: no row names a deleted worker.

**Schedule**: `TypeCorrect`, `DependentsHaveReason`, `ScheduleRefinesLedger`
(`Spec => SlotsServedOnce`, the refinement), `RecoveryStaysCapped`, `NoSlotIsMissed`. Recovery
rows lie in the past and after the last row of their process, planned rows after the clock
reading of their pass (`RowsInv`); that keeps the two origins apart, which the unique key does
not. A pass that is interrupted and begins again has spent no more than the cap of one crash
(`CapInv`). For the missed slots, the planner leaves no gap (`PrefixInv`) and behind a frontier
every slot is served (`CoverageInv`).

### Only model-checked

Liveness (`EndedIsReconciled`, `ChainContinues`, `EndedIsReported`, `JobReconciled`) is
out of the prover's reach: it needs fairness and ENABLED. The three properties that are violated
are shown by TLC alone.

## 6. Not modelled

- The **webhook notifier**: emitted for hung runs only, three attempts, one counter; no
  other component reads what it writes.
- The **provisioner** and the **container method**: main.go does not wire them. Nor
  does it wire the AI director of the orchestras, the enrollment service beside the
  handlers' own, or `ValidateNoCycles`. The orchestra watchdog runs, but selects by
  columns that nothing writes.
- The **handlers** of accounts, keys, credentials, secrets, artifacts and chat: single
  statements on tables that no modelled component reads for a decision.
- **Retention cleanup** (deletes old terminal rows), authentication, URL validation,
  storage, crypto and log backends (I/O and library calls), listings for the frontend,
  CLI, MCP server, SDKs, frontend and website.
- **Times** other than slots: backoffs, timeouts and due times are choices. The order and
  the LIMIT of the claims of runs are left open with them, so the starvation of a row
  behind ten blocked ones is not checked.
- **Failing SQL statements**, except where the program branches on the error and in the loop that
  marks stale workers.
