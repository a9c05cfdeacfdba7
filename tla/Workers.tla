------------------------------ MODULE Workers ------------------------------
(***************************************************************************)
(* Runs and jobs with runtime "worker": the dispatcher in the server, the  *)
(* worker agents, and the messages between them.                           *)
(*                                                                         *)
(*   - dispatch (of a run or of a job) selects a worker, puts the task     *)
(*     into the worker's channel and then writes waiting_for_worker;       *)
(*   - WorkerPoll takes a task out of the channel, writes running and      *)
(*     answers; the agent executes it and reports the result once;         *)
(*   - control polls carry kill requests to the agent, heartbeats and      *)
(*     checkStaleWorkers decide on the status of a worker.                 *)
(*                                                                         *)
(* The channels live in memory: a crash of the server empties them.  An    *)
(* answer or a result may be lost, and an agent may stop.                  *)
(***************************************************************************)
EXTENDS Naturals, FiniteSets, Sequences, Functions

CONSTANTS
    Runs, Jobs,      \* the tasks
    Workers,
    Enrolled,        \* the workers that have a credential at the start
    Deliveries,      \* identifiers of answered polls; of a job also of the
                     \* attempt row the poll inserts
    Labels,          \* Labels[w]: the labels a worker has at first
    Required,        \* Required[t]: the labels a task asks for
    NoOne,           \* SQL NULL
    MaxConcurrency,  \* the largest value workers.max_concurrency is given
    MaxAttempts,     \* the largest value queues.max_attempts is given
    ChannelSize,     \* the capacity of a worker's channel
    MaxEvents        \* bound: requests of the API, failed statements, lost messages and
                     \* crashes together

Tasks == Runs \cup Jobs

ASSUME WorkersAssumption ==
    /\ Runs \cap Jobs = {}
    /\ Enrolled \subseteq Workers
    /\ NoOne \notin Tasks \cup Workers
    /\ Labels \in [Workers -> Range(Labels)] /\ DOMAIN Required = Tasks
    /\ MaxConcurrency \in Nat \ {0} /\ MaxAttempts \in Nat \ {0} /\ ChannelSize \in Nat \ {0}
    /\ MaxEvents \in Nat

VARIABLES
    state, attempt, worker,   \* columns of runs and jobs
    status, credential, enabled, maxConcurrency, labels,   \* columns of workers
    channel,      \* Dispatcher.taskQueues
    dispatching,  \* the goroutines of dispatch
    stale,        \* the workers statusLoop has listed as stale and not yet marked
    marked,       \* the one it has marked, whose runs it will reassign
    delivery,     \* the tasks given to agents
    registered,   \* the entries of the agents' activeTasks
    todo,         \* what a request between its two statements will write
    requests,     \* requests of the API and failed statements of statusLoop
    faults        \* lost messages, stopped agents and crashes

rows    == <<state, attempt, worker>>
config  == <<enabled, maxConcurrency, labels>>
members == <<status, credential, config>>
server  == <<channel, dispatching, stale, marked, todo>>
agents  == <<delivery, registered>>
bounds  == <<requests, faults>>
vars    == <<rows, members, server, agents, bounds>>

-----------------------------------------------------------------------------
Terminal == {"completed", "failed", "killed", "cancelled", "hung"}

States == {"pending", "waiting_for_worker", "running", "retrying", "kill_requested"} \cup Terminal

\* A delivery is being executed, over and not yet reported (ended), in the hands
\* of ProcessResult (read), done with (over), or gone because its worker was disabled
\* or deleted when it reported (refused).  told: a kill command arrived; killing,
\* number: what ProcessResult has read of the row.
Phases == {"free", "running", "ended", "read", "over", "refused"}

Free == [at |-> "free", task |-> NoOne, worker |-> NoOne, told |-> FALSE,
         result |-> "none", killing |-> FALSE, number |-> 0]

Idle == [at |-> "idle", worker |-> NoOne, attempt |-> 0]

NothingToDo == [task |-> NoOne, to |-> "pending"]

\* The columns, the channels and the locals of the goroutines hold what the schema
\* and the Go types allow; a handed out task is a task; no channel overflows.
TypeOK ==
    /\ state \in [Tasks -> States] /\ attempt \in [Tasks -> Nat]
    /\ worker \in [Tasks -> Workers \cup {NoOne}]
    /\ status \in [Workers -> {"online", "offline"}]
    /\ enabled \in [Workers -> BOOLEAN] /\ maxConcurrency \in [Workers -> 1 .. MaxConcurrency]
    /\ labels \in [Workers -> Range(Labels)]
    /\ credential \in [Workers -> {"none", "token", "issued", "deleted", "revoked"}]
    /\ channel \in [Workers -> Seq(Tasks)] /\ \A w \in Workers : Len(channel[w]) <= ChannelSize
    /\ dispatching \in [Tasks -> [at : {"idle", "selected", "queued", "none"},
                                  worker : Workers \cup {NoOne}, attempt : Nat]]
    /\ delivery \in [Deliveries -> [at : Phases, task : Tasks \cup {NoOne},
                                    worker : Workers \cup {NoOne}, told : BOOLEAN,
                                    result : {"none", "success", "failure"},
                                    killing : BOOLEAN, number : Nat]]
    /\ \A d \in Deliveries : delivery[d].at # "free" => delivery[d].task \in Tasks
    /\ registered \subseteq Deliveries
    /\ stale \subseteq Workers /\ marked \in Workers \cup {NoOne}
    /\ todo \in [task : Tasks \cup {NoOne}, to : States]
    /\ requests \in Nat /\ faults \in Nat /\ requests + faults <= MaxEvents

\* Every task is claimable; the enrolled workers have sent a heartbeat.
Init ==
    /\ state = [t \in Tasks |-> "pending"]
    /\ attempt = [t \in Tasks |-> 0]
    /\ worker = [t \in Tasks |-> NoOne]
    /\ status = [w \in Workers |-> IF w \in Enrolled THEN "online" ELSE "offline"]
    /\ enabled = [w \in Workers |-> TRUE] /\ labels = Labels
    /\ maxConcurrency = [w \in Workers |-> MaxConcurrency]
    /\ credential = [w \in Workers |-> IF w \in Enrolled THEN "issued" ELSE "none"]
    /\ channel = [w \in Workers |-> <<>>]
    /\ dispatching = [t \in Tasks |-> Idle]
    /\ delivery = [d \in Deliveries |-> Free]
    /\ registered = {} /\ stale = {} /\ marked = NoOne /\ todo = NothingToDo
    /\ requests = 0 /\ faults = 0

-----------------------------------------------------------------------------
(* The statements                                                          *)

\* UpdateRunState keeps the worker when none is given.
UpdateRunState(t, s, w) ==
    /\ state' = [state EXCEPT ![t] = s]
    /\ worker' = [worker EXCEPT ![t] = IF w = NoOne THEN @ ELSE w]
    /\ UNCHANGED attempt

\* UpdateJobState writes NULL when none is given.
UpdateJobState(t, s, n, w) ==
    /\ state' = [state EXCEPT ![t] = s]
    /\ attempt' = [attempt EXCEPT ![t] = n]
    /\ worker' = [worker EXCEPT ![t] = w]

\* The statement for either kind, without an attempt.
Write(t, s, w) ==
    \/ t \in Runs /\ UpdateRunState(t, s, w)
    \/ t \in Jobs /\ UpdateJobState(t, s, attempt[t], w)

countActiveByWorker(w) ==
    Cardinality({t \in Tasks : worker[t] = w /\ state[t] \in {"running", "kill_requested"}})

\* The row of the worker is gone; no statement can refer to it any more.
Deleted(w) == credential[w] \in {"deleted", "revoked"}

authenticateWorkerRequest(w) == credential[w] = "issued" /\ enabled[w]

-----------------------------------------------------------------------------
(* Dispatch                                                                *)

matchesWorkerLabels(w, t) == Required[t] \subseteq labels[w]

ListOnlineWorkers ==
    {w \in Workers : credential[w] \in {"token", "issued"} /\ enabled[w] /\ status[w] = "online"}

Suitable(t) ==
    {w \in ListOnlineWorkers : matchesWorkerLabels(w, t) /\ countActiveByWorker(w) < maxConcurrency[w]}

\* The workers selectWorker may return: the least loaded ones.
selectWorker(t) ==
    {w \in Suitable(t) :
       \A v \in Suitable(t) : countActiveByWorker(w) <= countActiveByWorker(v)}

\* The row is claimed and a worker is selected from what the tables say now.  There
\* may be none, or none that is free when Dispatch counts again, and the credentials
\* of the task may not resolve.  (An explicit worker_id is a label of that worker.)
Select(t) ==
    /\ dispatching[t] = Idle
    /\ state[t] \in {"pending", "retrying"}
    /\ \/ \E w \in selectWorker(t) :
            dispatching' = [dispatching EXCEPT ![t] = [at |-> "selected", worker |-> w,
                                                       attempt |-> attempt[t]]]
       \/ dispatching' = [dispatching EXCEPT ![t] = [Idle EXCEPT !.at = "none"]]
    /\ UNCHANGED <<rows, members, channel, stale, marked, todo, agents, bounds>>

\* Mutant: the channel takes any number of tasks.
EnqueueUnbounded(t) ==
    /\ dispatching[t].at = "selected"
    /\ channel' = [channel EXCEPT ![dispatching[t].worker] = Append(@, t)]
    /\ dispatching' = [dispatching EXCEPT ![t].at = "queued"]
    /\ UNCHANGED <<rows, members, stale, marked, todo, agents, bounds>>

\* Mutant: a task that does not fit is dropped, and taken for dispatched.
EnqueueDrops(t) ==
    /\ dispatching[t].at = "selected"
    /\ LET w == dispatching[t].worker IN
       channel' = [channel EXCEPT ![w] = IF Len(@) < ChannelSize THEN Append(@, t) ELSE @]
    /\ dispatching' = [dispatching EXCEPT ![t].at = "queued"]
    /\ UNCHANGED <<rows, members, stale, marked, todo, agents, bounds>>

\* The send does not wait: a full channel counts as no worker.
Enqueue(t) ==
    /\ dispatching[t].at = "selected"
    /\ LET w == dispatching[t].worker IN
       \/ /\ Len(channel[w]) < ChannelSize
          /\ channel' = [channel EXCEPT ![w] = Append(@, t)]
          /\ dispatching' = [dispatching EXCEPT ![t].at = "queued"]
       \/ /\ Len(channel[w]) = ChannelSize
          /\ dispatching' = [dispatching EXCEPT ![t] = [Idle EXCEPT !.at = "none"]]
          /\ UNCHANGED channel
    /\ UNCHANGED <<rows, members, stale, marked, todo, agents, bounds>>

\* The row is written after the task has become visible to the worker.
WriteAssigned(t) ==
    /\ dispatching[t].at = "queued"
    /\ LET d == dispatching[t] IN
       /\ ~Deleted(d.worker)
       /\ \/ t \in Runs /\ UpdateRunState(t, "waiting_for_worker", d.worker)
          \/ t \in Jobs /\ UpdateJobState(t, "waiting_for_worker", d.attempt + 1, d.worker)
    /\ dispatching' = [dispatching EXCEPT ![t] = Idle]
    /\ UNCHANGED <<members, channel, stale, marked, todo, agents, bounds>>

\* The worker was deleted: the statement fails, and the task counts as not dispatched.
AssignFails(t) ==
    /\ dispatching[t].at = "queued"
    /\ Deleted(dispatching[t].worker)
    /\ dispatching' = [dispatching EXCEPT ![t] = [Idle EXCEPT !.at = "none"]]
    /\ UNCHANGED <<rows, members, channel, stale, marked, todo, agents, bounds>>

WriteWaiting(t) ==
    /\ dispatching[t].at = "none"
    /\ Write(t, "waiting_for_worker", NoOne)
    /\ dispatching' = [dispatching EXCEPT ![t] = Idle]
    /\ UNCHANGED <<members, channel, stale, marked, todo, agents, bounds>>

-----------------------------------------------------------------------------
(* The worker endpoints and the agent                                      *)

Request == requests + faults < MaxEvents /\ requests' = requests + 1

Fault == requests + faults < MaxEvents /\ faults' = faults + 1

\* The agent is done with a delivery; what it was told and has read is gone.
Over(d) == [d EXCEPT !.at = "over", !.told = FALSE, !.killing = FALSE, !.number = 0]

SameKey(d, e) == delivery[d].task = delivery[e].task /\ delivery[d].worker = delivery[e].worker

\* A poll waits up to 25 seconds: the worker may have been disabled or deleted since
\* it was let in.
PollTask(w) ==
    /\ credential[w] \in {"issued", "revoked"}
    /\ channel[w] # <<>>
    /\ channel' = [channel EXCEPT ![w] = Tail(@)]

\* WorkerPoll inserts the attempt of a job and writes running, whatever the row has
\* become.  Nothing it has read before matters to what it writes, so taking the task
\* and writing the row are one step.  When the worker was deleted, the attempt is
\* refused and a job is not answered; of a run the failed statement is ignored.
Deliver(w, d, entry) ==
    /\ delivery[d] = Free
    /\ delivery' = [delivery EXCEPT ![d] = [entry EXCEPT !.task = Head(channel[w]), !.worker = w]]
    /\ \/ ~Deleted(w) /\ Write(Head(channel[w]), "running", w)
       \/ Deleted(w) /\ Head(channel[w]) \in Runs /\ UNCHANGED rows
    /\ UNCHANGED <<members, dispatching, stale, marked, todo>>

\* The agent starts the task.  activeTasks has one entry per task: a second delivery
\* replaces the first one.
WorkerPoll(w, d) ==
    /\ PollTask(w)
    /\ Deliver(w, d, [Free EXCEPT !.at = "running"])
    /\ registered' = {e \in registered : ~(delivery[e].task = Head(channel[w])
                                            /\ delivery[e].worker = w)} \cup {d}
    /\ UNCHANGED bounds

\* The answer does not arrive.
AnswerLost(w, d) ==
    /\ Fault
    /\ PollTask(w)
    /\ Deliver(w, d, [Free EXCEPT !.at = "over"])
    /\ UNCHANGED <<registered, requests>>

\* The agent has hung up: the statements of the handler fail, the task is gone.
PollAbandoned(w) ==
    /\ Fault
    /\ PollTask(w)
    /\ UNCHANGED <<rows, members, dispatching, stale, marked, todo, agents, requests>>

\* The attempt of a job is refused: the answer is an error and the task is gone.
PollRefused(w) ==
    /\ PollTask(w)
    /\ Deleted(w) /\ Head(channel[w]) \in Jobs
    /\ UNCHANGED <<rows, members, dispatching, stale, marked, todo, agents, bounds>>

\* The method ran to its end, was cancelled, or cannot run here (a method that is
\* not registered, or that only hands back a handle): an error then.
EndTask(d) ==
    /\ delivery[d].at = "running"
    /\ \E r \in {"success", "failure"} :
         delivery' = [delivery EXCEPT ![d].at = "ended", ![d].result = r, ![d].told = FALSE]
    /\ registered' = {e \in registered : ~SameKey(d, e)}
    /\ UNCHANGED <<rows, members, server, bounds>>

\* The active tasks of the agent that the rows say it should kill.
KillCommands(w) ==
    {d \in registered : /\ delivery[d].worker = w
                        /\ state[delivery[d].task] = "kill_requested"
                        /\ worker[delivery[d].task] = w}

ControlPoll(w) ==
    /\ authenticateWorkerRequest(w)
    /\ \E d \in KillCommands(w) : ~delivery[d].told
    /\ delivery' = [d \in Deliveries |-> IF d \in KillCommands(w)
                                         THEN [delivery[d] EXCEPT !.told = TRUE] ELSE delivery[d]]
    /\ UNCHANGED <<rows, members, server, registered, bounds>>

\* The report is sent once.
ReportLost(d) ==
    /\ Fault
    /\ delivery[d].at = "ended"
    /\ delivery' = [delivery EXCEPT ![d] = Over(@)]
    /\ UNCHANGED <<rows, members, server, registered, requests>>

\* Mutant: an offline worker is not let in either, and its result is gone.
ReportRefusedOffline(d) ==
    /\ delivery[d].at = "ended"
    /\ LET in == authenticateWorkerRequest(delivery[d].worker) IN
       /\ status[delivery[d].worker] # "online" \/ ~in
       /\ delivery' = [delivery EXCEPT ![d].at = IF in THEN "over" ELSE "refused"]
    /\ UNCHANGED <<rows, members, server, registered, bounds>>

\* A disabled or deleted worker is not let in.
ReportRefused(d) ==
    /\ delivery[d].at = "ended"
    /\ ~authenticateWorkerRequest(delivery[d].worker)
    /\ delivery' = [delivery EXCEPT ![d].at = "refused"]
    /\ UNCHANGED <<rows, members, server, registered, bounds>>

\* What ProcessResult reads of the row (and uses: of a run the state alone).
GetJobWithQueue(t) == [killing |-> state[t] = "kill_requested", number |-> attempt[t]]

\* ProcessResult reads the row ...
ResultRead(d) ==
    /\ delivery[d].at = "ended"
    /\ authenticateWorkerRequest(delivery[d].worker)
    /\ LET read == GetJobWithQueue(delivery[d].task) IN
       delivery' = [delivery EXCEPT ![d].at = "read", ![d].killing = read.killing,
                                    ![d].number = read.number]
    /\ UNCHANGED <<rows, members, server, registered, bounds>>

\* Mutant: a kill request wins over a success.
RunResultKillWins(d) ==
    IF d.killing THEN "killed"
    ELSE IF d.result = "success" THEN "completed" ELSE "failed"

RunResult(d) ==
    IF d.result = "success" THEN "completed"
    ELSE IF d.killing THEN "killed" ELSE "failed"

Retries(d, max) == d.number < max

\* A retry counts the attempt here, and WriteAssigned counts it again.  The maximum of
\* the queue may have been changed since the job was given out.
JobResult(d) ==
    \/ d.result = "success" /\ UpdateJobState(d.task, "completed", attempt[d.task], NoOne)
    \/ d.result # "success" /\ d.killing
       /\ UpdateJobState(d.task, "killed", attempt[d.task], NoOne)
    \/ /\ d.result # "success" /\ ~d.killing
       /\ \E max \in 1 .. MaxAttempts :
            IF Retries(d, max) THEN UpdateJobState(d.task, "retrying", d.number + 1, NoOne)
            ELSE UpdateJobState(d.task, "failed", attempt[d.task], NoOne)

\* ... and writes the outcome by the id alone.
ResultWrite(d) ==
    /\ delivery[d].at = "read"
    /\ \/ /\ delivery[d].task \in Runs
          /\ UpdateRunState(delivery[d].task, RunResult(delivery[d]), NoOne)
       \/ delivery[d].task \in Jobs /\ JobResult(delivery[d])
    /\ delivery' = [delivery EXCEPT ![d] = Over(@)]
    /\ UNCHANGED <<members, server, registered, bounds>>

-----------------------------------------------------------------------------
(* The status of the workers                                               *)

\* Only "online" matters to the program: offline and unhealthy, between which the count
\* of failures decides, are one here.  One heartbeat is enough to be online again.
UpdateWorkerHeartbeat(w) == status' = [status EXCEPT ![w] = "online"]

WorkerHeartbeat(w) ==
    /\ authenticateWorkerRequest(w)
    /\ UpdateWorkerHeartbeat(w)
    /\ UNCHANGED <<rows, credential, config, server, agents, bounds>>

\* Only online workers are listed.
ListStaleWorkers ==
    {w \in Workers : credential[w] \in {"token", "issued"} /\ enabled[w] /\ status[w] = "online"}

\* The task stays in the channel of the worker.  Jobs are not reassigned.
reassignWorkerRuns(w) ==
    /\ state' = [t \in Tasks |-> IF t \in Runs /\ worker[t] = w /\ state[t] = "waiting_for_worker"
                                 THEN "pending" ELSE state[t]]
    /\ worker' = [t \in Tasks |-> IF t \in Runs /\ worker[t] = w /\ state[t] = "waiting_for_worker"
                                  THEN NoOne ELSE worker[t]]
    /\ UNCHANGED attempt

SetWorkerStatus(w) == status' = [status EXCEPT ![w] = "offline"]

\* The workers whose heartbeat is late (which ones is left open) are listed ...
checkStaleWorkers ==
    /\ stale = {} /\ marked = NoOne
    /\ stale' \in (SUBSET ListStaleWorkers) \ {{}}
    /\ UNCHANGED <<rows, members, channel, dispatching, marked, todo, agents, bounds>>

\* A statement of statusLoop that fails leaves its columns alone.
FailedStatement(columns) == UNCHANGED columns /\ Request

\* ... and marked one after the other: a heartbeat in between is overruled.  Whether
\* the statements succeed is not looked at.
MarkStale(w) ==
    /\ w \in stale /\ marked = NoOne
    /\ stale' = stale \ {w} /\ marked' = w
    /\ \/ SetWorkerStatus(w) /\ UNCHANGED requests
       \/ FailedStatement(status)
    /\ UNCHANGED <<rows, credential, config, channel, dispatching, todo, agents, faults>>

Reassign(w) ==
    /\ marked = w /\ marked' = NoOne
    /\ \/ reassignWorkerRuns(w) /\ UNCHANGED requests
       \/ FailedStatement(rows)
    /\ UNCHANGED <<members, channel, dispatching, stale, todo, agents, faults>>

-----------------------------------------------------------------------------
(* API requests, monitor, crashes                                          *)

SetWorkerEnrollmentToken(w) == credential' = [credential EXCEPT ![w] = "token"]

CreateWorker(w) ==
    /\ Request
    /\ credential[w] = "none"
    /\ SetWorkerEnrollmentToken(w)
    /\ UNCHANGED <<rows, status, config, server, agents, faults>>

GetWorkerByEnrollmentToken == {w \in Workers : credential[w] = "token"}

\* The statement takes the token away.
UpdateWorkerCredentialHash(w) == credential' = [credential EXCEPT ![w] = "issued"]

\* The token is exchanged once.
EnrollWorker(w) ==
    /\ w \in GetWorkerByEnrollmentToken
    /\ UpdateWorkerCredentialHash(w)
    /\ UNCHANGED <<rows, status, config, server, agents, bounds>>

\* UpdateWorker merges the request into the columns it has read.
UpdateWorker(w) ==
    /\ Request
    /\ credential[w] \in {"token", "issued"}
    /\ \E on \in BOOLEAN : enabled' = [enabled EXCEPT ![w] = on]
    /\ \E n \in 1 .. MaxConcurrency : maxConcurrency' = [maxConcurrency EXCEPT ![w] = n]
    /\ \E l \in Range(Labels) : labels' = [labels EXCEPT ![w] = l]
    /\ UNCHANGED <<rows, status, credential, server, agents, faults>>

\* The references of the rows become NULL; the channel stays.
DeleteWorker(w) ==
    /\ Request
    /\ credential[w] \in {"token", "issued"}
    /\ credential' = [credential EXCEPT ![w] = IF @ = "issued" THEN "revoked" ELSE "deleted"]
    /\ worker' = [t \in Tasks |-> IF worker[t] = w THEN NoOne ELSE worker[t]]
    /\ UNCHANGED <<state, attempt, status, config, server, agents, faults>>

\* CancelRun and CancelJob decide on the row they read ...
CancelRead(t) ==
    /\ Request
    /\ todo = NothingToDo
    /\ state[t] \in {"pending", "waiting_for_worker", "retrying", "running"}
    /\ todo' = [task |-> t, to |-> IF state[t] = "running" THEN "kill_requested" ELSE "cancelled"]
    /\ UNCHANGED <<rows, members, channel, dispatching, stale, marked, agents, faults>>

\* ... and write it: a job's kill request forgets the worker, its cancellation
\* (the statement CancelJob) does not.
CancelWrite ==
    /\ todo # NothingToDo
    /\ \/ /\ todo.task \in Jobs /\ todo.to = "cancelled"
          /\ state' = [state EXCEPT ![todo.task] = "cancelled"]
          /\ UNCHANGED <<attempt, worker>>
       \/ (todo.task \in Runs \/ todo.to # "cancelled") /\ Write(todo.task, todo.to, NoOne)
    /\ todo' = NothingToDo
    /\ UNCHANGED <<members, channel, dispatching, stale, marked, agents, bounds>>

KillRun(t) ==
    /\ Request
    /\ UpdateRunState(t, "kill_requested", NoOne)
    /\ UNCHANGED <<members, server, agents, faults>>

\* A late running run is marked; orchestrator.Kill finds no handle.
MonitorHung(t) ==
    /\ state[t] = "running"
    /\ UpdateRunState(t, "hung", NoOne)
    /\ UNCHANGED <<members, server, agents, bounds>>

\* An agent stops: its executions end with it and their results are not sent.
WorkerStops(w) ==
    /\ Fault
    /\ \E d \in Deliveries : delivery[d].worker = w /\ delivery[d].at \in {"running", "ended"}
    /\ delivery' = [d \in Deliveries |->
                      IF delivery[d].worker = w /\ delivery[d].at \in {"running", "ended"}
                      THEN Over(delivery[d]) ELSE delivery[d]]
    /\ registered' = {d \in registered : delivery[d].worker # w}
    /\ UNCHANGED <<rows, members, server, requests>>

\* The channels and the goroutines are gone; the recovery pass marks the running
\* runs hung, whatever their workers are doing.
Crash ==
    /\ Fault
    /\ channel' = [w \in Workers |-> <<>>]
    /\ dispatching' = [t \in Tasks |-> Idle]
    /\ stale' = {} /\ marked' = NoOne /\ todo' = NothingToDo
    /\ delivery' = [d \in Deliveries |-> IF delivery[d].at = "read"
                                         THEN Over(delivery[d]) ELSE delivery[d]]
    /\ state' = [t \in Tasks |-> IF t \in Runs /\ state[t] = "running" THEN "hung" ELSE state[t]]
    /\ UNCHANGED <<attempt, worker, members, registered, requests>>

-----------------------------------------------------------------------------
DispatchStep(t) == Select(t) \/ Enqueue(t) \/ WriteAssigned(t) \/ AssignFails(t) \/ WriteWaiting(t)

EndpointStep(w) ==
    \/ \E d \in Deliveries : WorkerPoll(w, d) \/ AnswerLost(w, d)
    \/ PollAbandoned(w) \/ PollRefused(w) \/ ControlPoll(w) \/ WorkerHeartbeat(w)

StaleStep(w) == MarkStale(w) \/ Reassign(w)

AgentStep(d) ==
    \/ EndTask(d) \/ ReportLost(d) \/ ReportRefused(d)
    \/ ResultRead(d) \/ ResultWrite(d)

ApiStep ==
    \/ \E w \in Workers : CreateWorker(w) \/ EnrollWorker(w) \/ UpdateWorker(w) \/ DeleteWorker(w)
    \/ \E t \in Tasks : CancelRead(t)
    \/ CancelWrite
    \/ \E t \in Runs : KillRun(t)

Next ==
    \/ \E t \in Tasks : DispatchStep(t)
    \/ \E w \in Workers : EndpointStep(w) \/ StaleStep(w) \/ WorkerStops(w)
    \/ checkStaleWorkers
    \/ \E d \in Deliveries : AgentStep(d)
    \/ ApiStep
    \/ \E t \in Runs : MonitorHung(t)
    \/ Crash

Spec == Init /\ [][Next]_vars

-----------------------------------------------------------------------------
(* Properties                                                              *)

Of(t) == {d \in Deliveries : delivery[d].task = t}

Live == {"running", "ended", "read"}

\* A task that was given out twice, cancelled, hung or killed meanwhile still has no
\* outcome that no execution of it had.
WorkerOutcomeIsBacked ==
    \A t \in Tasks :
      /\ state[t] = "completed" => \E d \in Of(t) : delivery[d].result = "success"
      /\ state[t] \in {"failed", "killed", "retrying"} =>
           \E d \in Of(t) : delivery[d].result = "failure"

\* A row that waits for the worker it was assigned to is in that worker's channel,
\* or was already given to it (the poll may come before the row is
\* written), as long as nothing was lost and the server did not crash.
AssignedIsHandled ==
    faults = 0 =>
      \A t \in Tasks, w \in Workers :
        (state[t] = "waiting_for_worker" /\ worker[t] = w) =>
          \/ \E i \in DOMAIN channel[w] : channel[w][i] = t
          \/ \E d \in Of(t) : delivery[d].worker = w

\* A running row has an execution that will report, unless the report was refused, a
\* message was lost or the server crashed.
RunningIsDelivered ==
    faults = 0 =>
      \A t \in Tasks : state[t] = "running" =>
        \E d \in Of(t) : delivery[d].at \in Live \cup {"refused"}

=============================================================================
