--------------------------- MODULE QueueJobs_proofs ---------------------------
(***************************************************************************)
(* Proofs about QueueJobs, for any sets of rows and dispatches and any     *)
(* number of requests and crashes.                                         *)
(***************************************************************************)
EXTENDS QueueJobs, FiniteSetTheorems, TLAPS

-----------------------------------------------------------------------------
(* The inductive invariant                                                 *)

\* A goroutine that has written the row and is not over.
Working == {"attempt", "starting", "blocking", "accepted", "finish", "clear", "outcome"}

\* The rows the poller still has in its hands.
Polled == pollList \cup (IF pc[Poller] = "idle" THEN {} ELSE {local[Poller]})

\* Everything that can still bring dispatch d to bear on job j: its goroutine, its
\* execution, its unfinished attempt, its stored handle, a listed or current poll.
WorkedBy(d, j) ==
    \/ local[d].job = j /\ pc[d] \in Working
    \/ attemptRow[d].job = j /\ (exec[d] \in {"running", "stopping"} \/ ~attemptRow[d].finished)
    \/ handle[j] = d
    \/ \E r \in Polled : r.job = j /\ r.exec = d

\* One dispatch at a time works on a job.
Unique ==
    \A j \in Jobs, d \in Dispatches, e \in Dispatches : WorkedBy(d, j) /\ WorkedBy(e, j) => d = e

\* Nobody works on a job that is claimed, and it is claimed once.
Claims ==
    \A d \in Dispatches : pc[d] \in Undecided =>
      /\ \A e \in Dispatches : ~WorkedBy(e, local[d].job)
      /\ \A e \in Dispatches : pc[e] \in Undecided /\ local[e].job = local[d].job => e = d

Unstarted == {"absent", "pending", "retrying"}

\* Nobody works on a job that can be claimed.
Idle ==
    \A j \in Jobs : state[j] \in Unstarted => \A e \in Dispatches : ~WorkedBy(e, j)

\* A poll closes the attempt of the execution it asked about.
OwnRows == \A r \in Polled : r.row = r.exec

\* The handle that finalizeJobResult cleared stays cleared until it is done.
Cleared == \A t \in Tasks : pc[t] = "outcome" => handle[local[t].job] = NoOne

Sole == Unique /\ Claims /\ Idle /\ OwnRows /\ Cleared

\* All that holds as long as no row was claimed twice.
Alone == reclaims = 0 => Sole

\* An execution that is over, or that was reported to be.
Over == Ended \cup {"lost"}

\* What a dispatch has done when it is at a place.
Goroutines ==
    \A d \in Dispatches :
      /\ pc[d] \in {"idle", "claimed", "start", "attempt", "starting"} => exec[d] = "none"
      /\ pc[d] \in {"idle", "claimed", "start", "attempt"} => attemptRow[d].job = NoOne
      /\ pc[d] \notin {"idle", "done"} => local[d].row = d /\ local[d].exec = d
      /\ pc[d] \in Working \ {"attempt"} => attemptRow[d].job = local[d].job
      /\ pc[d] \in {"blocking", "accepted"} => exec[d] # "none"

\* What finalizeJobResult works with, in a dispatch and in the poller.
Finals ==
    \A t \in Tasks :
      /\ pc[t] \in {"finish", "clear", "outcome"} =>
           /\ local[t].exec \in Dispatches /\ attemptRow[local[t].exec].job = local[t].job
           /\ local[t].row \in Dispatches /\ attemptRow[local[t].row].job = local[t].job
           /\ exec[local[t].exec] \in Over
      /\ pc[t] \in {"clear", "outcome"} => attemptRow[local[t].row].finished

\* A poll is about a dispatch that has returned and an attempt of its job; a row is
\* listed once, and not while it is being finalized.
PolledOf(r) ==
    /\ r.job \in Jobs /\ r.exec \in Dispatches /\ r.row \in Dispatches
    /\ attemptRow[r.exec].job = r.job /\ attemptRow[r.row].job = r.job
    /\ pc[r.exec] = "done" /\ exec[r.exec] # "none"

Polls ==
    /\ pc[Poller] \in {"idle", "finish", "clear", "outcome"}
    /\ phase # "polling" => pollList = {} /\ pc[Poller] = "idle"
    /\ \A r \in Polled : PolledOf(r)
    /\ \A r \in pollList, q \in pollList : r.job = q.job => r = q
    /\ pc[Poller] # "idle" => \A r \in pollList : r.job # local[Poller].job

\* A stored handle is that of a dispatch of the job that has returned.
Handles ==
    \A j \in Jobs : handle[j] # NoOne =>
      attemptRow[handle[j]].job = j /\ pc[handle[j]] = "done" /\ exec[handle[j]] # "none"

Core == Goroutines /\ Finals /\ Polls /\ Handles

IInv == TypeOK /\ Core

-----------------------------------------------------------------------------
(* Types                                                                   *)

\* Identifiers are told apart.
LEMMA Identity ==
    /\ Poller \in Tasks /\ \A d \in Dispatches : d \in Tasks /\ d # Poller /\ d # NoOne
    /\ NoOne \notin Jobs
  BY QueueAssumption DEF Tasks

\* The empty goroutine is a goroutine.
LEMMA BlankType == Blank \in Locals
  BY QueueAssumption DEF Blank, Locals, RowStates, Results

\* The parts of the types.
RowsOK ==
    /\ state \in [Jobs -> RowStates] /\ attempt \in [Jobs -> Nat]
    /\ nextAt \in [Jobs -> BOOLEAN] /\ handle \in [Jobs -> Dispatches \cup {NoOne}]

AttemptsOK ==
    /\ attemptRow \in [Dispatches -> [job : Jobs \cup {NoOne}, number : Nat, finished : BOOLEAN]]
    /\ queue \in Queues /\ exec \in [Dispatches -> ExecStates]

TasksOK ==
    /\ pc \in [Tasks -> Labels] /\ local \in [Tasks -> Locals]
    /\ \A t \in Tasks : pc[t] \notin {"idle", "done"} => local[t].job \in Jobs

ListsOK ==
    /\ phase \in {"tick", "kill", "killing", "polling"}
    /\ killList \subseteq Jobs /\ pollList \subseteq Locals /\ expired \subseteq Jobs
    /\ todo \in [job : Jobs \cup {NoOne}, to : RowStates]

BoundsOK ==
    requests \in 0 .. MaxRequests /\ crashes \in 0 .. MaxCrashes /\ reclaims \in 0 .. MaxReclaims

\* They make up TypeOK.
LEMMA TypeParts == TypeOK <=> RowsOK /\ AttemptsOK /\ TasksOK /\ ListsOK /\ BoundsOK
  BY DEF TypeOK, RowsOK, AttemptsOK, TasksOK, ListsOK, BoundsOK

\* The same of the next state.
LEMMA TypePartsNext ==
    TypeOK' <=> RowsOK' /\ AttemptsOK' /\ TasksOK' /\ ListsOK' /\ BoundsOK'
  BY DEF TypeOK, RowsOK, AttemptsOK, TasksOK, ListsOK, BoundsOK

\* A request is counted within its bound.
LEMMA RequestType ==
    ASSUME BoundsOK, Request, UNCHANGED <<crashes, reclaims>>
    PROVE  BoundsOK'
  BY QueueAssumption DEF BoundsOK, Request

\* A goroutine that moves on.
LEMMA GotoType ==
    ASSUME TypeOK, NEW t \in Tasks, NEW l \in Labels, Goto(t, l)
    PROVE  /\ pc' \in [Tasks -> Labels] /\ pc'[t] = l
           /\ \A u \in Tasks : u # t => pc'[u] = pc[u]
  BY DEF TypeOK, Goto

\* A goroutine that is over.
LEMMA ReturnType ==
    ASSUME TypeOK, NEW t \in Tasks, Return(t)
    PROVE  /\ pc' \in [Tasks -> Labels] /\ local' \in [Tasks -> Locals]
           /\ t = Poller => pc'[t] = "idle"
           /\ t # Poller => pc'[t] = "done"
           /\ local'[t] = Blank
           /\ \A u \in Tasks : u # t => pc'[u] = pc[u] /\ local'[u] = local[u]
  BY BlankType DEF TypeOK, Return, Goto, Labels

\* The statements on rows.
LEMMA UpdateType ==
    ASSUME TypeOK, NEW j \in Jobs, NEW s \in RowStates, NEW n \in Nat, NEW next \in BOOLEAN,
           UpdateJobState(j, s, n, next)
    PROVE  /\ state' \in [Jobs -> RowStates] /\ attempt' \in [Jobs -> Nat]
           /\ nextAt' \in [Jobs -> BOOLEAN] /\ handle' = handle
           /\ state' = [state EXCEPT ![j] = s]
  BY DEF TypeOK, UpdateJobState

\* A row that is marked failed.
LEMMA FailType ==
    ASSUME TypeOK, NEW j \in Jobs, failJob(j)
    PROVE  /\ state' \in [Jobs -> RowStates] /\ attempt' \in [Jobs -> Nat]
           /\ nextAt' \in [Jobs -> BOOLEAN] /\ handle' = handle
           /\ state' = [state EXCEPT ![j] = "failed"]
<1>1. attempt[j] \in Nat /\ "failed" \in RowStates  BY DEF TypeOK, RowStates, States
<1> QED  BY <1>1, UpdateType DEF failJob

\* The initial tables are well typed.
LEMMA InitType == Init => TypeOK
  BY BlankType, QueueAssumption
  DEF Init, NewQueue, TypeOK, RowStates, States, NoRow, ExecStates, Labels, NothingToDo

\* The requests of the API.
LEMMA ApiType == TypeOK /\ ApiStep => TypeOK'
<1> SUFFICES ASSUME TypeOK, ApiStep PROVE TypeOK'  OBVIOUS
<1> USE TypeParts, TypePartsNext
<1>1. CASE UNCHANGED <<tasks, exec, attemptRow, loop, expired>> /\ RowsOK'
           /\ queue' \in Queues /\ todo' \in [job : Jobs \cup {NoOne}, to : RowStates]
           /\ BoundsOK'
  BY <1>1 DEF AttemptsOK, TasksOK, ListsOK, tasks, loop
<1>2. CASE (\E j \in Jobs : EnqueueJob(j)) \/ (\E S \in SUBSET Jobs : BatchEnqueueJobs(S))
  <2>1. RowsOK'  BY <1>2 DEF EnqueueJob, BatchEnqueueJobs, CreateJob, RowsOK, RowStates, States
  <2> QED
    BY <1>1, <1>2, <2>1, RequestType DEF EnqueueJob, BatchEnqueueJobs, AttemptsOK, ListsOK, loop
<1>3. ASSUME NEW j \in Jobs, CancelRead(j) PROVE TypeOK'
  <2>1. todo' \in [job : Jobs \cup {NoOne}, to : RowStates]
    BY <1>3 DEF CancelRead, RowStates, States
  <2>2. RowsOK'  BY <1>3 DEF CancelRead, tables, rows, RowsOK
  <2> QED  BY <1>1, <1>3, <2>1, <2>2, RequestType DEF CancelRead, tables, AttemptsOK, loop
<1>4. ASSUME NEW orig \in Jobs, NEW j \in Jobs, ReplayJob(orig, j) PROVE TypeOK'
  <2>1. RowsOK'  BY <1>4 DEF ReplayJob, CreateReplayJob, RowsOK, RowStates, States
  <2> QED  BY <1>1, <1>4, <2>1, RequestType DEF ReplayJob, AttemptsOK, ListsOK, loop
<1>5. CASE CancelWrite
  <2>1. RowsOK'
    <3>1. CASE CancelRow(todo.job)  BY <3>1 DEF CancelRow, RowsOK, RowStates, States
    <3>2. CASE UpdateJobState(todo.job, "kill_requested", attempt[todo.job], FALSE)
      BY <1>5, <3>2, UpdateType DEF CancelWrite, RowsOK, RowStates, States
    <3> QED  BY <1>5, <3>1, <3>2 DEF CancelWrite
  <2>2. todo' \in [job : Jobs \cup {NoOne}, to : RowStates]
    BY <1>5 DEF CancelWrite, NothingToDo, RowStates
  <2> QED  BY <1>1, <1>5, <2>1, <2>2 DEF CancelWrite, outside, AttemptsOK, BoundsOK, loop
<1>6. CASE UpdateQueue
  <2>1. RowsOK' /\ queue' \in Queues
    BY <1>6 DEF UpdateQueue, SetQueueColumns, RowsOK, rows, AttemptsOK
  <2>2. BoundsOK'  BY <1>6, RequestType DEF UpdateQueue, loop
  <2>3. AttemptsOK'  BY <1>6, <2>1 DEF UpdateQueue, AttemptsOK
  <2>4. TasksOK' /\ ListsOK'  BY <1>6 DEF UpdateQueue, TasksOK, ListsOK, tasks, loop
  <2> QED  BY <2>1, <2>2, <2>3, <2>4
<1> QED  BY <1>2, <1>3, <1>4, <1>5, <1>6 DEF ApiStep

\* A row that is listed for polling.
ListedAs(r, d) ==
    [job |-> r.job, attempt |-> attempt[r.job], seen |-> state[r.job], limit |-> 0,
     max |-> queue.maxAttempts, row |-> d, exec |-> handle[r.job], result |-> "none"]

\* The rows that are listed for polling, each with an open attempt of its job.
LEMMA ListedRow ==
    ASSUME TypeOK, NEW latest \in [ActiveAsyncJobs -> Dispatches],
           \A j \in ActiveAsyncJobs : latest[j] \in LatestOpen(j),
           NEW r \in ListActiveAsyncJobs(latest)
    PROVE  /\ r \in Locals /\ r.job \in Jobs /\ r.exec = handle[r.job] /\ r.exec \in Dispatches
           /\ r.row \in OpenAttempts(r.job) /\ r.result = "none"
           /\ r = ListedAs(r, latest[r.job])
<1>1. PICK j \in ActiveAsyncJobs :
        r = [job |-> j, attempt |-> attempt[j], seen |-> state[j], limit |-> 0,
             max |-> queue.maxAttempts, row |-> latest[j], exec |-> handle[j], result |-> "none"]
  BY DEF ListActiveAsyncJobs
<1>2. j \in Jobs /\ handle[j] \in Dispatches  BY <1>1 DEF TypeOK, ActiveAsyncJobs
<1>3. latest[j] \in OpenAttempts(j) /\ latest[j] \in Dispatches
  BY <1>1 DEF LatestOpen
<1>4. queue.maxAttempts \in 0 .. MaxAttempts /\ attempt[j] \in Nat /\ state[j] \in RowStates
  BY <1>2, QueueAssumption DEF TypeOK, Queues
<1>5. r.job = j  BY <1>1
<1> QED  BY <1>1, <1>2, <1>3, <1>4, <1>5, QueueAssumption DEF Locals, Results, ListedAs

\* A claim: every row of it goes to a goroutine of its own that was idle.
LEMMA ClaimStep ==
    ASSUME TypeOK, NEW S \in SUBSET ClaimPendingJobs, TickClaims(S)
    PROVE  /\ pc' \in [Tasks -> Labels] /\ local' \in [Tasks -> Locals]
           /\ \A t \in Tasks :
                \/ pc'[t] = pc[t] /\ local'[t] = local[t]
                \/ /\ t \in Dispatches /\ pc[t] = "idle" /\ pc'[t] = "claimed"
                   /\ local'[t].job \in S /\ local'[t].row = t /\ local'[t].exec = t
                   /\ local'[t].attempt = attempt[local'[t].job]
                   /\ \A u \in Dispatches :
                        pc'[u] \in Undecided /\ local'[u].job = local'[t].job =>
                          u = t \/ (pc[u] \in Undecided /\ local'[u] = local[u])
<1> DEFINE idle  == {d \in Dispatches : pc[d] = "idle"}
           id    == Identifiers(S)
           of(t) == {j \in S : id[j] = t}
           entry(t, j) == [Blank EXCEPT !.job = j, !.attempt = attempt[j], !.seen = state[j],
                                        !.limit = queue.concurrency, !.max = queue.maxAttempts,
                                        !.row = t, !.exec = t]
<1>1. id \in Injection(S, idle)
  <2>1. Injection(S, idle) # {}  BY DEF TickClaims
  <2> QED  BY <2>1 DEF Identifiers
<1>2. /\ id \in [S -> idle]
      /\ \A i, j \in S : id[i] = id[j] => i = j
  BY <1>1 DEF Injection, IsInjective
<1>3. S \subseteq Jobs  BY DEF ClaimPendingJobs
<1>4. /\ pc' = [t \in Tasks |-> IF of(t) # {} THEN "claimed" ELSE pc[t]]
      /\ local' = [t \in Tasks |-> IF of(t) = {} THEN local[t]
                                   ELSE LET j == CHOOSE j \in of(t) : TRUE IN entry(t, j)]
  BY DEF TickClaims
<1> HIDE DEF id
<1>5. ASSUME NEW t \in Tasks, of(t) = {}
      PROVE  pc'[t] = pc[t] /\ local'[t] = local[t] /\ pc'[t] \in Labels /\ local'[t] \in Locals
  BY <1>4, <1>5 DEF TypeOK
<1>6. ASSUME NEW t \in Tasks, of(t) # {}
      PROVE  /\ \E j \in S : id[j] = t /\ local'[t] = entry(t, j) /\ local'[t].job = j
             /\ t \in Dispatches /\ pc[t] = "idle" /\ pc'[t] = "claimed"
             /\ local'[t] \in Locals
             /\ local'[t].row = t /\ local'[t].exec = t
             /\ local'[t].attempt = attempt[local'[t].job]
  <2> DEFINE j == CHOOSE j \in of(t) : TRUE
  <2>1. j \in of(t)  BY <1>6
  <2>2. local'[t] = entry(t, j) /\ pc'[t] = "claimed"  BY <1>4, <1>6
  <2> HIDE DEF j
  <2>3. j \in S /\ id[j] = t  BY <2>1
  <2>4. t \in Dispatches /\ pc[t] = "idle"  BY <1>2, <2>3
  <2>5. /\ j \in Jobs /\ attempt[j] \in Nat /\ state[j] \in RowStates
        /\ queue.concurrency \in 0 .. Concurrency /\ queue.maxAttempts \in 0 .. MaxAttempts
    BY <1>3, <2>3, QueueAssumption DEF TypeOK, Queues
  <2>6. /\ entry(t, j) \in Locals /\ entry(t, j).job = j /\ entry(t, j).row = t
        /\ entry(t, j).exec = t /\ entry(t, j).attempt = attempt[j]
    BY <2>4, <2>5 DEF Blank, Locals, Results
  <2> HIDE DEF entry
  <2> QED  BY <2>2, <2>3, <2>4, <2>6
<1> HIDE DEF entry
<1>8. ASSUME NEW t \in Tasks, of(t) # {}, NEW u \in Dispatches, pc'[u] \in Undecided,
             local'[u].job = local'[t].job
      PROVE  u = t \/ (pc[u] \in Undecided /\ local'[u] = local[u])
  <2>1. u \in Tasks  BY Identity
  <2>a. CASE of(u) = {}  BY <1>5, <1>8, <2>1, <2>a
  <2>2. CASE of(u) # {}
    <3>1. PICK i \in S : id[i] = t /\ local'[t].job = i  BY <1>6, <1>8
    <3>2. PICK j \in S : id[j] = u /\ local'[u].job = j  BY <1>6, <2>1, <2>2
    <3> QED  BY <1>8, <3>1, <3>2
  <2> QED  BY <2>a, <2>2
<1>9. pc' \in [Tasks -> Labels] /\ local' \in [Tasks -> Locals]
  <2>1. \A t \in Tasks : pc'[t] \in Labels /\ local'[t] \in Locals
    BY <1>5, <1>6 DEF Labels
  <2> QED  BY <1>4, <2>1
<1>10. ASSUME NEW t \in Tasks, of(t) # {} PROVE local'[t].job \in S  BY <1>6, <1>10
<1> HIDE DEF of
<1> QED  BY <1>5, <1>6, <1>8, <1>9, <1>10

\* The end of an attempt.
LEMMA FinalizeType ==
    ASSUME TypeOK, Finals, NEW t \in Tasks, FinalizeStep(t)
    PROVE  TypeOK'
<1> USE TypeParts, TypePartsNext
<1>1. pc[t] \in {"finish", "clear", "outcome"}
  BY DEF FinalizeStep, CloseAttempt, ClearHandle, WriteOutcome
<1>2. local[t] \in Locals /\ local[t].job \in Jobs /\ local[t].row \in Dispatches
  BY <1>1 DEF TasksOK, Finals
<1>3. CASE CloseAttempt(t)
  <2>1. AttemptsOK'
    BY <1>2, <1>3 DEF CloseAttempt, FinishJobAttempt, AttemptsOK, outside
  <2>2. TasksOK'  BY <1>2, <1>3, GotoType DEF CloseAttempt, TasksOK, Labels
  <2> QED  BY <1>3, <2>1, <2>2 DEF CloseAttempt, RowsOK, ListsOK, BoundsOK, rows, loop, outside
<1>4. CASE ClearHandle(t)
  <2>1. RowsOK'  BY <1>2, <1>4 DEF ClearHandle, RowsOK
  <2>2. TasksOK'  BY <1>2, <1>4, GotoType DEF ClearHandle, TasksOK, Labels
  <2> QED  BY <1>4, <2>1, <2>2 DEF ClearHandle, AttemptsOK, ListsOK, BoundsOK, loop, outside
<1>5. CASE WriteOutcome(t)
  <2>1. RowsOK'
    <3>1. attempt[local[t].job] \in Nat /\ local[t].attempt \in Nat
      BY <1>2 DEF RowsOK, Locals
    <3>2. CASE failJob(local[t].job)  BY <1>2, <3>2, FailType DEF RowsOK
    <3>3. CASE \E s \in {"killed", "completed", "retrying"}, n \in Nat, next \in BOOLEAN :
                 UpdateJobState(local[t].job, s, n, next)
      BY <1>2, <3>3, UpdateType DEF RowsOK, RowStates, States
    <3> QED  BY <1>5, <3>1, <3>2, <3>3 DEF WriteOutcome
  <2>2. TasksOK'  BY <1>5, ReturnType DEF WriteOutcome, TasksOK
  <2> QED  BY <1>5, <2>1, <2>2 DEF WriteOutcome, AttemptsOK, ListsOK, BoundsOK, loop, outside
<1> QED  BY <1>3, <1>4, <1>5 DEF FinalizeStep

\* A poll hands its row to finalizeJobResult.
LEMMA FinalizeNew ==
    ASSUME TypeOK, Polls, NEW r \in pollList, NEW result \in Results, Finalize(r, result)
    PROVE  /\ TasksOK' /\ pollList' = pollList \ {r} /\ phase = "polling"
           /\ pc[Poller] = "idle" /\ pc'[Poller] = "finish"
           /\ local'[Poller].job = r.job /\ local'[Poller].exec = r.exec
           /\ local'[Poller].row = r.row /\ local'[Poller].result = result
           /\ local'[Poller].seen = r.seen
           /\ \A t \in Tasks : t # Poller => pc'[t] = pc[t] /\ local'[t] = local[t]
           /\ \A d \in Dispatches : pc'[d] = pc[d] /\ local'[d] = local[d]
<1> DEFINE new == [r EXCEPT !.result = result]
<1>1. r \in Locals /\ r.job \in Jobs  BY DEF TypeOK, Polls, Polled, PolledOf
<1>2. /\ new \in Locals /\ new.job = r.job /\ new.exec = r.exec /\ new.row = r.row
      /\ new.result = result /\ new.seen = r.seen
  BY <1>1 DEF Locals
<1>3. /\ pc' = [pc EXCEPT ![Poller] = "finish"] /\ local' = [local EXCEPT ![Poller] = new]
      /\ pollList' = pollList \ {r} /\ phase = "polling" /\ pc[Poller] = "idle"
  BY DEF Finalize
<1> HIDE DEF new
<1>4. TasksOK'  BY <1>1, <1>2, <1>3, Identity, TypeParts DEF TasksOK, Labels
<1> QED  BY <1>2, <1>3, <1>4, Identity DEF TypeOK

\* What is left of an execution after a report or a kill.
LEMMA BeliedStates ==
    /\ \A e \in ExecStates : /\ Belied(e) \in ExecStates
                             /\ e # "none" => Belied(e) \in Over
                             /\ Belied(e) = "none" => e = "none"
    /\ \A e \in ExecStates : \A f \in AfterKill(e) :
         /\ f \in ExecStates \ {"none"} /\ e # "none" /\ (e \in Over => f \in Over)
         /\ f \in {"running", "stopping"} => e \in {"running", "stopping"}
<1>1. ASSUME NEW e \in ExecStates
      PROVE  Belied(e) \in ExecStates /\ (e # "none" => Belied(e) \in Over)
             /\ (Belied(e) = "none" => e = "none")
  BY DEF Belied, ExecStates, Ended, Over
<1>2. ASSUME NEW e \in ExecStates, NEW f \in AfterKill(e)
      PROVE  /\ f \in ExecStates \ {"none"} /\ e # "none" /\ (e \in Over => f \in Over)
             /\ f \in {"running", "stopping"} => e \in {"running", "stopping"}
  <2>1. CASE e = "running"  BY <1>2, <2>1 DEF AfterKill, ExecStates, Over, Ended
  <2>2. CASE e \in {"success", "failure", "missed"}
    BY <1>2, <2>2 DEF AfterKill, ExecStates, Over, Ended
  <2>3. CASE e \notin {"running", "success", "failure", "missed"}
    BY <1>2, <2>3 DEF AfterKill
  <2> QED  BY <2>1, <2>2, <2>3
<1> QED  BY <1>1, <1>2

\* What a poll may report is a result.
LEMMA ReportResults ==
    ASSUME NEW r
    PROVE  (exec[r.exec] \in Ended => Reported(r) \subseteq Results) /\ Mistaken(r) \subseteq Results
  BY DEF Reported, Mistaken, Results, Ended

\* The loop.
LEMMA LoopType == TypeOK /\ Finals /\ Polls /\ LoopStep => TypeOK'
<1> SUFFICES ASSUME TypeOK, Finals, Polls, LoopStep PROVE TypeOK'  OBVIOUS
<1> USE TypeParts, TypePartsNext
<1>1. CASE UNCHANGED tables /\ UNCHANGED tasks /\ ListsOK' /\ BoundsOK'
           /\ exec' \in [Dispatches -> ExecStates]
  BY <1>1 DEF RowsOK, AttemptsOK, TasksOK, tables, rows, tasks
<1>2. CASE Tick
  <2>1. PICK S \in SUBSET ClaimPendingJobs : TickClaims(S)  BY <1>2 DEF Tick
  <2>2. S \subseteq Jobs  BY DEF ClaimPendingJobs
  <2>3. TasksOK'  BY <2>1, <2>2, ClaimStep DEF TasksOK
  <2>4. UNCHANGED <<tables, killList, pollList, expired, todo, outside>> /\ phase' = "kill"
    BY <2>1 DEF TickClaims
  <2>5. reclaims' = reclaims \/ (reclaims < MaxReclaims /\ reclaims' = reclaims + 1)
    BY <2>1 DEF TickClaims
  <2>6. BoundsOK'  BY <2>4, <2>5, QueueAssumption DEF BoundsOK, outside
  <2> QED  BY <2>3, <2>4, <2>6 DEF RowsOK, AttemptsOK, ListsOK, tables, rows, outside
<1>3. CASE ListKills
  BY <1>1, <1>3 DEF ListKills, ListKillRequestedAsyncJobIDs, ListsOK, BoundsOK, AttemptsOK, outside
<1>4. CASE ListPolls
  <2>1. pollList' \subseteq Locals  BY <1>4, ListedRow DEF ListPolls
  <2> QED  BY <1>1, <1>4, <2>1 DEF ListPolls, ListsOK, BoundsOK, AttemptsOK, outside
<1>5. CASE EndRound
  BY <1>1, <1>5 DEF EndRound, ListsOK, BoundsOK, AttemptsOK, outside
<1>6. ASSUME NEW j \in Jobs, KillOne(j) PROVE TypeOK'
  <2>1. exec' \in [Dispatches -> ExecStates]
    <3>1. CASE UNCHANGED exec  BY <3>1 DEF AttemptsOK
    <3>2. CASE /\ handle[j] # NoOne
               /\ \E e \in AfterKill(exec[handle[j]]) : exec' = [exec EXCEPT ![handle[j]] = e]
      <4>1. exec[handle[j]] \in ExecStates  BY <3>2 DEF AttemptsOK, RowsOK
      <4> QED  BY <3>2, <4>1, BeliedStates DEF AttemptsOK
    <3> QED  BY <1>6, <3>1, <3>2 DEF KillOne
  <2> QED  BY <1>1, <1>6, <2>1 DEF KillOne, ListsOK, BoundsOK
<1>7. ASSUME NEW r \in pollList, PollNothing(r) PROVE TypeOK'
  BY <1>1, <1>7 DEF PollNothing, ListsOK, BoundsOK, AttemptsOK, outside
<1>8. ASSUME NEW r \in pollList, PollTerminal(r) \/ PollMistaken(r) PROVE TypeOK'
  <2>1. \E result \in Results : Finalize(r, result)
    BY <1>8, ReportResults DEF PollTerminal, PollMistaken
  <2>2. TasksOK' /\ pollList' = pollList \ {r}  BY <2>1, FinalizeNew
  <2>3. exec' \in [Dispatches -> ExecStates]
    BY <1>8, BeliedStates DEF PollTerminal, PollMistaken, AttemptsOK, outside
  <2>4. UNCHANGED <<tables, phase, killList, reclaims, expired, todo, requests, crashes>>
    BY <1>8 DEF PollTerminal, PollMistaken, outside
  <2> QED  BY <2>2, <2>3, <2>4 DEF RowsOK, AttemptsOK, ListsOK, BoundsOK, tables, rows
<1>9. CASE FinalizeStep(Poller)  BY <1>9, FinalizeType, Identity
<1> QED  BY <1>2, <1>3, <1>4, <1>5, <1>6, <1>7, <1>8, <1>9 DEF LoopStep

\* The dispatches.
LEMMA DispatchType ==
    ASSUME TypeOK, Finals, NEW d \in Dispatches, DispatchStep(d) \/ GiveUp(d)
    PROVE  TypeOK'
<1> USE TypeParts, TypePartsNext
<1>a. d \in Tasks /\ d # Poller  BY Identity
<1>b. CASE FinalizeStep(d)  BY <1>a, <1>b, FinalizeType
<1>c. CASE ~FinalizeStep(d)
  <2>1. pc[d] \in {"claimed", "start", "attempt", "starting", "blocking", "accepted"}
    BY <1>c DEF DispatchStep, CheckConcurrency, FailUnknown, WriteRunning, WriteAttempt, Start,
                StartReturned, GiveUp, SaveHandle, SaveHandleFails
  <2>2. local[d] \in Locals /\ local[d].job \in Jobs /\ local[d].attempt \in Nat
    BY <1>a, <2>1 DEF TasksOK, Locals
  <2>3. CASE CheckConcurrency(d)
    <3>1. TasksOK'
      BY <1>a, <2>2, <2>3, ReturnType, GotoType DEF CheckConcurrency, TasksOK, Labels
    <3> QED  BY <2>3, <3>1 DEF CheckConcurrency, RowsOK, AttemptsOK, ListsOK, BoundsOK,
                               tables, rows, loop, outside
  <2>4. CASE FailUnknown(d)
    <3>1. TasksOK'  BY <1>a, <2>4, ReturnType DEF FailUnknown, TasksOK
    <3>2. RowsOK'  BY <2>2, <2>4, FailType DEF FailUnknown, RowsOK
    <3> QED  BY <2>4, <3>1, <3>2 DEF FailUnknown, AttemptsOK, ListsOK, BoundsOK, loop, outside
  <2>5. CASE WriteRunning(d)
    <3>1. local[d].attempt + 1 \in Nat  BY <2>2
    <3>2. /\ [local[d] EXCEPT !.attempt = local[d].attempt + 1] \in Locals
          /\ [local[d] EXCEPT !.attempt = local[d].attempt + 1].job = local[d].job
      BY <2>2, <3>1 DEF Locals
    <3>3. local' = [local EXCEPT ![d] = [local[d] EXCEPT !.attempt = local[d].attempt + 1]]
      BY <2>5, <1>a DEF WriteRunning, TasksOK
    <3>4. TasksOK'
      BY <1>a, <2>2, <2>5, <3>2, <3>3, GotoType DEF WriteRunning, TasksOK, Labels
    <3>5. RowsOK'
      BY <2>2, <2>5, <3>1, UpdateType DEF WriteRunning, RowsOK, RowStates, States
    <3> QED  BY <2>5, <3>4, <3>5 DEF WriteRunning, AttemptsOK, ListsOK, BoundsOK, loop, outside
  <2>6. CASE WriteAttempt(d)
    <3>1. TasksOK'  BY <1>a, <2>2, <2>6, GotoType DEF WriteAttempt, TasksOK, Labels
    <3>2. AttemptsOK'
      BY <2>2, <2>6 DEF WriteAttempt, CreateJobAttempt, AttemptsOK, outside
    <3> QED  BY <2>6, <3>1, <3>2 DEF WriteAttempt, RowsOK, ListsOK, BoundsOK, rows, loop, outside
  <2>7. CASE Start(d)
    <3>1. AttemptsOK'  BY <2>7 DEF Start, AttemptsOK, ExecStates, Ended, tables
    <3>2. PICK l \in {"finish", "blocking", "accepted"} : Goto(d, l)  BY <2>7 DEF Start
    <3>3. local' = local \/ local' = [local EXCEPT ![d].result = "failure"]  BY <2>7 DEF Start
    <3>4. local' \in [Tasks -> Locals] /\ \A t \in Tasks : local'[t].job = local[t].job
      BY <1>a, <2>2, <3>3 DEF TasksOK, Locals, Results
    <3>5. TasksOK'  BY <1>a, <2>2, <3>2, <3>4, GotoType DEF TasksOK, Labels
    <3> QED  BY <2>7, <3>1, <3>5 DEF Start, RowsOK, ListsOK, BoundsOK, tables, rows, loop
  <2>8. CASE StartReturned(d)
    <3>1. local' \in [Tasks -> Locals] /\ \A t \in Tasks : local'[t].job = local[t].job
      BY <1>a, <2>2, <2>8 DEF StartReturned, TasksOK, Locals, Results
    <3>2. TasksOK'  BY <1>a, <2>2, <2>8, <3>1, GotoType DEF StartReturned, TasksOK, Labels
    <3> QED  BY <2>8, <3>2 DEF StartReturned, RowsOK, AttemptsOK, ListsOK, BoundsOK, tables, rows,
                               loop, outside
  <2>9. CASE SaveHandle(d)
    <3>1. TasksOK'  BY <1>a, <2>9, ReturnType DEF SaveHandle, TasksOK
    <3>2. RowsOK'  BY <2>2, <2>9 DEF SaveHandle, RowsOK
    <3> QED  BY <2>9, <3>1, <3>2 DEF SaveHandle, AttemptsOK, ListsOK, BoundsOK, loop, outside
  <2>10. CASE SaveHandleFails(d)
    <3>1. TasksOK'  BY <1>a, <2>10, ReturnType DEF SaveHandleFails, TasksOK
    <3>2. RowsOK'  BY <2>2, <2>10, FailType DEF SaveHandleFails, RowsOK
    <3>3. AttemptsOK'  BY <2>10, BeliedStates DEF SaveHandleFails, AttemptsOK
    <3> QED  BY <2>10, <3>1, <3>2, <3>3 DEF SaveHandleFails, ListsOK, BoundsOK, loop
  <2>11. CASE GiveUp(d)
    <3>1. local' \in [Tasks -> Locals] /\ \A t \in Tasks : local'[t].job = local[t].job
      BY <1>a, <2>2, <2>11 DEF GiveUp, TasksOK, Locals, Results
    <3>2. TasksOK'  BY <1>a, <2>2, <2>11, <3>1, GotoType DEF GiveUp, TasksOK, Labels
    <3>3. AttemptsOK'  BY <2>11, BeliedStates DEF GiveUp, AttemptsOK, tables
    <3> QED  BY <2>11, <3>2, <3>3 DEF GiveUp, RowsOK, ListsOK, BoundsOK, tables, rows, loop
  <2> QED  BY <1>c, <2>3, <2>4, <2>5, <2>6, <2>7, <2>8, <2>9, <2>10, <2>11 DEF DispatchStep
<1> QED  BY <1>b, <1>c

\* Every step keeps the types.
LEMMA NextType == IInv /\ [Next]_vars => TypeOK'
<1> SUFFICES ASSUME IInv, [Next]_vars PROVE TypeOK'  OBVIOUS
<1> USE TypeParts, TypePartsNext
<1>a. TypeOK /\ Finals /\ Polls  BY DEF IInv, Core
<1>1. CASE ApiStep  BY <1>1, <1>a, ApiType
<1>2. CASE LoopStep  BY <1>2, <1>a, LoopType
<1>3. CASE \E d \in Dispatches : DispatchStep(d) \/ GiveUp(d)  BY <1>3, <1>a, DispatchType
<1>4. ASSUME NEW d \in Dispatches, ExecEnds(d) PROVE TypeOK'
  <2>1. AttemptsOK'  BY <1>4, <1>a DEF ExecEnds, AttemptsOK, ExecStates, Ended, tables
  <2> QED  BY <1>4, <1>a, <2>1 DEF ExecEnds, RowsOK, TasksOK, ListsOK, BoundsOK, tables, rows,
                             tasks, loop
<1>5. CASE ListExpired
  BY <1>5, <1>a, QueueAssumption DEF ListExpired, ListExpiredPendingJobs, RowsOK, AttemptsOK,
      TasksOK, ListsOK, BoundsOK, tables, rows, tasks, loop, outside
<1>6. ASSUME NEW j \in Jobs, Expire(j) PROVE TypeOK'
  <2>1. RowsOK'  BY <1>6, <1>a DEF Expire, CancelRow, RowsOK, RowStates, States
  <2> QED  BY <1>6, <1>a, <2>1 DEF Expire, AttemptsOK, TasksOK, ListsOK, BoundsOK, tasks, loop,
                             outside
<1>7. CASE Crash
  <2>1. TasksOK'  BY <1>7, <1>a, BlankType DEF Crash, TasksOK, Labels
  <2>2. BoundsOK'  BY <1>7, <1>a, QueueAssumption DEF Crash, BoundsOK
  <2>3. ListsOK'  BY <1>7 DEF Crash, ListsOK, NothingToDo, RowStates
  <2> QED  BY <1>7, <1>a, <2>1, <2>2, <2>3 DEF Crash, RowsOK, AttemptsOK, tables, rows
<1>8. CASE UNCHANGED vars
  BY <1>8, <1>a DEF vars, RowsOK, AttemptsOK, TasksOK, ListsOK, BoundsOK, tables, rows, tasks,
      loop, outside
<1> QED  BY <1>1, <1>2, <1>3, <1>4, <1>5, <1>6, <1>7, <1>8 DEF Next

-----------------------------------------------------------------------------
(* One dispatch at a time                                                  *)

\* No new work on a job, no new claim, and no row to claim that was not one before, unless
\* nobody works on it.
Shrinks ==
    /\ \A d \in Dispatches, j \in Jobs : WorkedBy(d, j)' => WorkedBy(d, j)
    /\ \A d \in Dispatches : pc'[d] \in Undecided =>
         pc[d] \in Undecided /\ local'[d].job = local[d].job
    /\ \A j \in Jobs : state'[j] \in Unstarted =>
         state[j] \in Unstarted \/ \A e \in Dispatches : ~WorkedBy(e, j)'

Keeps == Shrinks /\ OwnRows' /\ Cleared'

\* A step of that kind keeps dispatches apart.
LEMMA KeepsSole ==
    ASSUME IInv, Sole, Keeps
    PROVE  Sole'
<1>0. Shrinks  BY DEF Keeps
<1>1. Unique'  BY <1>0 DEF Sole, Unique, Shrinks
<1>2. Claims'
  <2> SUFFICES ASSUME NEW d \in Dispatches, pc'[d] \in Undecided
               PROVE  /\ \A e \in Dispatches : ~WorkedBy(e, local[d].job)'
                      /\ \A e \in Dispatches :
                           pc'[e] \in Undecided /\ local'[e].job = local'[d].job => e = d
    BY DEF Claims, Undecided
  <2>1. pc[d] \in Undecided /\ local'[d].job = local[d].job  BY <1>0 DEF Shrinks
  <2>2. local[d].job \in Jobs  BY <2>1, Identity DEF IInv, TypeOK, Undecided
  <2>3. ASSUME NEW e \in Dispatches PROVE ~WorkedBy(e, local[d].job)'
    <3> DEFINE j == local[d].job
    <3>1. ~WorkedBy(e, j)  BY <2>1 DEF Sole, Claims
    <3>2. WorkedBy(e, local[d].job)' => WorkedBy(e, j)  BY <1>0, <2>1, <2>2 DEF Shrinks, WorkedBy
    <3> QED  BY <3>1, <3>2
  <2>4. ASSUME NEW e \in Dispatches, pc'[e] \in Undecided, local'[e].job = local'[d].job
        PROVE  e = d
    BY <1>0, <2>1, <2>4 DEF Shrinks, Sole, Claims
  <2> QED  BY <2>3, <2>4
<1>3. Idle'  BY <1>0 DEF Sole, Idle, Shrinks
<1> QED  BY <1>1, <1>2, <1>3 DEF Keeps, Sole

\* What the invariant is about, apart from the states of the rows.
books == <<attemptRow, handle, exec, pc, local, pollList>>

\* Steps that leave the books alone and make no row claimable.
LEMMA QuietStep ==
    ASSUME IInv, UNCHANGED books, phase' = phase \/ (pollList = {} /\ pc[Poller] = "idle"),
           \A j \in Jobs : state'[j] \in Unstarted => state[j] \in Unstarted
    PROVE  Core' /\ (Sole => Keeps)
<1>1. Polled' = Polled  BY DEF Polled, books
<1>2. \A d \in Dispatches, j \in Jobs : WorkedBy(d, j)' <=> WorkedBy(d, j)
  BY <1>1 DEF WorkedBy, books
<1>3. Shrinks  BY <1>2 DEF Shrinks, books
<1>4. Goroutines' /\ Finals' /\ Handles'  BY DEF IInv, Core, Goroutines, Finals, Handles, books
<1>5. Polls'  BY <1>1 DEF IInv, Core, Polls, PolledOf, books
<1>6. Sole => OwnRows' /\ Cleared'  BY <1>1 DEF Sole, OwnRows, Cleared, books
<1> QED  BY <1>3, <1>4, <1>5, <1>6 DEF Core, Keeps

\* The requests of the API leave the books alone.
LEMMA ApiQuiet ==
    ASSUME TypeOK, ApiStep
    PROVE  /\ UNCHANGED books /\ phase' = phase /\ reclaims' = reclaims
           /\ \A j \in Jobs : state'[j] \in Unstarted => state[j] \in Unstarted
<1> USE DEF books, loop, tasks
<1>1. ASSUME NEW j \in Jobs, EnqueueJob(j) \/ CancelRead(j)
      PROVE  UNCHANGED books /\ phase' = phase /\ reclaims' = reclaims
             /\ \A i \in Jobs : state'[i] \in Unstarted => state[i] \in Unstarted
  BY <1>1 DEF EnqueueJob, CancelRead, CreateJob, RequestedScheduledAt, tables, rows
<1>2. ASSUME NEW S \in SUBSET Jobs, BatchEnqueueJobs(S)
      PROVE  UNCHANGED books /\ phase' = phase /\ reclaims' = reclaims
             /\ \A i \in Jobs : state'[i] \in Unstarted => state[i] \in Unstarted
  BY <1>2 DEF BatchEnqueueJobs, CreateJob, RequestedScheduledAt
<1>3. ASSUME NEW orig \in Jobs, NEW j \in Jobs, ReplayJob(orig, j)
      PROVE  UNCHANGED books /\ phase' = phase /\ reclaims' = reclaims
             /\ \A i \in Jobs : state'[i] \in Unstarted => state[i] \in Unstarted
  BY <1>3 DEF ReplayJob, CreateReplayJob, Unstarted, TypeOK
<1>4. CASE CancelWrite
  <2>1. PICK s \in {"cancelled", "kill_requested"} :
          state' = [state EXCEPT ![todo.job] = s] /\ UNCHANGED handle
    BY <1>4 DEF CancelWrite, CancelRow, UpdateJobState
  <2> QED  BY <1>4, <2>1 DEF CancelWrite, TypeOK, Unstarted, outside
<1>5. CASE UpdateQueue
  BY <1>5 DEF UpdateQueue, rows
<1> QED  BY <1>1, <1>2, <1>3, <1>4, <1>5 DEF ApiStep

\* An execution changes by itself, or by a kill; one that is over stays so.
LEMMA ExecStep ==
    ASSUME IInv, NEW d \in Dispatches, NEW s \in ExecStates, exec' = [exec EXCEPT ![d] = s],
           exec[d] # "none", s # "none", exec[d] \in Over => s \in Over,
           s \in {"running", "stopping"} => exec[d] \in {"running", "stopping"},
           UNCHANGED <<attemptRow, handle, pc, local, pollList, phase, state>>
    PROVE  Core' /\ (Sole => Keeps)
<1>1. Polled' = Polled  BY DEF Polled
<1>2. exec \in [Dispatches -> ExecStates]  BY DEF IInv, TypeOK
<1>3. \A e \in Dispatches : /\ exec'[e] = exec[e] \/ e = d
                            /\ exec'[e] = "none" <=> exec[e] = "none"
                            /\ exec[e] \in Over => exec'[e] \in Over
                            /\ exec'[e] \in {"running", "stopping"} =>
                                 exec[e] \in {"running", "stopping"}
  BY <1>2
<1>4. \A e \in Dispatches, j \in Jobs : WorkedBy(e, j)' => WorkedBy(e, j)
  BY <1>1, <1>3 DEF WorkedBy
<1>5. Shrinks  BY <1>4 DEF Shrinks
<1>6. Goroutines'  BY <1>3 DEF IInv, Core, Goroutines
<1>7. Finals'  BY <1>3 DEF IInv, Core, Finals, Over, Ended
<1>8. Polls'  BY <1>1, <1>3 DEF IInv, Core, Polls, PolledOf
<1>9. Handles'
  <2>1. \A j \in Jobs : handle[j] # NoOne => handle[j] \in Dispatches  BY DEF IInv, TypeOK
  <2> QED  BY <1>3, <2>1 DEF IInv, Core, Handles
<1>10. Sole => OwnRows' /\ Cleared'  BY <1>1 DEF Sole, OwnRows, Cleared
<1> QED  BY <1>5, <1>6, <1>7, <1>8, <1>9, <1>10 DEF Core, Keeps

\* A crash ends the goroutines and forgets the lists.
LEMMA CrashStep ==
    ASSUME IInv, Crash
    PROVE  Core' /\ (Sole => Keeps)
<1>1. /\ UNCHANGED <<attemptRow, handle, exec, state>> /\ pollList' = {} /\ phase' = "tick"
      /\ pc'[Poller] = "idle"
      /\ \A d \in Dispatches : /\ pc[d] = "idle" => pc'[d] = "idle"
                               /\ pc[d] # "idle" => pc'[d] = "done"
  BY Identity DEF Crash, tables, rows
<1>2. Polled' = {}  BY <1>1 DEF Polled
<1>3. /\ \A d \in Dispatches : pc'[d] \in {"idle", "done"}
      /\ \A t \in Tasks : pc'[t] \in {"idle", "done"}
  BY <1>1 DEF Tasks
<1>4. \A d \in Dispatches, j \in Jobs : WorkedBy(d, j)' => WorkedBy(d, j)
  BY <1>1, <1>2, <1>3 DEF WorkedBy, Working
<1>5. Shrinks  BY <1>1, <1>3, <1>4 DEF Shrinks, Undecided
<1>6. Goroutines'  BY <1>1 DEF IInv, Core, Goroutines, Working
<1>7. Finals'  BY <1>3 DEF Finals
<1>8. Polls'  BY <1>1, <1>2 DEF Polls
<1>9. Handles'
  <2>1. \A j \in Jobs : handle[j] # NoOne => handle[j] \in Dispatches  BY DEF IInv, TypeOK
  <2> QED  BY <1>1, <2>1 DEF IInv, Core, Handles
<1>10. OwnRows' /\ Cleared'  BY <1>2, <1>3 DEF OwnRows, Cleared
<1> QED  BY <1>5, <1>6, <1>7, <1>8, <1>9, <1>10 DEF Core, Keeps

\* A claim takes rows nobody works on; they are claimed once, unless it claims one again.
LEMMA TickStep ==
    ASSUME IInv, Tick
    PROVE  Core' /\ (Sole /\ reclaims' = reclaims => Sole')
<1>1. PICK S \in SUBSET ClaimPendingJobs : TickClaims(S)  BY DEF Tick
<1>2. /\ UNCHANGED <<attemptRow, handle, exec, state, pollList>>
      /\ phase = "tick" /\ phase' = "kill"
  BY <1>1 DEF TickClaims, tables, rows, outside
<1>3. \A t \in Tasks :
        \/ pc'[t] = pc[t] /\ local'[t] = local[t]
        \/ /\ t \in Dispatches /\ pc[t] = "idle" /\ pc'[t] = "claimed"
           /\ local'[t].job \in S /\ local'[t].row = t /\ local'[t].exec = t
           /\ \A u \in Dispatches : pc'[u] \in Undecided /\ local'[u].job = local'[t].job =>
                u = t \/ (pc[u] \in Undecided /\ local'[u] = local[u])
  BY <1>1, ClaimStep DEF IInv
<1>4. pc'[Poller] = pc[Poller] /\ local'[Poller] = local[Poller]
  BY <1>3, Identity, QueueAssumption
<1>5. Polled' = Polled  BY <1>2, <1>4 DEF Polled
<1>6. \A d \in Dispatches : \/ pc'[d] = pc[d] /\ local'[d] = local[d]
                            \/ /\ pc[d] = "idle" /\ pc'[d] = "claimed"
                               /\ local'[d].job \in S /\ local'[d].row = d /\ local'[d].exec = d
  BY <1>3, Identity
<1>7. \A d \in Dispatches, j \in Jobs : WorkedBy(d, j)' => WorkedBy(d, j)
  BY <1>2, <1>5, <1>6 DEF WorkedBy, Working
<1>8. Goroutines'  BY <1>2, <1>6 DEF IInv, Core, Goroutines, Working
<1>9. \A t \in Tasks : pc'[t] \in {"finish", "clear", "outcome"} =>
                         pc'[t] = pc[t] /\ local'[t] = local[t]
  BY <1>3
<1>10. Finals'  BY <1>2, <1>9 DEF IInv, Core, Finals, Over, Ended
<1>11. \A d \in Dispatches : pc[d] = "done" => pc'[d] = "done"  BY <1>6
<1>12. Polls'  BY <1>2, <1>4, <1>5, <1>11 DEF IInv, Core, Polls, PolledOf
<1>13. Handles'
  <2>2. \A j \in Jobs : handle[j] # NoOne => handle[j] \in Dispatches  BY DEF IInv, TypeOK
  <2> QED  BY <1>2, <1>11, <2>2 DEF IInv, Core, Handles
<1>14. ASSUME Sole, reclaims' = reclaims PROVE Sole'
  <2>1. Unique'  BY <1>7, <1>14 DEF Sole, Unique
  <2>2. Idle'  BY <1>2, <1>7, <1>14 DEF Sole, Idle
  <2>3. OwnRows' /\ Cleared'  BY <1>2, <1>5, <1>9, <1>14 DEF Sole, OwnRows, Cleared
  <2>a. \A d \in Dispatches : pc[d] \in Undecided => local[d].job \notin S
    <3>1. reclaims \in Nat  BY QueueAssumption DEF IInv, TypeOK
    <3>2. ~ClaimedAgain(S)
      <4> SUFFICES ASSUME ClaimedAgain(S) PROVE FALSE  OBVIOUS
      <4>1. reclaims' = reclaims + 1  BY <1>1 DEF TickClaims
      <4> QED  BY <1>14, <3>1, <4>1
    <3> QED  BY <3>2 DEF ClaimedAgain
  <2>b. \A d \in Dispatches : pc'[d] \in Undecided =>
          \/ pc[d] \in Undecided /\ local'[d] = local[d] /\ local[d].job \notin S
          \/ local'[d].job \in S /\ pc[d] = "idle"
    BY <1>6, <2>a
  <2>4. Claims'
    <3> SUFFICES ASSUME NEW d \in Dispatches, pc'[d] \in Undecided
                 PROVE  /\ \A e \in Dispatches : ~WorkedBy(e, local[d].job)'
                        /\ \A e \in Dispatches :
                             pc'[e] \in Undecided /\ local'[e].job = local'[d].job => e = d
      BY DEF Claims, Undecided
    <3> DEFINE j == local'[d].job
    <3>1. \A u \in Dispatches : pc'[u] \in Undecided /\ local'[u].job = j => u = d
      <4> SUFFICES ASSUME NEW u \in Dispatches, pc'[u] \in Undecided, local'[u].job = j
                   PROVE  u = d
        OBVIOUS
      <4>1. CASE j \in S
        <5>1. pc[d] = "idle" /\ pc[u] = "idle"  BY <2>b, <4>1
        <5>2. pc[u] \notin Undecided /\ d \in Tasks /\ pc'[d] # pc[d]
          BY <5>1, Identity DEF Undecided
        <5> QED  BY <1>3, <5>2
      <4>2. CASE j \notin S
        <5>1. /\ pc[d] \in Undecided /\ local'[d] = local[d]
              /\ pc[u] \in Undecided /\ local'[u] = local[u]
          BY <2>b, <4>2
        <5> QED  BY <1>14, <5>1 DEF Sole, Claims
      <4> QED  BY <4>1, <4>2
    <3>2. j \in Jobs /\ \A e \in Dispatches : ~WorkedBy(e, j)
      <4>1. CASE j \in S
        <5>1. j \in Jobs /\ state[j] \in Unstarted  BY <4>1 DEF ClaimPendingJobs, Unstarted
        <5> QED  BY <1>14, <5>1 DEF Sole, Idle
      <4>2. CASE j \notin S
        <5>1. pc[d] \in Undecided /\ local'[d] = local[d]  BY <2>b, <4>2
        <5>2. j \in Jobs  BY <5>1, Identity DEF IInv, TypeOK, Undecided
        <5> QED  BY <1>14, <5>1, <5>2 DEF Sole, Claims
      <4> QED  BY <4>1, <4>2
    <3>3. ASSUME NEW e \in Dispatches PROVE ~WorkedBy(e, local[d].job)'
      <4>2. WorkedBy(e, local[d].job)' => WorkedBy(e, j)
        BY <1>2, <1>5, <1>6 DEF WorkedBy, Working
      <4> QED  BY <3>2, <4>2
    <3> QED  BY <3>1, <3>3
  <2> QED  BY <2>1, <2>2, <2>3, <2>4 DEF Sole
<1> QED  BY <1>8, <1>10, <1>12, <1>13, <1>14 DEF Core

\* The rows that are listed have a handle: their dispatch has returned.
LEMMA ListPollsStep ==
    ASSUME IInv, ListPolls
    PROVE  Core' /\ (Sole => Keeps)
<1>1. /\ UNCHANGED <<attemptRow, handle, exec, pc, local, state>>
      /\ phase' = "polling" /\ pc[Poller] = "idle"
  BY DEF ListPolls, tables, rows, tasks, outside, IInv, Core, Polls
<1>2. PICK latest \in [ActiveAsyncJobs -> Dispatches] :
        /\ \A j \in ActiveAsyncJobs : latest[j] \in LatestOpen(j)
        /\ pollList' = ListActiveAsyncJobs(latest)
  BY DEF ListPolls
<1>3. Polled' = pollList'  BY <1>1 DEF Polled
<1>4. ASSUME NEW r \in pollList'
      PROVE  /\ r.exec = handle[r.job] /\ r.row \in OpenAttempts(r.job)
             /\ r = ListedAs(r, latest[r.job]) /\ PolledOf(r)
  <2>1. /\ r.job \in Jobs /\ r.exec = handle[r.job] /\ r.exec \in Dispatches
        /\ r.row \in OpenAttempts(r.job) /\ r = ListedAs(r, latest[r.job])
    BY <1>2, <1>4, ListedRow DEF IInv
  <2>2. handle[r.job] # NoOne  BY <2>1, Identity
  <2>3. attemptRow[r.exec].job = r.job /\ pc[r.exec] = "done" /\ exec[r.exec] # "none"
    BY <2>1, <2>2 DEF IInv, Core, Handles
  <2>4. r.row \in Dispatches /\ attemptRow[r.row].job = r.job  BY <2>1 DEF OpenAttempts
  <2> QED  BY <2>1, <2>3, <2>4 DEF PolledOf
<1>5. ASSUME NEW r \in pollList', NEW q \in pollList', r.job = q.job PROVE r = q
  <2>1. r = ListedAs(r, latest[r.job]) /\ q = ListedAs(q, latest[q.job])  BY <1>4
  <2>2. ListedAs(r, latest[r.job]) = ListedAs(q, latest[q.job])  BY <1>5 DEF ListedAs
  <2> QED  BY <2>1, <2>2
<1>6. \A d \in Dispatches, j \in Jobs : WorkedBy(d, j)' => WorkedBy(d, j)
  BY <1>1, <1>3, <1>4 DEF WorkedBy
<1>7. Shrinks  BY <1>1, <1>6 DEF Shrinks
<1>8. Polls'
  <2>1. \A r \in Polled' : PolledOf(r)'  BY <1>1, <1>3, <1>4 DEF PolledOf
  <2> QED  BY <1>1, <1>5, <2>1 DEF IInv, Core, Polls
<1>9. Goroutines' /\ Finals' /\ Handles'
  BY <1>1 DEF IInv, Core, Goroutines, Finals, Handles
<1>10. ASSUME Sole PROVE OwnRows' /\ Cleared'
  <2>1. ASSUME NEW r \in pollList' PROVE r.row = r.exec
    <3>1. WorkedBy(r.row, r.job) /\ WorkedBy(r.exec, r.job)
      BY <1>4 DEF WorkedBy, OpenAttempts
    <3> QED  BY <1>4, <1>10, <3>1 DEF Sole, Unique, PolledOf
  <2> QED  BY <1>1, <1>3, <1>10, <2>1 DEF Sole, OwnRows, Cleared
<1> QED  BY <1>7, <1>8, <1>9, <1>10 DEF Core, Keeps

\* A poll that says nothing drops its row.
LEMMA PollNothingStep ==
    ASSUME IInv, NEW r \in pollList, PollNothing(r)
    PROVE  Core' /\ (Sole => Keeps)
<1>1. /\ UNCHANGED <<attemptRow, handle, exec, state, phase, pc, local>>
      /\ phase = "polling" /\ pc[Poller] = "idle" /\ pollList' = pollList \ {r}
  BY DEF PollNothing, tables, rows, outside, tasks
<1>2. Polled = pollList /\ Polled' = pollList'  BY <1>1 DEF Polled
<1>3. \A d \in Dispatches, j \in Jobs : WorkedBy(d, j)' => WorkedBy(d, j)
  BY <1>1, <1>2 DEF WorkedBy
<1>4. Shrinks  BY <1>1, <1>3 DEF Shrinks
<1>5. Polls'  BY <1>1, <1>2 DEF IInv, Core, Polls, PolledOf
<1>6. Goroutines' /\ Finals' /\ Handles'
  BY <1>1 DEF IInv, Core, Goroutines, Finals, Handles
<1>7. Sole => OwnRows' /\ Cleared'  BY <1>1, <1>2 DEF Sole, OwnRows, Cleared
<1> QED  BY <1>4, <1>5, <1>6, <1>7 DEF Core, Keeps

\* One that reports the end of the execution, rightly or not, takes it.
LEMMA PollStep ==
    ASSUME IInv, NEW r \in pollList, PollTerminal(r) \/ PollMistaken(r)
    PROVE  Core' /\ (Sole => Keeps)
<1>0. PICK result \in Results : Finalize(r, result)
  BY ReportResults DEF PollTerminal, PollMistaken
<1>1. UNCHANGED <<attemptRow, handle, state, phase>>
  BY DEF PollTerminal, PollMistaken, tables, rows
<1>2. /\ phase = "polling" /\ pc[Poller] = "idle" /\ pollList' = pollList \ {r}
      /\ pc'[Poller] = "finish"
      /\ local'[Poller].job = r.job /\ local'[Poller].exec = r.exec
      /\ local'[Poller].row = r.row
      /\ \A t \in Tasks : t # Poller => pc'[t] = pc[t] /\ local'[t] = local[t]
      /\ \A d \in Dispatches : pc'[d] = pc[d] /\ local'[d] = local[d]
  BY <1>0, FinalizeNew DEF IInv, Core
<1>3. Polled = pollList /\ Polled' = pollList' \cup {local'[Poller]}  BY <1>2 DEF Polled
<1>4. PolledOf(r)  BY <1>3 DEF IInv, Core, Polls
<1>5. exec \in [Dispatches -> ExecStates]  BY DEF IInv, TypeOK
<1>6. /\ \A d \in Dispatches : /\ d # r.exec => exec'[d] = exec[d]
                               /\ exec'[d] = "none" <=> exec[d] = "none"
                               /\ exec[d] \in Over => exec'[d] \in Over
                               /\ exec'[d] \in {"running", "stopping"} =>
                                    exec[d] \in {"running", "stopping"}
      /\ exec'[r.exec] \in Over
  <2>1. CASE PollTerminal(r)
    <3>1. exec' = exec /\ exec[r.exec] \in Ended  BY <2>1 DEF PollTerminal, outside
    <3> QED  BY <3>1 DEF Over
  <2>2. CASE PollMistaken(r)
    <3>1. exec' = [exec EXCEPT ![r.exec] = Belied(exec[r.exec])]  BY <2>2 DEF PollMistaken
    <3>2. exec[r.exec] \in ExecStates /\ exec[r.exec] # "none" /\ r.exec \in Dispatches
      BY <1>4, <1>5 DEF PolledOf
    <3>3. Belied(exec[r.exec]) \in Over  BY <3>2, BeliedStates
    <3>4. exec'[r.exec] = Belied(exec[r.exec])
          /\ \A d \in Dispatches : d # r.exec => exec'[d] = exec[d]
      BY <1>5, <3>1, <3>2
    <3>5. \A e \in Over : e \notin {"none", "running", "stopping"}  BY DEF Over, Ended
    <3> QED  BY <3>2, <3>3, <3>4, <3>5
  <2> QED  BY <2>1, <2>2
<1>7. \A d \in Dispatches, j \in Jobs : WorkedBy(d, j)' => WorkedBy(d, j)
  <2> SUFFICES ASSUME NEW d \in Dispatches, NEW j \in Jobs, WorkedBy(d, j)' PROVE WorkedBy(d, j)
    OBVIOUS
  <2>1. (\E q \in Polled' : q.job = j /\ q.exec = d) => \E q \in Polled : q.job = j /\ q.exec = d
    BY <1>2, <1>3
  <2> QED  BY <1>1, <1>2, <1>6, <2>1 DEF WorkedBy
<1>8. Shrinks  BY <1>1, <1>2, <1>7 DEF Shrinks
<1>9. Polls'
  <2>1. \A q \in pollList : PolledOf(q)  BY <1>3 DEF IInv, Core, Polls
  <2>2. \A q \in Polled' : PolledOf(q)'
    BY <1>1, <1>2, <1>3, <1>4, <1>6, <2>1 DEF PolledOf
  <2>3. \A q \in pollList' : q.job # local'[Poller].job  BY <1>2 DEF IInv, Core, Polls
  <2> QED  BY <1>1, <1>2, <2>2, <2>3 DEF IInv, Core, Polls
<1>10. Finals'
  <2>1. ASSUME NEW t \in Tasks, t # Poller
        PROVE  /\ pc'[t] = pc[t] /\ local'[t] = local[t]
               /\ pc[t] \in {"finish", "clear", "outcome"} =>
                    local[t].exec \in Dispatches /\ exec'[local[t].exec] \in Over
    BY <1>2, <1>6, <2>1 DEF IInv, Core, Finals
  <2>2. /\ local'[Poller].exec \in Dispatches /\ local'[Poller].row \in Dispatches
        /\ attemptRow[local'[Poller].exec].job = local'[Poller].job
        /\ attemptRow[local'[Poller].row].job = local'[Poller].job
        /\ exec'[local'[Poller].exec] \in Over
    BY <1>2, <1>4, <1>6 DEF PolledOf
  <2> QED  BY <1>1, <1>2, <2>1, <2>2 DEF IInv, Core, Finals, Over, Ended
<1>11. Goroutines' /\ Handles'
  <2>1. \A j \in Jobs : handle[j] # NoOne => handle[j] \in Dispatches  BY DEF IInv, TypeOK
  <2> QED  BY <1>1, <1>2, <1>6, <2>1 DEF IInv, Core, Goroutines, Handles
<1>12. Sole => OwnRows' /\ Cleared'
  <2>1. \A t \in Tasks : pc'[t] = "outcome" => t # Poller  BY <1>2
  <2> QED  BY <1>1, <1>2, <1>3, <2>1 DEF Sole, OwnRows, Cleared
<1> QED  BY <1>8, <1>9, <1>10, <1>11, <1>12 DEF Core, Keeps

\* The invariant at one dispatch, and at one finalizeJobResult.
GoroutineOf(d) ==
    /\ pc[d] \in {"idle", "claimed", "start", "attempt", "starting"} => exec[d] = "none"
    /\ pc[d] \in {"idle", "claimed", "start", "attempt"} => attemptRow[d].job = NoOne
    /\ pc[d] \notin {"idle", "done"} => local[d].row = d /\ local[d].exec = d
    /\ pc[d] \in Working \ {"attempt"} => attemptRow[d].job = local[d].job
    /\ pc[d] \in {"blocking", "accepted"} => exec[d] # "none"

FinalOf(t) ==
    /\ pc[t] \in {"finish", "clear", "outcome"} =>
         /\ local[t].exec \in Dispatches /\ attemptRow[local[t].exec].job = local[t].job
         /\ local[t].row \in Dispatches /\ attemptRow[local[t].row].job = local[t].job
         /\ exec[local[t].exec] \in Over
    /\ pc[t] \in {"clear", "outcome"} => attemptRow[local[t].row].finished

\* They make up Goroutines and Finals.
LEMMA OneByOne ==
    /\ Goroutines <=> \A d \in Dispatches : GoroutineOf(d)
    /\ Finals <=> \A t \in Tasks : FinalOf(t)
  BY DEF Goroutines, Finals, GoroutineOf, FinalOf

\* The same of the next state.
LEMMA OneByOneNext ==
    /\ Goroutines' <=> \A d \in Dispatches : GoroutineOf(d)'
    /\ Finals' <=> \A t \in Tasks : FinalOf(t)'
  BY DEF Goroutines, Finals, GoroutineOf, FinalOf, Working, Over, Ended

\* A step of dispatch d that touches nobody else's goroutine, attempt or execution.
OwnStep(d) ==
    /\ pc[d] # "done"
    /\ UNCHANGED <<pollList, phase>>
    /\ attemptRow[d].job = NoOne \/ attemptRow' = attemptRow
    /\ \A u \in Tasks : u # d => pc'[u] = pc[u] /\ local'[u] = local[u]
    /\ \A e \in Dispatches : e # d => attemptRow'[e] = attemptRow[e] /\ exec'[e] = exec[e]

\* No poll and no handle is about a dispatch that has not returned, so the polls and the
\* other goroutines do not notice such a step.
LEMMA OwnFrame ==
    ASSUME IInv, NEW d \in Dispatches, OwnStep(d)
    PROVE  /\ Polled' = Polled /\ Polls'
           /\ \A r \in Polled : r.exec # d
           /\ \A j \in Jobs : handle[j] # d
           /\ \A e \in Dispatches : e # d => GoroutineOf(e)'
           /\ \A t \in Tasks : t # d => FinalOf(t)'
           /\ handle' = handle => Handles'
           /\ Sole => OwnRows'
<1>1. pc'[Poller] = pc[Poller] /\ local'[Poller] = local[Poller]
  BY Identity DEF OwnStep
<1>2. Polled' = Polled  BY <1>1 DEF Polled, OwnStep
<1>3. \A r \in Polled : r.exec # d  BY DEF IInv, Core, Polls, PolledOf, OwnStep
<1>4. \A j \in Jobs : handle[j] # d  BY Identity DEF IInv, Core, Handles, OwnStep
<1>5. ASSUME NEW e \in Dispatches, e # d
      PROVE  /\ pc'[e] = pc[e] /\ local'[e] = local[e] /\ attemptRow'[e] = attemptRow[e]
             /\ exec'[e] = exec[e]
  BY <1>5, Identity DEF OwnStep
<1>a. \A e \in Dispatches : attemptRow[e].job \in Jobs => attemptRow'[e] = attemptRow[e]
  BY Identity DEF OwnStep
<1>6. Polls'
  <2>1. \A r \in Polled : PolledOf(r)'
    <3> SUFFICES ASSUME NEW r \in Polled PROVE PolledOf(r)'  OBVIOUS
    <3>1. PolledOf(r)  BY DEF IInv, Core, Polls
    <3> QED  BY <1>3, <1>5, <1>a, <3>1 DEF PolledOf
  <2>2. UNCHANGED <<pollList, phase>>  BY DEF OwnStep
  <2> QED  BY <1>1, <1>2, <2>1, <2>2 DEF IInv, Core, Polls
<1>7. ASSUME NEW e \in Dispatches, e # d PROVE GoroutineOf(e)'
  <2>1. GoroutineOf(e)  BY OneByOne DEF IInv, Core
  <2> QED  BY <1>5, <1>7, <2>1 DEF GoroutineOf
<1>8. ASSUME handle' = handle PROVE Handles'
  <2> SUFFICES ASSUME NEW j \in Jobs, handle[j] # NoOne
               PROVE  /\ attemptRow'[handle[j]].job = j /\ pc'[handle[j]] = "done"
                      /\ exec'[handle[j]] # "none"
    BY <1>8 DEF Handles
  <2>1. handle[j] \in Dispatches  BY DEF IInv, TypeOK
  <2> QED  BY <1>4, <1>5, <2>1 DEF IInv, Core, Handles
<1>9. ASSUME NEW t \in Tasks, t # d PROVE FinalOf(t)'
  <2>1. pc'[t] = pc[t] /\ local'[t] = local[t]  BY <1>9 DEF OwnStep
  <2>2. FinalOf(t)  BY OneByOne DEF IInv, Core
  <2>3. CASE pc[t] \notin {"finish", "clear", "outcome"}  BY <2>1, <2>3 DEF FinalOf
  <2>4. CASE pc[t] \in {"finish", "clear", "outcome"}
    <3>1. /\ local[t].exec \in Dispatches /\ local[t].row \in Dispatches /\ local[t].job \in Jobs
          /\ attemptRow[local[t].exec].job = local[t].job
          /\ attemptRow[local[t].row].job = local[t].job
      BY <2>2, <2>4 DEF FinalOf, IInv, TypeOK
    <3>2. local[t].exec # d
      <4>1. CASE t = Poller
        <5>1. local[t] \in Polled  BY <2>4, <4>1 DEF Polled
        <5> QED  BY <1>3, <5>1
      <4>2. CASE t # Poller
        <5>1. t \in Dispatches  BY <4>2 DEF Tasks
        <5> QED  BY <1>9, <2>4, <5>1 DEF IInv, Core, Goroutines
      <4> QED  BY <4>1, <4>2
    <3>3. /\ attemptRow'[local[t].exec] = attemptRow[local[t].exec]
          /\ attemptRow'[local[t].row] = attemptRow[local[t].row]
          /\ exec'[local[t].exec] = exec[local[t].exec]
      BY <1>5, <1>a, <3>1, <3>2
    <3> QED  BY <1>9, <2>1, <2>2, <3>1, <3>3 DEF FinalOf
  <2> QED  BY <2>3, <2>4
<1>10. Sole => OwnRows'  BY <1>2 DEF Sole, OwnRows
<1> QED  BY <1>2, <1>3, <1>4, <1>6, <1>7, <1>8, <1>9, <1>10

\* What a dispatch that has not returned does for a job.
OwnWork(d, j) ==
    \/ local[d].job = j /\ pc[d] \in Working
    \/ attemptRow[d].job = j /\ (exec[d] \in {"running", "stopping"} \/ ~attemptRow[d].finished)

\* A step of its own that brings the dispatch to bear on no other job.
LEMMA OwnShrinks ==
    ASSUME IInv, NEW d \in Dispatches, OwnStep(d), handle' = handle,
           GoroutineOf(d)', FinalOf(d)',
           \A j \in Jobs : OwnWork(d, j)' => WorkedBy(d, j),
           pc'[d] \in Undecided => pc[d] \in Undecided /\ local'[d].job = local[d].job,
           pc'[d] # "outcome",
           \A j \in Jobs : state'[j] \in Unstarted => state[j] \in Unstarted
    PROVE  Core' /\ (Sole => Keeps)
<1>1. Core'
  <2>1. Goroutines'  BY OwnFrame, OneByOneNext
  <2>2. Finals'  BY OwnFrame, OneByOneNext
  <2> QED  BY <2>1, <2>2, OwnFrame DEF Core
<1>2. ASSUME NEW e \in Dispatches, NEW j \in Jobs, WorkedBy(e, j)' PROVE WorkedBy(e, j)
  <2>1. CASE e = d
    BY <1>2, <2>1, OwnFrame DEF WorkedBy, OwnWork
  <2>2. CASE e # d
    <3>1. /\ pc'[e] = pc[e] /\ local'[e] = local[e] /\ attemptRow'[e] = attemptRow[e]
          /\ exec'[e] = exec[e]
      BY <2>2, Identity DEF OwnStep
    <3> QED  BY <1>2, <3>1, OwnFrame DEF WorkedBy
  <2> QED  BY <2>1, <2>2
<1>3. \A e \in Dispatches : pc'[e] \in Undecided =>
        pc[e] \in Undecided /\ local'[e].job = local[e].job
  BY Identity DEF OwnStep
<1>4. Shrinks  BY <1>2, <1>3 DEF Shrinks
<1>5. Sole => Cleared'  BY DEF Sole, Cleared, OwnStep
<1> QED  BY <1>1, <1>4, <1>5, OwnFrame DEF Keeps


\* A dispatch before its first write: it gives up, or goes on to it.
LEMMA UndecidedStep ==
    ASSUME IInv, NEW d \in Dispatches, CheckConcurrency(d) \/ FailUnknown(d)
    PROVE  Core' /\ (Sole => Keeps)
<1>1. d \in Tasks /\ d # Poller /\ d # NoOne  BY Identity
<1>2. /\ pc[d] \in Undecided /\ UNCHANGED <<attemptRow, exec, pollList, phase>>
      /\ Return(d) \/ (Goto(d, "start") /\ UNCHANGED local)
  BY DEF CheckConcurrency, FailUnknown, Undecided, tables, loop, outside
<1>3. local[d].job \in Jobs  BY <1>1, <1>2 DEF IInv, TypeOK, Undecided
<1>4. /\ handle' = handle
      /\ \A j \in Jobs : state'[j] \in Unstarted => state[j] \in Unstarted
  <2>1. CASE CheckConcurrency(d)  BY <2>1 DEF CheckConcurrency, tables, rows
  <2>2. CASE FailUnknown(d)
    <3>1. state' = [state EXCEPT ![local[d].job] = "failed"] /\ handle' = handle
      BY <1>3, <2>2, FailType DEF FailUnknown, IInv
    <3> QED  BY <3>1 DEF IInv, TypeOK, Unstarted
  <2> QED  BY <2>1, <2>2
<1>5. /\ \A u \in Tasks : u # d => pc'[u] = pc[u] /\ local'[u] = local[u]
      /\ \/ pc'[d] = "done" /\ local'[d] = Blank
         \/ pc'[d] = "start" /\ local'[d] = local[d]
  BY <1>1, <1>2, ReturnType, GotoType DEF IInv, Labels
<1>6. OwnStep(d)  BY <1>2, <1>5 DEF OwnStep, Undecided
<1>7. GoroutineOf(d)' /\ FinalOf(d)'
  <2>1. GoroutineOf(d)  BY OneByOne DEF IInv, Core
  <2> QED  BY <1>2, <1>5, <2>1 DEF GoroutineOf, FinalOf, Undecided, Working
<1>8. \A j \in Jobs : OwnWork(d, j)' => WorkedBy(d, j)
  BY <1>2, <1>5 DEF OwnWork, WorkedBy, Working
<1>9. pc'[d] \in Undecided => pc[d] \in Undecided /\ local'[d].job = local[d].job
  BY <1>2, <1>5 DEF Undecided
<1>10. pc'[d] # "outcome"  BY <1>5
<1> QED  BY <1>4, <1>10, <1>6, <1>7, <1>8, <1>9, OwnShrinks

\* The first write takes a job nobody works on.
LEMMA WriteRunningStep ==
    ASSUME IInv, NEW d \in Dispatches, WriteRunning(d)
    PROVE  Core' /\ (Sole => Sole')
<1> DEFINE j == local[d].job
           new == [local[d] EXCEPT !.attempt = local[d].attempt + 1]
<1>1. d \in Tasks /\ d # Poller /\ d # NoOne  BY Identity
<1>2. /\ pc[d] = "start" /\ UNCHANGED <<attemptRow, exec, pollList, phase, handle>>
      /\ Goto(d, "attempt") /\ local' = [local EXCEPT ![d] = new]
      /\ state' = [state EXCEPT ![j] = "running"]
  BY DEF WriteRunning, UpdateJobState, loop, outside
<1>3. local[d] \in Locals /\ j \in Jobs  BY <1>1, <1>2 DEF IInv, TypeOK
<1>4. new.job = j /\ new.row = local[d].row /\ new.exec = local[d].exec
  BY <1>3 DEF Locals
<1> HIDE DEF new
<1>5. /\ \A u \in Tasks : u # d => pc'[u] = pc[u] /\ local'[u] = local[u]
      /\ pc'[d] = "attempt" /\ local'[d] = new
  BY <1>1, <1>2, GotoType DEF IInv, Labels, TypeOK
<1>6. OwnStep(d)  BY <1>2, <1>5 DEF OwnStep
<1>7. GoroutineOf(d)' /\ FinalOf(d)'
  <2>1. GoroutineOf(d)  BY OneByOne DEF IInv, Core
  <2> QED  BY <1>2, <1>4, <1>5, <2>1 DEF GoroutineOf, FinalOf, Working
<1>8. Core'
  <2>1. Goroutines'  BY <1>6, <1>7, OwnFrame, OneByOneNext
  <2>2. Finals'  BY <1>2, <1>6, <1>7, OwnFrame, OneByOneNext
  <2> QED  BY <1>2, <1>6, <2>1, <2>2, OwnFrame DEF Core
<1>9. \A e \in Dispatches : e # d => pc'[e] = pc[e] /\ local'[e] = local[e]  BY <1>5, Identity
<1>10. ASSUME NEW e \in Dispatches, NEW i \in Jobs, WorkedBy(e, i)'
       PROVE  WorkedBy(e, i) \/ (e = d /\ i = j)
  <2>1. Polled' = Polled  BY <1>6, OwnFrame
  <2> QED  BY <1>2, <1>4, <1>5, <1>9, <1>10, <2>1 DEF WorkedBy
<1>11. Sole =>
         /\ \A e \in Dispatches : ~WorkedBy(e, j)
         /\ \A e \in Dispatches : pc[e] \in Undecided /\ local[e].job = j => e = d
  BY <1>2 DEF Sole, Claims, Undecided
<1> HIDE DEF j
<1>12. ASSUME Sole PROVE Sole'
  <2>1. Unique'  BY <1>10, <1>11, <1>12 DEF Sole, Unique
  <2>2. Idle'
    <3>1. \A i \in Jobs : state'[i] \in Unstarted => i # j /\ state[i] \in Unstarted
      BY <1>2, <1>3 DEF IInv, TypeOK, Unstarted
    <3> QED  BY <1>10, <1>12, <3>1 DEF Sole, Idle
  <2>3. Claims'
    <3> SUFFICES ASSUME NEW c \in Dispatches, pc'[c] \in Undecided
                 PROVE  /\ \A e \in Dispatches : ~WorkedBy(e, local[c].job)'
                        /\ \A e \in Dispatches :
                             pc'[e] \in Undecided /\ local'[e].job = local'[c].job => e = c
      BY DEF Claims, Undecided
    <3>1. c # d /\ pc[c] \in Undecided /\ local'[c] = local[c]
      BY <1>5, <1>9 DEF Undecided
    <3>2. local[c].job \in Jobs /\ local[c].job # j
      BY <1>11, <1>12, <3>1, Identity DEF IInv, TypeOK, Undecided
    <3>3. ASSUME NEW e \in Dispatches PROVE ~WorkedBy(e, local[c].job)'
      <4> DEFINE i == local[c].job
      <4>1. ~WorkedBy(e, i)  BY <1>12, <3>1 DEF Sole, Claims
      <4>2. ~WorkedBy(e, i)'
        <5> SUFFICES ASSUME WorkedBy(e, i)' PROVE FALSE  OBVIOUS
        <5>1. i' = i  BY <3>1
        <5> HIDE DEF i
        <5>2. i \in Jobs /\ i # j  BY <3>2 DEF i
        <5>3. \A k \in Jobs : k = i' => WorkedBy(e, k)'  BY DEF WorkedBy
        <5> QED  BY <1>10, <4>1, <5>1, <5>2, <5>3
      <4> QED  BY <4>2
    <3>4. ASSUME NEW e \in Dispatches, pc'[e] \in Undecided, local'[e].job = local'[c].job
          PROVE  e = c
      <4>1. e # d  BY <1>5, <3>4 DEF Undecided
      <4> QED  BY <1>9, <1>12, <3>1, <3>4, <4>1 DEF Sole, Claims
    <3> QED  BY <3>3, <3>4
  <2>4. OwnRows'  BY <1>6, <1>12, OwnFrame
  <2>5. Cleared'  BY <1>2, <1>5, <1>12 DEF Sole, Cleared
  <2> QED  BY <2>1, <2>2, <2>3, <2>4, <2>5 DEF Sole
<1> QED  BY <1>8, <1>12


\* The attempt row, and the call of the execution method until it returns.
LEMMA RunningStep ==
    ASSUME IInv, NEW d \in Dispatches,
           WriteAttempt(d) \/ Start(d) \/ StartReturned(d) \/ GiveUp(d) \/ SaveHandleFails(d)
    PROVE  Core' /\ (Sole => Keeps)
<1> DEFINE j == local[d].job
<1>1. d \in Tasks /\ d # Poller /\ d # NoOne  BY Identity
<1>2. /\ pc[d] \in {"attempt", "starting", "blocking", "accepted"}
      /\ UNCHANGED <<pollList, phase>>
  BY DEF WriteAttempt, Start, StartReturned, GiveUp, SaveHandleFails, loop
<1>3. /\ local[d] \in Locals /\ j \in Jobs
      /\ attemptRow \in [Dispatches -> [job : Jobs \cup {NoOne}, number : Nat, finished : BOOLEAN]]
      /\ exec \in [Dispatches -> ExecStates]
  BY <1>1, <1>2 DEF IInv, TypeOK
<1>4. WorkedBy(d, j)  BY <1>2 DEF WorkedBy, Working
<1>5. GoroutineOf(d)  BY OneByOne DEF IInv, Core
<1>6. CASE WriteAttempt(d)
  <2>1. /\ pc[d] = "attempt" /\ UNCHANGED <<handle, state, exec, local>> /\ Goto(d, "starting")
        /\ attemptRow' = [attemptRow EXCEPT
             ![d] = [job |-> j, number |-> local[d].attempt, finished |-> FALSE]]
    BY <1>6 DEF WriteAttempt, CreateJobAttempt, rows, outside
  <2>2. /\ \A u \in Tasks : u # d => pc'[u] = pc[u] /\ local'[u] = local[u]
        /\ pc'[d] = "starting" /\ local'[d] = local[d]
        /\ attemptRow'[d].job = j /\ attemptRow'[d].finished = FALSE
        /\ \A e \in Dispatches : e # d => attemptRow'[e] = attemptRow[e]
    BY <1>1, <1>3, <2>1, GotoType DEF IInv, Labels
  <2>3. OwnStep(d)  BY <1>2, <1>5, <2>1, <2>2 DEF OwnStep, GoroutineOf
  <2>4. GoroutineOf(d)' /\ FinalOf(d)'
    BY <1>5, <2>1, <2>2 DEF GoroutineOf, FinalOf, Working
  <2>5. \A i \in Jobs : OwnWork(d, i)' => WorkedBy(d, i)
    BY <1>4, <2>1, <2>2 DEF OwnWork
  <2>6. pc'[d] \notin Undecided /\ pc'[d] # "outcome"  BY <2>2 DEF Undecided
  <2> QED  BY <2>1, <2>3, <2>4, <2>5, <2>6, OwnShrinks
<1>7. ASSUME NEW l \in Locals, NEW s \in ExecStates, NEW label \in Labels,
             handle' = handle, attemptRow' = attemptRow,
             pc[d] \in {"starting", "blocking", "accepted"},
             label \in {"blocking", "accepted", "finish", "done"},
             \A i \in Jobs : state'[i] \in Unstarted => state[i] \in Unstarted,
             pc' = [pc EXCEPT ![d] = label], local' = [local EXCEPT ![d] = l],
             exec' = [exec EXCEPT ![d] = s],
             label # "done" => l.job = j /\ l.row = local[d].row /\ l.exec = local[d].exec,
             label = "finish" => s \in Over,
             s # "none"
      PROVE  Core' /\ (Sole => Keeps)
  <2>1. /\ \A u \in Tasks : u # d => pc'[u] = pc[u] /\ local'[u] = local[u]
        /\ pc'[d] = label /\ local'[d] = l /\ exec'[d] = s
        /\ \A e \in Dispatches : e # d => exec'[e] = exec[e]
    BY <1>1, <1>3, <1>7 DEF IInv, TypeOK
  <2>2. OwnStep(d)  BY <1>2, <1>7, <2>1 DEF OwnStep
  <2>3. attemptRow[d].job = j /\ local[d].row = d /\ local[d].exec = d
    BY <1>5, <1>7 DEF GoroutineOf, Working
  <2>4. GoroutineOf(d)' /\ FinalOf(d)'
    BY <1>5, <1>7, <2>1, <2>3 DEF GoroutineOf, FinalOf, Working
  <2>5. \A i \in Jobs : OwnWork(d, i)' => WorkedBy(d, i)
    BY <1>4, <1>7, <2>1, <2>3 DEF OwnWork, Working
  <2>6. pc'[d] \notin Undecided /\ pc'[d] # "outcome"  BY <1>7, <2>1 DEF Undecided
  <2> QED  BY <1>7, <2>2, <2>4, <2>5, <2>6, OwnShrinks
<1>8. CASE Start(d)
  <2>1. pc[d] = "starting" /\ UNCHANGED <<handle, state, attemptRow>>
    BY <1>8 DEF Start, tables, rows
  <2>2. ASSUME Goto(d, "finish"), local' = [local EXCEPT ![d].result = "failure"],
               NEW e \in {"failure", "lost"}, exec' = [exec EXCEPT ![d] = e]
        PROVE  Core' /\ (Sole => Keeps)
    <3> DEFINE l == [local[d] EXCEPT !.result = "failure"]
    <3>1. /\ l \in Locals /\ l.job = j /\ l.row = local[d].row /\ l.exec = local[d].exec
      BY <1>3 DEF Locals, Results
    <3>2. local' = [local EXCEPT ![d] = l]  BY <2>2
    <3> HIDE DEF l
    <3> QED  BY <1>7, <2>1, <2>2, <3>1, <3>2 DEF Goto, ExecStates, Over, Ended, Labels
  <2>3. ASSUME NEW label \in {"blocking", "accepted"}, Goto(d, label),
               exec' = [exec EXCEPT ![d] = "running"], UNCHANGED local
        PROVE  Core' /\ (Sole => Keeps)
    <3>1. local' = [local EXCEPT ![d] = local[d]]  BY <1>1, <2>3 DEF IInv, TypeOK
    <3> QED  BY <1>3, <1>7, <2>1, <2>3, <3>1 DEF Goto, ExecStates, Labels
  <2> QED  BY <1>8, <2>2, <2>3 DEF Start
<1>9. CASE StartReturned(d) \/ GiveUp(d)
  <2>1. /\ pc[d] = "blocking" /\ UNCHANGED <<handle, state, attemptRow>>
        /\ exec[d] # "none" /\ Goto(d, "finish")
    BY <1>9 DEF StartReturned, GiveUp, tables, rows
  <2>2. PICK res \in Results, s \in Over :
          /\ local' = [local EXCEPT ![d] = [local[d] EXCEPT !.result = res]]
          /\ exec' = [exec EXCEPT ![d] = s]
    <3>1. CASE StartReturned(d)
      <4>1. exec[d] \in {"success", "failure"} /\ exec' = [exec EXCEPT ![d] = exec[d]]
        BY <1>3, <3>1 DEF StartReturned, outside
      <4> QED  BY <3>1, <4>1 DEF StartReturned, Results, Over, Ended
    <3>2. CASE GiveUp(d)
      <4>1. Belied(exec[d]) \in Over  BY <1>3, <2>1, BeliedStates
      <4> QED  BY <3>2, <4>1 DEF GiveUp, Results
    <3> QED  BY <1>9, <3>1, <3>2
  <2> DEFINE l == [local[d] EXCEPT !.result = res]
  <2>3. /\ l \in Locals /\ l.job = j /\ l.row = local[d].row /\ l.exec = local[d].exec
    BY <1>3, <2>1 DEF Locals
  <2> HIDE DEF l
  <2>4. s \in ExecStates /\ s # "none"  BY DEF Over, ExecStates, Ended
  <2>5. local' = [local EXCEPT ![d] = l]  BY <2>2 DEF l
  <2> QED  BY <1>3, <1>7, <2>1, <2>2, <2>3, <2>4, <2>5 DEF Goto, Labels
<1>10. CASE SaveHandleFails(d)
  <2>1. /\ pc[d] = "accepted" /\ UNCHANGED attemptRow /\ failJob(j)
        /\ exec' = [exec EXCEPT ![d] = Belied(exec[d])]
        /\ pc' = [pc EXCEPT ![d] = "done"] /\ local' = [local EXCEPT ![d] = Blank]
    BY <1>1, <1>10 DEF SaveHandleFails, Return, Goto
  <2>2. state' = [state EXCEPT ![j] = "failed"] /\ handle' = handle
    BY <1>3, <2>1, FailType DEF IInv
  <2>3. \A i \in Jobs : state'[i] \in Unstarted => state[i] \in Unstarted
    BY <2>2 DEF IInv, TypeOK, Unstarted
  <2>4. Belied(exec[d]) \in ExecStates /\ Belied(exec[d]) # "none"
    BY <1>3, <1>5, <2>1, BeliedStates DEF GoroutineOf
  <2> QED  BY <1>7, <2>1, <2>2, <2>3, <2>4, BlankType DEF Labels
<1> QED  BY <1>6, <1>8, <1>9, <1>10

\* The handle that is stored is that of the one dispatch that works on the job.
LEMMA SaveHandleStep ==
    ASSUME IInv, NEW d \in Dispatches, SaveHandle(d)
    PROVE  Core' /\ (Sole => Keeps)
<1> DEFINE j == local[d].job
<1>1. d \in Tasks /\ d # Poller /\ d # NoOne  BY Identity
<1>2. /\ pc[d] = "accepted" /\ UNCHANGED <<attemptRow, exec, pollList, phase, state>>
      /\ handle' = [handle EXCEPT ![j] = d] /\ Return(d)
  BY DEF SaveHandle, loop, outside
<1>3. j \in Jobs /\ handle \in [Jobs -> Dispatches \cup {NoOne}]  BY <1>1, <1>2 DEF IInv, TypeOK
<1>4. /\ \A u \in Tasks : u # d => pc'[u] = pc[u] /\ local'[u] = local[u]
      /\ pc'[d] = "done" /\ local'[d] = Blank
  BY <1>1, <1>2, ReturnType DEF IInv
<1>5. OwnStep(d)  BY <1>2, <1>4 DEF OwnStep
<1>6. GoroutineOf(d)' /\ FinalOf(d)'
  BY <1>4 DEF GoroutineOf, FinalOf, Working
<1>7. WorkedBy(d, j)  BY <1>2 DEF WorkedBy, Working
<1>8. attemptRow[d].job = j /\ exec[d] # "none"  BY <1>2 DEF IInv, Core, Goroutines, Working
<1>9. \A i \in Jobs : i # j => handle'[i] = handle[i]  BY <1>2, <1>3
<1>10. handle'[j] = d  BY <1>2, <1>3
<1> HIDE DEF j
<1>11. ASSUME NEW e \in Dispatches, NEW i \in Jobs, WorkedBy(e, i)' PROVE WorkedBy(e, i)
  <2>1. Polled' = Polled  BY <1>5, OwnFrame
  <2>2. e # d => pc'[e] = pc[e] /\ local'[e] = local[e]  BY <1>4, Identity
  <2> QED  BY <1>2, <1>4, <1>7, <1>9, <1>10, <1>11, <2>1, <2>2 DEF WorkedBy, Working
<1>12. Shrinks
  <2>1. \A e \in Dispatches : pc'[e] \in Undecided =>
          pc[e] \in Undecided /\ local'[e].job = local[e].job
    BY <1>4, Identity DEF Undecided
  <2> QED  BY <1>2, <1>11, <2>1 DEF Shrinks
<1>13. Handles'
  <2> SUFFICES ASSUME NEW i \in Jobs, handle'[i] # NoOne
               PROVE  /\ attemptRow'[handle'[i]].job = i /\ pc'[handle'[i]] = "done"
                      /\ exec'[handle'[i]] # "none"
    BY DEF Handles
  <2>1. CASE i = j  BY <1>2, <1>4, <1>8, <1>10, <2>1
  <2>2. CASE i # j
    <3>1. handle'[i] = handle[i] /\ handle[i] \in Dispatches  BY <1>3, <1>9, <2>2
    <3>2. attemptRow[handle[i]].job = i /\ pc[handle[i]] = "done" /\ exec[handle[i]] # "none"
      BY <3>1, Identity DEF IInv, Core, Handles
    <3>3. handle[i] # d  BY <1>2, <3>2
    <3> QED  BY <1>2, <1>4, <3>1, <3>2, <3>3, Identity
  <2> QED  BY <2>1, <2>2
<1>14. Finals'  BY <1>5, <1>6, OwnFrame, OneByOneNext
<1>15. Goroutines'  BY <1>5, <1>6, OwnFrame, OneByOneNext
<1>16. Polls'  BY <1>5, OwnFrame
<1>17. Sole => Cleared'
  <2> SUFFICES ASSUME Sole, NEW t \in Tasks, pc'[t] = "outcome"
               PROVE  handle'[local'[t].job] = NoOne
    BY DEF Cleared
  <2>1. t # d /\ pc[t] = "outcome" /\ local'[t] = local[t]  BY <1>4
  <2>2. local[t].job \in Jobs /\ handle[local[t].job] = NoOne
    BY <2>1 DEF Sole, Cleared, IInv, TypeOK
  <2>3. local[t].job # j
    <3>1. CASE t = Poller
      <4>1. local[t] \in Polled  BY <2>1, <3>1 DEF Polled
      <4>2. local[t].exec \in Dispatches /\ local[t].exec # d
        BY <1>5, <4>1, OwnFrame DEF IInv, Core, Polls, PolledOf
      <4>3. WorkedBy(local[t].exec, local[t].job)  BY <4>1 DEF WorkedBy
      <4> QED  BY <1>3, <1>7, <4>2, <4>3 DEF Sole, Unique
    <3>2. CASE t # Poller
      <4>1. t \in Dispatches  BY <3>2 DEF Tasks
      <4>2. WorkedBy(t, local[t].job)  BY <2>1 DEF WorkedBy, Working
      <4> QED  BY <1>3, <1>7, <2>1, <4>1, <4>2 DEF Sole, Unique
    <3> QED  BY <3>1, <3>2
  <2> QED  BY <1>9, <2>1, <2>2, <2>3
<1>18. Sole => OwnRows'  BY <1>5, OwnFrame
<1> QED  BY <1>12, <1>13, <1>14, <1>15, <1>16, <1>17, <1>18 DEF Core, Keeps


\* Whoever finalizes a result works on its job through the execution the result is of.
LEMMA FinalizesOwn ==
    ASSUME IInv, NEW t \in Tasks, pc[t] \in {"finish", "clear", "outcome"}
    PROVE  /\ local[t].job \in Jobs /\ local[t].exec \in Dispatches /\ local[t].row \in Dispatches
           /\ attemptRow[local[t].exec].job = local[t].job /\ exec[local[t].exec] \in Over
           /\ attemptRow[local[t].row].job = local[t].job
           /\ t = Poller => local[t] \in Polled /\ pc[local[t].exec] = "done"
           /\ t # Poller => t \in Dispatches /\ local[t].exec = t /\ local[t].row = t
           /\ WorkedBy(local[t].exec, local[t].job)
           /\ Sole => local[t].row = local[t].exec
<1>1. /\ local[t].job \in Jobs /\ local[t].exec \in Dispatches /\ local[t].row \in Dispatches
      /\ attemptRow[local[t].exec].job = local[t].job /\ exec[local[t].exec] \in Over
      /\ attemptRow[local[t].row].job = local[t].job
  BY DEF IInv, TypeOK, Core, Finals
<1>2. CASE t = Poller
  <2>1. local[t] \in Polled  BY <1>2 DEF Polled
  <2> QED  BY <1>1, <1>2, <2>1 DEF IInv, Core, Polls, PolledOf, WorkedBy, Sole, OwnRows
<1>3. CASE t # Poller
  <2>1. t \in Dispatches  BY <1>3 DEF Tasks
  <2>2. local[t].exec = t /\ local[t].row = t  BY <2>1 DEF IInv, Core, Goroutines
  <2> QED  BY <1>1, <1>3, <2>1, <2>2 DEF WorkedBy, Working
<1> QED  BY <1>2, <1>3

\* The attempt is closed, the handle cleared: the work on the job only shrinks.
LEMMA ClosingStep ==
    ASSUME IInv, NEW t \in Tasks, CloseAttempt(t) \/ ClearHandle(t)
    PROVE  Core' /\ (Sole => Keeps)
<1> DEFINE j == local[t].job
           x == local[t].row
<1>1. /\ pc[t] \in {"finish", "clear"} /\ UNCHANGED <<exec, local, pollList, phase, state>>
  BY DEF CloseAttempt, ClearHandle, rows, loop, outside
<1>2. /\ j \in Jobs /\ x \in Dispatches /\ attemptRow[x].job = j
      /\ t # Poller => t \in Dispatches
  BY <1>1, FinalizesOwn
<1>3. /\ attemptRow \in [Dispatches -> [job : Jobs \cup {NoOne}, number : Nat, finished : BOOLEAN]]
      /\ handle \in [Jobs -> Dispatches \cup {NoOne}]
  BY DEF IInv, TypeOK
<1>4. /\ \A u \in Tasks : u # t => pc'[u] = pc[u]
      /\ pc[t] = "finish" => pc'[t] = "clear"
      /\ pc[t] = "clear" => pc'[t] = "outcome"
  BY GotoType DEF CloseAttempt, ClearHandle, IInv, Labels
<1>5. /\ \A e \in Dispatches : /\ attemptRow'[e].job = attemptRow[e].job
                               /\ attemptRow[e].finished => attemptRow'[e].finished
                               /\ e # x => attemptRow'[e] = attemptRow[e]
      /\ pc[t] = "finish" => attemptRow'[x].finished
      /\ pc[t] = "clear" => attemptRow' = attemptRow
  <2>1. CASE CloseAttempt(t)
    <3>1. attemptRow' = [attemptRow EXCEPT ![x].finished = TRUE] /\ pc[t] = "finish"
      BY <1>2, <2>1 DEF CloseAttempt, FinishJobAttempt
    <3> QED  BY <1>2, <1>3, <3>1
  <2>2. CASE ClearHandle(t)  BY <2>2 DEF ClearHandle
  <2> QED  BY <2>1, <2>2
<1>6. /\ \A i \in Jobs : handle'[i] = handle[i] \/ handle'[i] = NoOne
      /\ pc[t] = "clear" => handle'[j] = NoOne
  <2>1. CASE CloseAttempt(t)  BY <2>1 DEF CloseAttempt, rows
  <2>2. CASE ClearHandle(t)  BY <1>2, <1>3, <2>2 DEF ClearHandle
  <2> QED  BY <2>1, <2>2
<1> HIDE DEF j, x
<1>7. (pc'[Poller] = "idle") <=> (pc[Poller] = "idle")  BY <1>1, <1>4, Identity
<1>8. Polled' = Polled  BY <1>1, <1>7 DEF Polled
<1>9. \A e \in Dispatches : /\ pc'[e] \in Working <=> pc[e] \in Working
                            /\ pc'[e] \in Undecided <=> pc[e] \in Undecided
                            /\ pc[e] = "done" => pc'[e] = "done"
                            /\ pc'[e] # pc[e] => e = t
  BY <1>1, <1>4, Identity DEF Working, Undecided
<1>10. ASSUME NEW e \in Dispatches, NEW i \in Jobs, WorkedBy(e, i)' PROVE WorkedBy(e, i)
  <2>1. handle'[i] = e => handle[i] = e  BY <1>6, Identity
  <2> QED  BY <1>1, <1>5, <1>8, <1>9, <1>10, <2>1 DEF WorkedBy
<1>11. Shrinks  BY <1>1, <1>9, <1>10 DEF Shrinks
<1>12. Goroutines'
  <2> SUFFICES ASSUME NEW e \in Dispatches PROVE GoroutineOf(e)'  BY OneByOneNext
  <2>1. GoroutineOf(e)  BY OneByOne DEF IInv, Core
  <2>2. CASE e = t
    BY <1>1, <1>4, <1>5, <2>1, <2>2, Identity DEF GoroutineOf, Working
  <2>3. CASE e # t
    <3>1. pc'[e] = pc[e]  BY <1>4, <2>3, Identity
    <3> QED  BY <1>1, <1>5, <2>1, <3>1 DEF GoroutineOf
  <2> QED  BY <2>2, <2>3
<1>13. Finals'
  <2> SUFFICES ASSUME NEW u \in Tasks PROVE FinalOf(u)'  BY OneByOneNext
  <2>1. FinalOf(u)  BY OneByOne DEF IInv, Core
  <2>2. pc'[u] \in {"finish", "clear", "outcome"} => pc[u] \in {"finish", "clear", "outcome"}
    BY <1>1, <1>4
  <2>3. pc'[u] \in {"finish", "clear", "outcome"} => local[u].row \in Dispatches
    BY <2>1, <2>2 DEF FinalOf
  <2>4. pc'[u] \in {"clear", "outcome"} => attemptRow'[local[u].row].finished
    BY <1>1, <1>4, <1>5, <2>1, <2>2, <2>3 DEF FinalOf, x
  <2> QED  BY <1>1, <1>5, <2>1, <2>2, <2>4 DEF FinalOf
<1>14. Polls'
  <2>1. \A r \in Polled : PolledOf(r)'
    BY <1>1, <1>5, <1>9 DEF IInv, Core, Polls, PolledOf
  <2>2. pc'[Poller] \in {"idle", "finish", "clear", "outcome"}
    BY <1>1, <1>4, Identity DEF IInv, Core, Polls
  <2> QED  BY <1>1, <1>7, <1>8, <2>1, <2>2 DEF IInv, Core, Polls
<1>15. Handles'
  <2> SUFFICES ASSUME NEW i \in Jobs, handle'[i] # NoOne
               PROVE  /\ attemptRow'[handle'[i]].job = i /\ pc'[handle'[i]] = "done"
                      /\ exec'[handle'[i]] # "none"
    BY DEF Handles
  <2>1. handle'[i] = handle[i] /\ handle[i] \in Dispatches  BY <1>3, <1>6
  <2> QED  BY <1>1, <1>5, <1>9, <2>1 DEF IInv, Core, Handles
<1>16. Sole => OwnRows' /\ Cleared'
  <2>1. Sole => OwnRows'  BY <1>8 DEF Sole, OwnRows
  <2>2. ASSUME Sole, NEW u \in Tasks, pc'[u] = "outcome" PROVE handle'[local'[u].job] = NoOne
    <3>1. pc[u] \in {"finish", "clear", "outcome"}  BY <1>1, <1>4, <2>2
    <3>2. local[u].job \in Jobs /\ local' = local  BY <1>1, <3>1 DEF IInv, TypeOK
    <3>3. CASE u = t  BY <1>1, <1>4, <1>6, <2>2, <3>2, <3>3 DEF j
    <3>4. CASE u # t  BY <1>4, <1>6, <2>2, <3>2, <3>4 DEF Sole, Cleared
    <3> QED  BY <3>3, <3>4
  <2> QED  BY <2>1, <2>2 DEF Cleared
<1> QED  BY <1>11, <1>12, <1>13, <1>14, <1>15, <1>16 DEF Core, Keeps

\* The outcome: a job that is to be retried is one nobody works on any more.
LEMMA OutcomeStep ==
    ASSUME IInv, NEW t \in Tasks, WriteOutcome(t)
    PROVE  Core' /\ (Sole => Keeps)
<1> DEFINE j == local[t].job
           x == local[t].exec
<1>1. pc[t] = "outcome" /\ UNCHANGED <<attemptRow, exec, pollList, phase, handle>> /\ Return(t)
  BY DEF WriteOutcome, UpdateJobState, failJob, loop, outside
<1>2. /\ j \in Jobs /\ x \in Dispatches /\ attemptRow[x].job = j /\ exec[x] \in Over
      /\ t = Poller => local[t] \in Polled /\ pc[x] = "done"
      /\ t # Poller => t \in Dispatches /\ x = t
      /\ WorkedBy(x, j)
  BY <1>1, FinalizesOwn
<1>3. Sole => attemptRow[x].finished /\ handle[j] = NoOne
  <2>1. attemptRow[local[t].row].finished  BY <1>1 DEF IInv, Core, Finals
  <2> QED  BY <1>1, <2>1, FinalizesOwn DEF Sole, Cleared
<1>4. PICK s \in {"killed", "completed", "retrying", "failed"} : state' = [state EXCEPT ![j] = s]
  BY DEF WriteOutcome, UpdateJobState, failJob
<1>5. /\ \A u \in Tasks : u # t => pc'[u] = pc[u] /\ local'[u] = local[u]
      /\ t = Poller => pc'[t] = "idle"
      /\ t # Poller => pc'[t] = "done"
      /\ local'[t] = Blank
  BY <1>1, ReturnType DEF IInv
<1>6. /\ \A r \in Polled' : r \in Polled
      /\ t = Poller => Polled' = pollList
      /\ t # Poller => Polled' = Polled
  BY <1>1, <1>5, Identity DEF Polled
<1>7. pc'[t] \notin Working \cup Undecided  BY <1>5 DEF Working, Undecided
<1>8. \A e \in Dispatches : /\ pc[e] = "done" => pc'[e] = "done"
                            /\ e # t => pc'[e] = pc[e] /\ local'[e] = local[e]
  BY <1>5, Identity
<1> HIDE DEF j, x
<1>9. ASSUME NEW e \in Dispatches, NEW i \in Jobs, WorkedBy(e, i)' PROVE WorkedBy(e, i)
  BY <1>1, <1>6, <1>7, <1>8, <1>9 DEF WorkedBy
<1>10. ASSUME Sole, NEW e \in Dispatches, NEW i \in Jobs, i = j PROVE ~WorkedBy(e, i)'
  <2> SUFFICES ASSUME WorkedBy(e, i)' PROVE FALSE  OBVIOUS
  <2>1. e = x  BY <1>2, <1>9, <1>10 DEF Sole, Unique
  <2>2. ~(local'[e].job = i /\ pc'[e] \in Working)
    <3>1. CASE t = Poller
      <4>1. pc'[e] = "done"  BY <1>2, <1>8, <2>1, <3>1
      <4> QED  BY <4>1 DEF Working
    <3>2. CASE t # Poller  BY <1>2, <1>7, <2>1, <3>2
    <3> QED  BY <3>1, <3>2
  <2>3. ~(/\ attemptRow'[e].job = i
          /\ (exec'[e] \in {"running", "stopping"} \/ ~attemptRow'[e].finished))
    BY <1>1, <1>2, <1>3, <1>10, <2>1 DEF Over, Ended
  <2>4. handle'[i] # e  BY <1>1, <1>3, <1>10, Identity
  <2>5. ~\E r \in Polled' : r.job = i /\ r.exec = e
    <3>1. CASE t = Poller
      <4>1. \A r \in pollList : r.job # i  BY <1>1, <1>10, <3>1 DEF IInv, Core, Polls, j
      <4> QED  BY <1>6, <3>1, <4>1
    <3>2. CASE t # Poller
      <4>1. pc[e] # "done"  BY <1>1, <1>2, <2>1, <3>2
      <4> QED  BY <1>6, <3>2, <4>1 DEF IInv, Core, Polls, PolledOf
    <3> QED  BY <3>1, <3>2
  <2> QED  BY <2>2, <2>3, <2>4, <2>5 DEF WorkedBy
<1>11. Sole => Shrinks
  <2>1. \A e \in Dispatches : pc'[e] \in Undecided =>
          pc[e] \in Undecided /\ local'[e].job = local[e].job
    BY <1>7, <1>8
  <2>2. \A i \in Jobs : i # j => state'[i] = state[i]  BY <1>2, <1>4 DEF IInv, TypeOK
  <2> QED  BY <1>9, <1>10, <2>1, <2>2 DEF Shrinks
<1>12. Goroutines'
  <2> SUFFICES ASSUME NEW e \in Dispatches PROVE GoroutineOf(e)'  BY OneByOneNext
  <2>1. GoroutineOf(e)  BY OneByOne DEF IInv, Core
  <2>2. CASE e = t  BY <1>5, <2>2, Identity DEF GoroutineOf, Working
  <2>3. CASE e # t  BY <1>1, <1>8, <2>1, <2>3 DEF GoroutineOf
  <2> QED  BY <2>2, <2>3
<1>13. Finals'
  <2> SUFFICES ASSUME NEW u \in Tasks PROVE FinalOf(u)'  BY OneByOneNext
  <2>1. FinalOf(u)  BY OneByOne DEF IInv, Core
  <2>2. CASE u = t
    <3>1. pc'[u] \notin {"finish", "clear", "outcome"}  BY <1>5, <2>2
    <3> QED  BY <3>1 DEF FinalOf
  <2>3. CASE u # t  BY <1>1, <1>5, <2>1, <2>3 DEF FinalOf
  <2> QED  BY <2>2, <2>3
<1>14. Polls'
  <2>1. \A r \in Polled' : PolledOf(r)'
    BY <1>1, <1>6, <1>8 DEF IInv, Core, Polls, PolledOf
  <2>2. CASE t = Poller  BY <1>1, <1>5, <2>1, <2>2 DEF IInv, Core, Polls
  <2>3. CASE t # Poller
    <3>1. pc'[Poller] = pc[Poller] /\ local'[Poller] = local[Poller]  BY <1>5, <2>3, Identity
    <3> QED  BY <1>1, <2>1, <3>1 DEF IInv, Core, Polls
  <2> QED  BY <2>2, <2>3
<1>15. Handles'
  <2>1. \A i \in Jobs : handle[i] # NoOne => handle[i] \in Dispatches  BY DEF IInv, TypeOK
  <2> QED  BY <1>1, <1>8, <2>1 DEF IInv, Core, Handles
<1>16. Sole => OwnRows' /\ Cleared'
  <2>1. \A u \in Tasks : pc'[u] = "outcome" => pc[u] = "outcome" /\ local'[u] = local[u]
    BY <1>5
  <2> QED  BY <1>1, <1>6, <2>1 DEF Sole, OwnRows, Cleared
<1> QED  BY <1>11, <1>12, <1>13, <1>14, <1>15, <1>16 DEF Core, Keeps

\* The invariant holds of an empty or stored table with nobody at work.
LEMMA InitInv == Init => IInv /\ Alone
<1> SUFFICES ASSUME Init PROVE IInv /\ Alone  OBVIOUS
<1>1. /\ \A t \in Tasks : pc[t] = "idle" /\ local[t] = Blank
      /\ \A d \in Dispatches : attemptRow[d] = NoRow /\ exec[d] = "none"
      /\ \A j \in Jobs : handle[j] = NoOne
      /\ pollList = {}
  BY DEF Init
<1>2. \A d \in Dispatches : d \in Tasks /\ pc[d] = "idle"  BY <1>1, Identity
<1>3. Polled = {}  BY <1>1, Identity DEF Polled
<1>4. \A d \in Dispatches, j \in Jobs : ~WorkedBy(d, j)
  BY <1>1, <1>2, <1>3, Identity DEF WorkedBy, Working, NoRow
<1>5. Unique /\ Idle  BY <1>4 DEF Unique, Idle
<1>6. Claims  BY <1>1, <1>2 DEF Claims, Undecided
<1>7. Goroutines  BY <1>1, <1>2 DEF Goroutines, Working, NoRow
<1>8. Finals /\ Cleared  BY <1>1 DEF Finals, Cleared
<1>9. Polls /\ OwnRows  BY <1>1, <1>3, Identity DEF Polls, OwnRows
<1>10. Handles  BY <1>1 DEF Handles
<1> QED  BY <1>5, <1>6, <1>7, <1>8, <1>9, <1>10, InitType DEF IInv, Core, Alone, Sole

\* What a step keeps, and how: the books in every case, the dispatches apart from each
\* other unless a row is claimed again.
Kept == Core' /\ (Sole /\ reclaims' = reclaims => Sole')

\* The steps of the loop.
LEMMA LoopKeeps ==
    ASSUME IInv, LoopStep
    PROVE  Kept
<1>1. ASSUME Core' /\ (Sole => Keeps) PROVE Kept  BY <1>1, KeepsSole DEF Kept
<1>2. CASE Tick  BY <1>2, TickStep DEF Kept
<1>3. CASE ListKills \/ EndRound
  <2>1. /\ UNCHANGED books /\ UNCHANGED state
        /\ phase' = phase \/ (pollList = {} /\ pc[Poller] = "idle")
    BY <1>3 DEF ListKills, EndRound, books, tables, rows, tasks, outside, IInv, Core, Polls
  <2> QED  BY <1>1, <2>1, QuietStep
<1>4. CASE ListPolls  BY <1>1, <1>4, ListPollsStep
<1>5. ASSUME NEW j \in Jobs, KillOne(j) PROVE Kept
  <2>1. UNCHANGED <<attemptRow, handle, pc, local, pollList, phase, state>>
    BY <1>5 DEF KillOne, tables, rows, tasks
  <2>2. CASE UNCHANGED exec  BY <1>1, <2>1, <2>2, QuietStep DEF books
  <2>3. ASSUME handle[j] # NoOne, NEW e \in AfterKill(exec[handle[j]]),
               exec' = [exec EXCEPT ![handle[j]] = e]
        PROVE  Kept
    <3>1. handle[j] \in Dispatches  BY <2>3 DEF IInv, TypeOK
    <3>2. exec[handle[j]] \in ExecStates  BY <3>1 DEF IInv, TypeOK
    <3> QED  BY <1>1, <2>1, <2>3, <3>1, <3>2, ExecStep, BeliedStates
  <2> QED  BY <1>5, <2>2, <2>3 DEF KillOne
<1>6. ASSUME NEW r \in pollList, PollNothing(r) PROVE Kept  BY <1>1, <1>6, PollNothingStep
<1>7. ASSUME NEW r \in pollList, PollTerminal(r) \/ PollMistaken(r) PROVE Kept
  BY <1>1, <1>7, PollStep
<1>8. CASE FinalizeStep(Poller)
  BY <1>1, <1>8, ClosingStep, OutcomeStep, Identity DEF FinalizeStep
<1> QED  BY <1>2, <1>3, <1>4, <1>5, <1>6, <1>7, <1>8 DEF LoopStep

\* The steps of a dispatch.
LEMMA DispatchKeeps ==
    ASSUME IInv, NEW d \in Dispatches, DispatchStep(d) \/ GiveUp(d)
    PROVE  Kept
<1>1. ASSUME Core' /\ (Sole => Keeps) PROVE Kept  BY <1>1, KeepsSole DEF Kept
<1>2. CASE CheckConcurrency(d) \/ FailUnknown(d)  BY <1>1, <1>2, UndecidedStep
<1>3. CASE WriteRunning(d)  BY <1>3, WriteRunningStep DEF Kept
<1>4. CASE WriteAttempt(d) \/ Start(d) \/ StartReturned(d) \/ GiveUp(d) \/ SaveHandleFails(d)
  BY <1>1, <1>4, RunningStep
<1>5. CASE SaveHandle(d)  BY <1>1, <1>5, SaveHandleStep
<1>6. CASE FinalizeStep(d)
  BY <1>1, <1>6, ClosingStep, OutcomeStep, Identity DEF FinalizeStep
<1> QED  BY <1>2, <1>3, <1>4, <1>5, <1>6 DEF DispatchStep

\* What an execution that ends becomes.
LEMMA ExecEndsTo ==
    ASSUME TypeOK, NEW d \in Dispatches, ExecEnds(d)
    PROVE  \E s \in {"success", "failure", "killed", "gone", "missed"} :
             /\ exec' = [exec EXCEPT ![d] = s]
             /\ exec[d] \in {"running", "stopping", "lost"}
             /\ exec[d] = "lost" => s \in {"missed", "failure"}
<1>1. CASE exec[d] = "running"  BY <1>1 DEF ExecEnds
<1>2. CASE exec[d] = "stopping"  BY <1>2 DEF ExecEnds
<1>3. CASE exec[d] = "lost"  BY <1>3 DEF ExecEnds
<1>4. CASE exec[d] \notin {"running", "stopping", "lost"}  BY <1>4 DEF ExecEnds
<1> QED  BY <1>1, <1>2, <1>3, <1>4

\* The executions and the server.
LEMMA OutsideKeeps ==
    ASSUME IInv, \/ \E d \in Dispatches : ExecEnds(d)
                 \/ ListExpired \/ (\E j \in Jobs : Expire(j)) \/ Crash \/ UNCHANGED vars
    PROVE  Kept
<1>1. ASSUME Core' /\ (Sole => Keeps) PROVE Kept  BY <1>1, KeepsSole DEF Kept
<1>2. ASSUME NEW d \in Dispatches, ExecEnds(d) PROVE Kept
  <2>1. PICK s \in {"success", "failure", "killed", "gone", "missed"} :
          exec' = [exec EXCEPT ![d] = s] /\ exec[d] \in {"running", "stopping", "lost"}
    BY <1>2, ExecEndsTo DEF IInv
  <2>2. UNCHANGED <<attemptRow, handle, pc, local, pollList, phase, state>>
    BY <1>2 DEF ExecEnds, tables, rows, tasks, loop
  <2> QED  BY <1>1, <2>1, <2>2, ExecStep DEF ExecStates, Ended, Over
<1>3. CASE ListExpired \/ UNCHANGED vars
  <2>1. UNCHANGED books /\ UNCHANGED <<phase, state>>
    BY <1>3 DEF ListExpired, vars, books, tables, rows, tasks, loop, outside
  <2> QED  BY <1>1, <2>1, QuietStep
<1>4. ASSUME NEW j \in Jobs, Expire(j) PROVE Kept
  <2>1. /\ UNCHANGED books /\ UNCHANGED phase /\ state' = [state EXCEPT ![j] = "cancelled"]
    BY <1>4 DEF Expire, CancelRow, books, tasks, loop, outside
  <2>2. \A i \in Jobs : state'[i] \in Unstarted => state[i] \in Unstarted
    BY <2>1 DEF Unstarted, IInv, TypeOK
  <2> QED  BY <1>1, <2>1, <2>2, QuietStep
<1>5. CASE Crash  BY <1>1, <1>5, CrashStep
<1> QED  BY <1>2, <1>3, <1>4, <1>5

\* A tick alone counts a row that is claimed again.
LEMMA ReclaimsGrow ==
    ASSUME TypeOK, [Next]_vars
    PROVE  reclaims' = 0 => reclaims = 0 /\ reclaims' = reclaims
<1>1. CASE Tick
  <2>1. reclaims' = reclaims \/ reclaims' = reclaims + 1  BY <1>1 DEF Tick, TickClaims
  <2> QED  BY <2>1 DEF TypeOK
<1>2. CASE ApiStep  BY <1>2, ApiQuiet
<1>3. CASE LoopStep /\ ~Tick
  BY <1>3 DEF LoopStep, ListKills, ListPolls, EndRound, KillOne, PollNothing, PollTerminal,
     PollMistaken, FinalizeStep, CloseAttempt, ClearHandle, WriteOutcome, loop
<1>4. CASE \E d \in Dispatches : DispatchStep(d) \/ GiveUp(d) \/ ExecEnds(d)
  BY <1>4 DEF DispatchStep, CheckConcurrency, FailUnknown, WriteRunning, WriteAttempt, Start,
     StartReturned, GiveUp, SaveHandle, SaveHandleFails, FinalizeStep, CloseAttempt, ClearHandle,
     WriteOutcome, ExecEnds, loop
<1>5. CASE ListExpired \/ (\E j \in Jobs : Expire(j)) \/ Crash \/ UNCHANGED vars
  BY <1>5 DEF ListExpired, Expire, Crash, vars, loop
<1> QED  BY <1>1, <1>2, <1>3, <1>4, <1>5 DEF Next

\* Every step keeps the invariant.
LEMMA NextInv == IInv /\ [Next]_vars => IInv' /\ (Alone => Alone')
<1> SUFFICES ASSUME IInv, [Next]_vars PROVE IInv' /\ (Alone => Alone')  OBVIOUS
<1>1. TypeOK'  BY NextType
<1>2. Kept
  <2>1. CASE ApiStep
    <3>1. Core' /\ (Sole => Keeps)  BY <2>1, ApiQuiet, QuietStep DEF IInv
    <3> QED  BY <3>1, KeepsSole DEF Kept
  <2>2. CASE LoopStep  BY <2>2, LoopKeeps
  <2>3. CASE \E d \in Dispatches : DispatchStep(d) \/ GiveUp(d)  BY <2>3, DispatchKeeps
  <2> QED  BY <2>1, <2>2, <2>3, OutsideKeeps DEF Next
<1>3. Alone => Alone'  BY <1>2, ReclaimsGrow DEF Kept, Alone, IInv
<1> QED  BY <1>1, <1>2, <1>3 DEF Kept, IInv

\* The invariant is one of the specification.
LEMMA Inductive == Spec => [](IInv /\ Alone)
  BY InitInv, NextInv, PTL DEF Spec

\* Every column of jobs and job_attempts, every local of a dispatch or a poll and every
\* list of the loop holds what the schema and the Go types allow; a goroutine past its
\* claim has a job.
THEOREM TypeCorrect == Spec => []TypeOK
<1>1. IInv => TypeOK  BY DEF IInv
<1> QED  BY <1>1, Inductive, PTL

\* Only a row that is claimed again before its dispatch has written it, or a false report,
\* makes a job run beside itself: whatever was cancelled, killed, expired, replayed or
\* restarted, for any number of jobs, dispatches and requests.
THEOREM OneExecution == Spec => []OneExecutionPerJob
<1>1. ASSUME Alone PROVE OneExecutionPerJob
  <2> SUFFICES ASSUME reclaims = 0, NEW j \in Jobs
               PROVE  Cardinality({d \in Of(j) : exec[d] \in {"running", "stopping"}}) <= 1
    BY DEF OneExecutionPerJob
  <2> DEFINE live == {d \in Of(j) : exec[d] \in {"running", "stopping"}}
  <2>1. \A d, e \in live : d = e  BY <1>1 DEF Alone, Sole, Unique, WorkedBy, Of
  <2>2. CASE live = {}
    <3>1. Cardinality(live) = 0  BY <2>2, FS_EmptySet
    <3> QED  BY <3>1
  <2>3. CASE live # {}
    <3>1. PICK d \in live : TRUE  BY <2>3
    <3>2. live = {d}  BY <2>1, <3>1
    <3>3. Cardinality(live) = 1  BY <3>2, FS_Singleton
    <3> QED  BY <3>3
  <2> QED  BY <2>2, <2>3
<1> QED  BY <1>1, Inductive, PTL

-----------------------------------------------------------------------------
(* What a step may do to a row                                             *)

\* The outcomes that one WriteOutcome can give a row.
OutcomeWritten(t, j) ==
    /\ WriteOutcome(t) /\ local[t].job = j
    /\ \/ state'[j] = "killed" /\ Killed(local[t]) /\ attempt'[j] = attempt[j]
       \/ state'[j] = "completed" /\ IsSuccess(local[t]) /\ attempt'[j] = attempt[j]
       \/ /\ state'[j] = "retrying" /\ ~IsSuccess(local[t])
          /\ Retries(local[t]) /\ attempt'[j] = local[t].attempt
       \/ state'[j] = "failed" /\ attempt'[j] = attempt[j]

RowStep(j) ==
    \/ state'[j] = state[j] /\ attempt'[j] = attempt[j]
    \/ state'[j] \in {"cancelled", "kill_requested", "failed"} /\ attempt'[j] = attempt[j]
    \/ state[j] = "absent" /\ state'[j] = "pending" /\ attempt'[j] = attempt[j]
    \/ \E d \in Dispatches : /\ WriteRunning(d) /\ local[d].job = j
                             /\ state'[j] = "running" /\ attempt'[j] = local[d].attempt + 1
    \/ \E t \in Tasks : OutcomeWritten(t, j)

\* A statement that leaves the attempt column alone.
LEMMA PlainWrite ==
    ASSUME TypeOK, NEW i \in Jobs, NEW s \in {"cancelled", "kill_requested", "failed"},
           state' = [state EXCEPT ![i] = s],
           attempt' = attempt \/ attempt' = [attempt EXCEPT ![i] = attempt[i]]
    PROVE  \A j \in Jobs : RowStep(j)
<1>1. \A j \in Jobs : attempt'[j] = attempt[j]  BY DEF TypeOK
<1>2. \A j \in Jobs : state'[j] = state[j] \/ state'[j] = s  BY DEF TypeOK
<1> QED  BY <1>1, <1>2 DEF RowStep

\* finalizeJobResult changes its own row, by the outcome.
LEMMA FinalizeRow ==
    ASSUME IInv, NEW t \in Tasks, FinalizeStep(t)
    PROVE  \A j \in Jobs : RowStep(j)
<1>1. CASE CloseAttempt(t) \/ ClearHandle(t)
  BY <1>1 DEF CloseAttempt, ClearHandle, rows, RowStep
<1>2. CASE WriteOutcome(t)
  <2> DEFINE i == local[t].job
  <2>1. pc[t] = "outcome"  BY <1>2 DEF WriteOutcome
  <2>2. i \in Jobs  BY <2>1, FinalizesOwn
  <2>3. state \in [Jobs -> RowStates] /\ attempt \in [Jobs -> Nat]  BY DEF IInv, TypeOK
  <2>4. PICK s \in {"killed", "completed", "retrying", "failed"}, n \in {attempt[i], local[t].attempt} :
          state' = [state EXCEPT ![i] = s] /\ attempt' = [attempt EXCEPT ![i] = n]
    BY <1>2 DEF WriteOutcome, UpdateJobState, failJob
  <2>5. \A j \in Jobs : j # i => state'[j] = state[j] /\ attempt'[j] = attempt[j]  BY <2>3, <2>4
  <2>6. OutcomeWritten(t, i)
    BY <1>2, <2>2, <2>3 DEF WriteOutcome, UpdateJobState, failJob, OutcomeWritten
  <2> HIDE DEF i
  <2> QED  BY <2>5, <2>6 DEF RowStep
<1> QED  BY <1>1, <1>2 DEF FinalizeStep

\* All a step can do to a row.
LEMMA RowSteps ==
    ASSUME IInv, [Next]_vars
    PROVE  \A j \in Jobs : RowStep(j)
<1>1. CASE UNCHANGED <<state, attempt>>  BY <1>1 DEF RowStep
<1>2. CASE ApiStep
  <2>1. CASE (\E j \in Jobs : EnqueueJob(j)) \/ (\E S \in SUBSET Jobs : BatchEnqueueJobs(S))
    <3>1. attempt' = attempt /\ \A j \in Jobs : state'[j] = state[j]
      BY <2>1 DEF EnqueueJob, BatchEnqueueJobs, CreateJob, RequestedScheduledAt
    <3> QED  BY <3>1 DEF RowStep
  <2>2. CASE \E j \in Jobs : CancelRead(j)  BY <1>1, <2>2 DEF CancelRead, tables, rows
  <2>3. ASSUME NEW orig \in Jobs, NEW i \in Jobs, ReplayJob(orig, i)
        PROVE  \A j \in Jobs : RowStep(j)
    <3>1. /\ attempt' = attempt /\ state[i] = "absent"
          /\ state' = [state EXCEPT ![i] = "pending"]
      BY <2>3 DEF ReplayJob, CreateReplayJob
    <3>2. \A j \in Jobs : state'[j] = state[j] \/ (j = i /\ state'[j] = "pending")
      BY <3>1 DEF IInv, TypeOK
    <3> QED  BY <3>1, <3>2 DEF RowStep
  <2>4. CASE CancelWrite
    BY <2>4, PlainWrite DEF CancelWrite, CancelRow, UpdateJobState, IInv
  <2>5. CASE UpdateQueue  BY <1>1, <2>5 DEF UpdateQueue, rows
  <2> QED  BY <1>2, <2>1, <2>2, <2>3, <2>4, <2>5 DEF ApiStep
<1>3. CASE LoopStep
  <2>1. CASE FinalizeStep(Poller)  BY <2>1, FinalizeRow, Identity
  <2>2. CASE ~FinalizeStep(Poller)
    BY <1>1, <1>3, <2>2 DEF LoopStep, Tick, TickClaims, ListKills, ListPolls, EndRound, KillOne,
       PollNothing, PollTerminal, PollMistaken, tables, rows
  <2> QED  BY <2>1, <2>2
<1>4. ASSUME NEW d \in Dispatches, DispatchStep(d) \/ GiveUp(d) PROVE \A j \in Jobs : RowStep(j)
  <2>1. CASE CheckConcurrency(d) \/ WriteAttempt(d) \/ Start(d) \/ StartReturned(d) \/ GiveUp(d)
    BY <1>1, <2>1 DEF CheckConcurrency, WriteAttempt, Start, StartReturned, GiveUp, tables, rows
  <2>2. CASE FailUnknown(d) \/ SaveHandleFails(d)
    <3>1. pc[d] \in {"start", "accepted"}  BY <2>2 DEF FailUnknown, SaveHandleFails
    <3>2. local[d].job \in Jobs  BY <3>1, Identity DEF IInv, TypeOK
    <3> QED  BY <2>2, <3>2, PlainWrite DEF FailUnknown, SaveHandleFails, failJob, UpdateJobState, IInv
  <2>3. CASE WriteRunning(d)
    <3> DEFINE i == local[d].job
    <3>1. pc[d] = "start"  BY <2>3 DEF WriteRunning
    <3>2. i \in Jobs  BY <3>1, Identity DEF IInv, TypeOK
    <3>3. /\ state' = [state EXCEPT ![i] = "running"]
          /\ attempt' = [attempt EXCEPT ![i] = local[d].attempt + 1]
      BY <2>3 DEF WriteRunning, UpdateJobState
    <3>4. /\ \A j \in Jobs : j # i => state'[j] = state[j] /\ attempt'[j] = attempt[j]
          /\ state'[i] = "running" /\ attempt'[i] = local[d].attempt + 1
      BY <3>2, <3>3 DEF IInv, TypeOK
    <3> QED  BY <2>3, <3>4 DEF RowStep
  <2>4. CASE SaveHandle(d)  BY <1>1, <2>4 DEF SaveHandle
  <2>5. CASE FinalizeStep(d)  BY <2>5, FinalizeRow, Identity
  <2> QED  BY <1>4, <2>1, <2>2, <2>3, <2>4, <2>5 DEF DispatchStep
<1>5. CASE (\E d \in Dispatches : ExecEnds(d)) \/ ListExpired \/ Crash
  BY <1>1, <1>5 DEF ExecEnds, ListExpired, Crash, tables, rows
<1>6. ASSUME NEW i \in Jobs, Expire(i) PROVE \A j \in Jobs : RowStep(j)
  BY <1>6, PlainWrite DEF Expire, CancelRow, IInv
<1>7. CASE UNCHANGED vars  BY <1>1, <1>7 DEF vars, tables, rows
<1> QED  BY <1>2, <1>3, <1>4, <1>5, <1>6, <1>7 DEF Next

\* What a claim carries: the attempt number of a row that could be claimed, kept since.
LEMMA ClaimCarries ==
    ASSUME IInv, [Next]_vars, NEW d \in Dispatches, pc'[d] \in Undecided
    PROVE  \/ /\ pc[d] \in Undecided /\ local'[d] = local[d]
           \/ /\ Tick /\ local'[d].job \in Jobs /\ state[local'[d].job] \in Unstarted
              /\ local'[d].attempt = attempt[local'[d].job]
<1>1. CASE UNCHANGED <<pc, local>>  BY <1>1
<1>2. CASE LoopStep
  <2>1. CASE Tick
    <3>1. PICK S \in SUBSET ClaimPendingJobs : TickClaims(S)  BY <2>1 DEF Tick
    <3>2. \/ pc'[d] = pc[d] /\ local'[d] = local[d]
          \/ local'[d].job \in S /\ local'[d].attempt = attempt[local'[d].job]
      BY <3>1, ClaimStep, Identity DEF IInv
    <3> QED  BY <2>1, <3>2 DEF ClaimPendingJobs, Unstarted
  <2>2. ASSUME NEW r \in pollList, PollTerminal(r) \/ PollMistaken(r)
        PROVE  pc'[d] = pc[d] /\ local'[d] = local[d]
    <3>1. \E result \in Results : Finalize(r, result)
      BY <2>2, ReportResults DEF PollTerminal, PollMistaken
    <3> QED  BY <3>1, FinalizeNew DEF IInv, Core
  <2>3. CASE FinalizeStep(Poller)
    <3>1. pc'[d] = pc[d] /\ local'[d] = local[d]
      BY <2>3, GotoType, ReturnType, Identity
      DEF FinalizeStep, CloseAttempt, ClearHandle, WriteOutcome, Labels, IInv
    <3> QED  BY <3>1
  <2>4. CASE /\ ~Tick /\ ~FinalizeStep(Poller)
             /\ ~\E r \in pollList : PollTerminal(r) \/ PollMistaken(r)
    BY <1>1, <1>2, <2>4 DEF LoopStep, ListKills, ListPolls, EndRound, KillOne, PollNothing, tasks
  <2> QED  BY <2>1, <2>2, <2>3, <2>4
<1>3. ASSUME NEW e \in Dispatches, DispatchStep(e) \/ GiveUp(e)
      PROVE  pc[d] \in Undecided /\ local'[d] = local[d]
  <2>1. \A u \in Tasks : u # e => pc'[u] = pc[u] /\ local'[u] = local[u]
    <3>1. CASE Return(e)  BY <3>1, ReturnType, Identity DEF IInv
    <3>2. CASE \E l \in Labels : Goto(e, l) /\ \E v : local' = [local EXCEPT ![e] = v]
      BY <3>2, GotoType, Identity DEF IInv, TypeOK
    <3>3. CASE \E l \in Labels : Goto(e, l) /\ UNCHANGED local
      BY <3>3, GotoType, Identity DEF IInv, TypeOK
    <3>4. CASE CheckConcurrency(e)  BY <3>1, <3>3, <3>4 DEF CheckConcurrency, Labels
    <3>5. CASE FailUnknown(e) \/ SaveHandle(e) \/ SaveHandleFails(e) \/ WriteOutcome(e)
      BY <3>1, <3>5 DEF FailUnknown, SaveHandle, SaveHandleFails, WriteOutcome
    <3>6. CASE WriteRunning(e) \/ StartReturned(e) \/ GiveUp(e)
      BY <3>2, <3>6 DEF WriteRunning, StartReturned, GiveUp, Labels
    <3>7. CASE WriteAttempt(e) \/ CloseAttempt(e) \/ ClearHandle(e)
      BY <3>3, <3>7 DEF WriteAttempt, CloseAttempt, ClearHandle, Labels
    <3>8. CASE Start(e)  BY <3>2, <3>3, <3>8 DEF Start, Labels
    <3> QED  BY <1>3, <3>4, <3>5, <3>6, <3>7, <3>8 DEF DispatchStep, FinalizeStep
  <2>2. CASE e # d  BY <2>1, <2>2, Identity
  <2>3. CASE e = d
    <3>1. CASE CheckConcurrency(d)
      BY <3>1, ReturnType, Identity DEF CheckConcurrency, Undecided, IInv
    <3>2. CASE Return(d)  BY <3>2, ReturnType, Identity DEF IInv, Undecided
    <3>3. CASE \E l \in Labels \ Undecided : Goto(d, l)  BY <3>3, GotoType, Identity DEF IInv
    <3> QED
      BY <1>3, <2>3, <3>1, <3>2, <3>3 DEF DispatchStep, FinalizeStep, FailUnknown, WriteRunning,
         WriteAttempt, Start, StartReturned, GiveUp, SaveHandle, SaveHandleFails, CloseAttempt, ClearHandle,
         WriteOutcome, Labels, Undecided
  <2> QED  BY <2>2, <2>3
<1>4. CASE ApiStep \/ (\E e \in Dispatches : ExecEnds(e)) \/ ListExpired
           \/ (\E j \in Jobs : Expire(j)) \/ UNCHANGED vars
  BY <1>1, <1>4, ApiQuiet DEF books, ExecEnds, ListExpired, Expire, vars, tasks, IInv
<1>5. CASE Crash
  <2>1. pc'[d] \in {"idle", "done"}  BY <1>5, Identity DEF Crash
  <2> QED  BY <2>1 DEF Undecided
<1> QED  BY <1>2, <1>3, <1>4, <1>5 DEF Next

-----------------------------------------------------------------------------
(* Attempts                                                                *)

\* A row that can be claimed, and a dispatch that holds a claim, has an attempt left.
Numbers ==
    /\ \A j \in Jobs : state[j] \in Unstarted => attempt[j] < MaxAttempts
    /\ \A d \in Dispatches : pc[d] \in Undecided => local[d].attempt < MaxAttempts

\* Every step keeps the numbers.
LEMMA NumbersNext ==
    ASSUME IInv, Numbers, JobAttemptsBounded, [Next]_vars
    PROVE  Numbers' /\ JobAttemptsBounded'
<1> USE DEF IInv
<1>1. ASSUME NEW j \in Jobs
      PROVE  /\ attempt'[j] <= MaxAttempts
             /\ state'[j] \in Unstarted => attempt'[j] < MaxAttempts
  <2>1. attempt[j] <= MaxAttempts /\ (state[j] \in Unstarted => attempt[j] < MaxAttempts)
    BY DEF Numbers, JobAttemptsBounded
  <2>2. CASE \E d \in Dispatches : /\ WriteRunning(d) /\ local[d].job = j
                                   /\ state'[j] = "running" /\ attempt'[j] = local[d].attempt + 1
    <3>1. PICK d \in Dispatches : /\ WriteRunning(d) /\ state'[j] = "running"
                                  /\ attempt'[j] = local[d].attempt + 1
      BY <2>2
    <3>2. local[d].attempt < MaxAttempts  BY <3>1 DEF WriteRunning, Undecided, Numbers
    <3>3. local[d].attempt \in Nat  BY Identity DEF TypeOK, Locals
    <3> QED  BY <3>1, <3>2, <3>3, QueueAssumption DEF Unstarted
  <2>3. CASE \E t \in Tasks : OutcomeWritten(t, j)
    <3>1. PICK t \in Tasks : OutcomeWritten(t, j)  BY <2>3
    <3>2. local[t].attempt \in Nat /\ local[t].max \in 0 .. MaxAttempts  BY DEF TypeOK, Locals
    <3> QED  BY <2>1, <3>1, <3>2, QueueAssumption DEF OutcomeWritten, Retries, Unstarted
  <2>4. RowStep(j)  BY RowSteps
  <2> QED  BY <2>1, <2>2, <2>3, <2>4 DEF RowStep, Unstarted
<1>2. ASSUME NEW d \in Dispatches, pc'[d] \in Undecided
      PROVE  local'[d].attempt < MaxAttempts
  BY <1>2, ClaimCarries DEF Numbers
<1> QED  BY <1>1, <1>2 DEF Numbers, JobAttemptsBounded, Undecided

\* max_attempts includes the first attempt: no sequence of claims, also of the same row,
\* retries, cancellations, changes of the queue, replays and restarts starts a job more
\* often than the largest maximum its queue has had.
THEOREM AttemptsStayBounded == Spec => []JobAttemptsBounded
<1>1. Init => Numbers /\ JobAttemptsBounded
  BY QueueAssumption, Identity DEF Init, Numbers, JobAttemptsBounded, Undecided
<1>2. IInv /\ (Numbers /\ JobAttemptsBounded) /\ [Next]_vars => (Numbers /\ JobAttemptsBounded)'
  BY NumbersNext
<1> QED  BY <1>1, <1>2, Inductive, PTL DEF Spec

-----------------------------------------------------------------------------
(* Outcomes                                                                *)

\* The executions that bear out a result; each of these sets is left by no step.
Ill == {"failure", "killed", "lost", "missed"}

Proves(result) ==
    CASE result = "success" -> EndedWell
      [] result = "failure" -> Ill
      [] result = "killed"  -> Ill
      [] result = "gone"    -> {"gone"}
      [] OTHER              -> {}

EvidenceKept(d) ==
    /\ exec[d] \in EndedWell => exec'[d] \in EndedWell
    /\ exec[d] \in Ill => exec'[d] \in Ill
    /\ exec[d] = "gone" => exec'[d] = "gone"
    /\ exec[d] # "none" => attemptRow'[d].job = attemptRow[d].job

\* What a report makes of an execution is no less evidence than what it was.
LEMMA BeliedEvidence ==
    /\ \A e \in ExecStates : /\ e \in EndedWell => Belied(e) \in EndedWell
                             /\ e \in Ill => Belied(e) \in Ill
                             /\ e = "gone" => Belied(e) = "gone"
                             /\ e \notin {"none", "gone"} => Belied(e) \in Ill
    /\ \A e \in ExecStates : \A f \in AfterKill(e) :
         (e \in EndedWell => f \in EndedWell) /\ (e \in Ill => f \in Ill) /\ e # "gone"
<1>1. ASSUME NEW e \in ExecStates
      PROVE  /\ e \in EndedWell => Belied(e) \in EndedWell
             /\ e \in Ill => Belied(e) \in Ill
             /\ e = "gone" => Belied(e) = "gone"
             /\ e \notin {"none", "gone"} => Belied(e) \in Ill
  BY DEF Belied, ExecStates, Ended, EndedWell, Ill
<1>2. ASSUME NEW e \in ExecStates, NEW f \in AfterKill(e)
      PROVE  (e \in EndedWell => f \in EndedWell) /\ (e \in Ill => f \in Ill) /\ e # "gone"
  <2>1. CASE e = "running"  BY <2>1 DEF EndedWell, Ill
  <2>2. CASE e \in {"success", "failure", "missed"}
    BY <1>2, <2>2 DEF AfterKill, EndedWell, Ill
  <2>3. CASE e \notin {"running", "success", "failure", "missed"}
    BY <1>2, <2>3 DEF AfterKill
  <2> QED  BY <2>1, <2>2, <2>3
<1> QED  BY <1>1, <1>2

\* A step that changes one execution into such evidence.
LEMMA OneExec ==
    ASSUME TypeOK, NEW e \in Dispatches, NEW v, exec' = [exec EXCEPT ![e] = v],
           attemptRow' = attemptRow,
           exec[e] \in EndedWell => v \in EndedWell, exec[e] \in Ill => v \in Ill,
           exec[e] = "gone" => v = "gone"
    PROVE  \A d \in Dispatches : EvidenceKept(d)
  BY DEF TypeOK, EvidenceKept

\* Every step keeps the evidence.
LEMMA EvidenceStep ==
    ASSUME IInv, [Next]_vars
    PROVE  \A d \in Dispatches : EvidenceKept(d)
<1>0. TypeOK  BY DEF IInv
<1>1. CASE UNCHANGED <<exec, attemptRow>>  BY <1>1 DEF EvidenceKept
<1>2. CASE ApiStep  BY <1>0, <1>1, <1>2, ApiQuiet DEF books
<1>3. ASSUME NEW t \in Tasks, FinalizeStep(t) PROVE \A d \in Dispatches : EvidenceKept(d)
  <2>1. CASE CloseAttempt(t)
    <3>1. attemptRow' = [attemptRow EXCEPT ![local[t].row].finished = TRUE] /\ exec' = exec
      BY <2>1 DEF CloseAttempt, FinishJobAttempt, outside
    <3> QED  BY <1>0, <3>1 DEF TypeOK, EvidenceKept
  <2>2. CASE ClearHandle(t) \/ WriteOutcome(t)
    BY <1>1, <2>2 DEF ClearHandle, WriteOutcome, outside
  <2> QED  BY <1>3, <2>1, <2>2 DEF FinalizeStep
<1>4. CASE LoopStep
  <2>1. ASSUME NEW j \in Jobs, KillOne(j) PROVE \A d \in Dispatches : EvidenceKept(d)
    <3>1. attemptRow' = attemptRow  BY <2>1 DEF KillOne, tables
    <3>2. CASE UNCHANGED exec  BY <1>1, <3>1, <3>2
    <3>3. ASSUME handle[j] # NoOne, NEW f \in AfterKill(exec[handle[j]]),
                 exec' = [exec EXCEPT ![handle[j]] = f]
          PROVE  \A d \in Dispatches : EvidenceKept(d)
      <4>1. handle[j] \in Dispatches /\ exec[handle[j]] \in ExecStates  BY <1>0, <3>3 DEF TypeOK
      <4> QED  BY <1>0, <3>1, <3>3, <4>1, OneExec, BeliedEvidence
    <3> QED  BY <2>1, <3>2, <3>3 DEF KillOne
  <2>2. ASSUME NEW r \in pollList, PollMistaken(r) PROVE \A d \in Dispatches : EvidenceKept(d)
    <3>1. exec' = [exec EXCEPT ![r.exec] = Belied(exec[r.exec])] /\ attemptRow' = attemptRow
      BY <2>2 DEF PollMistaken, tables
    <3>2. r.exec \in Dispatches  BY DEF IInv, Core, Polls, Polled, PolledOf
    <3>3. exec[r.exec] \in ExecStates  BY <1>0, <3>2 DEF TypeOK
    <3> QED  BY <1>0, <3>1, <3>2, <3>3, OneExec, BeliedEvidence
  <2>3. CASE ~(\E j \in Jobs : KillOne(j)) /\ ~FinalizeStep(Poller)
             /\ ~(\E r \in pollList : PollMistaken(r))
    BY <1>1, <1>4, <2>3 DEF LoopStep, Tick, TickClaims, ListKills, ListPolls, EndRound,
       PollNothing, PollTerminal, tables, outside
  <2> QED  BY <1>3, <2>1, <2>2, <2>3, Identity
<1>5. ASSUME NEW e \in Dispatches, DispatchStep(e) \/ GiveUp(e)
      PROVE  \A d \in Dispatches : EvidenceKept(d)
  <2>0. exec[e] \in ExecStates  BY <1>0 DEF TypeOK
  <2>1. CASE CheckConcurrency(e) \/ FailUnknown(e) \/ WriteRunning(e) \/ StartReturned(e)
             \/ SaveHandle(e)
    BY <1>1, <2>1 DEF CheckConcurrency, FailUnknown, WriteRunning, StartReturned, SaveHandle,
       tables, outside
  <2>2. CASE WriteAttempt(e)
    <3>1. exec[e] = "none"  BY <2>2 DEF WriteAttempt, IInv, Core, Goroutines
    <3>2. exec' = exec /\ \E v : attemptRow' = [attemptRow EXCEPT ![e] = v]
      BY <2>2 DEF WriteAttempt, CreateJobAttempt, outside
    <3> QED  BY <1>0, <3>1, <3>2 DEF TypeOK, EvidenceKept
  <2>3. CASE Start(e)
    <3>1. exec[e] = "none"  BY <2>3 DEF Start, IInv, Core, Goroutines
    <3>2. attemptRow' = attemptRow /\ \E v : exec' = [exec EXCEPT ![e] = v]
      BY <2>3 DEF Start, tables
    <3>3. exec[e] \notin EndedWell \cup Ill /\ exec[e] # "gone"  BY <3>1 DEF EndedWell, Ill
    <3> QED  BY <1>0, <3>2, <3>3, OneExec
  <2>4. CASE SaveHandleFails(e) \/ GiveUp(e)
    <3>1. attemptRow' = attemptRow /\ exec' = [exec EXCEPT ![e] = Belied(exec[e])]
      BY <2>4 DEF SaveHandleFails, GiveUp, tables
    <3> QED  BY <1>0, <2>0, <3>1, OneExec, BeliedEvidence
  <2>5. CASE FinalizeStep(e)  BY <1>3, <2>5, Identity
  <2> QED  BY <1>5, <2>1, <2>2, <2>3, <2>4, <2>5 DEF DispatchStep
<1>6. ASSUME NEW e \in Dispatches, ExecEnds(e) PROVE \A d \in Dispatches : EvidenceKept(d)
  <2>1. PICK s \in {"success", "failure", "killed", "gone", "missed"} :
             /\ exec' = [exec EXCEPT ![e] = s]
             /\ exec[e] \in {"running", "stopping", "lost"}
             /\ exec[e] = "lost" => s \in {"missed", "failure"}
    BY <1>0, <1>6, ExecEndsTo
  <2>2. attemptRow' = attemptRow  BY <1>6 DEF ExecEnds, tables
  <2> QED  BY <1>0, <2>1, <2>2, OneExec DEF EndedWell, Ill
<1>7. CASE ListExpired \/ (\E j \in Jobs : Expire(j)) \/ Crash \/ UNCHANGED vars
  BY <1>1, <1>7 DEF ListExpired, Expire, Crash, vars, tables, outside
<1> QED  BY <1>2, <1>4, <1>5, <1>6, <1>7 DEF Next

\* A result that is being written is borne out by an execution of the job.
Attested(j, S) == \E d \in Dispatches : attemptRow[d].job = j /\ exec[d] \in S

Evidence ==
    \A t \in Tasks : pc[t] \in {"finish", "clear", "outcome"} =>
      Attested(local[t].job, Proves(local[t].result))

\* The executions behind a state a row ends in or is retried from.
Backs(s) ==
    CASE s = "completed" -> EndedWell
      [] s = "retrying" -> Ill
      [] s = "killed" -> Ill \cup {"gone"}

Backed(j) ==
    state[j] \in {"completed", "retrying", "killed"} => Attested(j, Backs(state[j]))

\* That is what the property says.
LEMMA BackedAll == JobOutcomeIsBacked <=> \A j \in Jobs : Backed(j)
  BY DEF JobOutcomeIsBacked, Backed, Backs, Of, Attested, Ill

\* The same of the next state.
LEMMA BackedAllNext == JobOutcomeIsBacked' <=> \A j \in Jobs : Backed(j)'
  BY DEF JobOutcomeIsBacked, Backed, Backs, Of, Attested, Ill, EndedWell

\* An execution that bears something out goes on bearing it out.
LEMMA AttestedStep ==
    ASSUME IInv, [Next]_vars, NEW j, NEW S, S \in {EndedWell, Ill, {"gone"}, Ill \cup {"gone"}},
           Attested(j, S)
    PROVE  \E d \in Dispatches : attemptRow'[d].job = j /\ exec'[d] \in S
<1>1. PICK d \in Dispatches : attemptRow[d].job = j /\ exec[d] \in S  BY DEF Attested
<1>2. EvidenceKept(d)  BY EvidenceStep
<1>3. exec[d] # "none"  BY <1>1 DEF EndedWell, Ill
<1> QED  BY <1>1, <1>2, <1>3 DEF EvidenceKept

\* The result a goroutine holds comes from the place where it was told.
LEMMA ResultSteps ==
    ASSUME IInv, [Next]_vars, NEW t \in Tasks, pc'[t] \in {"finish", "clear", "outcome"}
    PROVE  \/ pc[t] \in {"finish", "clear", "outcome"} /\ local'[t] = local[t]
           \/ /\ local'[t].result \in Results \ {"none"}
              /\ \E d \in Dispatches :
                   attemptRow'[d].job = local'[t].job /\ exec'[d] \in Proves(local'[t].result)
<1>0. TypeOK  BY DEF IInv
<1>1. CASE UNCHANGED <<pc, local>>  BY <1>1
<1>2. ASSUME NEW u \in Tasks, FinalizeStep(u)
      PROVE  pc[t] \in {"finish", "clear", "outcome"} /\ local'[t] = local[t]
  <2>1. CASE CloseAttempt(u) \/ ClearHandle(u)
    <3>1. local' = local /\ pc[u] \in {"finish", "clear"}  BY <2>1 DEF CloseAttempt, ClearHandle
    <3>2. \A v \in Tasks : v # u => pc'[v] = pc[v]
      BY <1>0, <2>1, GotoType DEF CloseAttempt, ClearHandle, Labels
    <3> QED  BY <3>1, <3>2
  <2>2. CASE WriteOutcome(u)
    <3>1. Return(u)  BY <2>2 DEF WriteOutcome
    <3> QED  BY <1>0, <3>1, ReturnType
  <2> QED  BY <1>2, <2>1, <2>2 DEF FinalizeStep
<1>3. CASE LoopStep
  <2>1. CASE Tick
    <3>1. PICK S \in SUBSET ClaimPendingJobs : TickClaims(S)  BY <2>1 DEF Tick
    <3> QED  BY <1>0, <3>1, ClaimStep
  <2>2. ASSUME NEW r \in pollList, PollTerminal(r)
        PROVE  \/ pc[t] \in {"finish", "clear", "outcome"} /\ local'[t] = local[t]
               \/ /\ local'[t].result \in Results \ {"none"}
                  /\ \E d \in Dispatches :
                       attemptRow'[d].job = local'[t].job /\ exec'[d] \in Proves(local'[t].result)
    <3>1. PICK result \in Reported(r) : Finalize(r, result)  BY <2>2 DEF PollTerminal
    <3>2. exec[r.exec] \in Ended /\ exec' = exec /\ attemptRow' = attemptRow
      BY <2>2 DEF PollTerminal, tables, outside
    <3>3. result \in Results  BY <3>2, ReportResults
    <3>4. PolledOf(r)  BY DEF IInv, Core, Polls, Polled
    <3>5. /\ \A v \in Tasks : v # Poller => pc'[v] = pc[v] /\ local'[v] = local[v]
          /\ local'[Poller].job = r.job /\ local'[Poller].result = result
      BY <3>1, <3>3, FinalizeNew DEF IInv, Core
    <3>6. result # "none" /\ exec[r.exec] \in Proves(result)
      <4>1. CASE exec[r.exec] \in {"success", "missed"}
        BY <3>1, <4>1 DEF Reported, Proves, EndedWell
      <4>2. CASE exec[r.exec] \in {"failure", "gone"}
        BY <3>1, <4>2 DEF Reported, Proves, Ill
      <4>3. CASE exec[r.exec] = "killed"
        BY <3>1, <4>3 DEF Reported, Proves, Ill, EndedWell
      <4> QED  BY <3>2, <4>1, <4>2, <4>3 DEF Ended
    <3> QED  BY <3>2, <3>3, <3>4, <3>5, <3>6 DEF PolledOf
  <2>3. ASSUME NEW r \in pollList, PollMistaken(r)
        PROVE  \/ pc[t] \in {"finish", "clear", "outcome"} /\ local'[t] = local[t]
               \/ /\ local'[t].result \in Results \ {"none"}
                  /\ \E d \in Dispatches :
                       attemptRow'[d].job = local'[t].job /\ exec'[d] \in Proves(local'[t].result)
    <3>1. PICK result \in Mistaken(r) : Finalize(r, result)  BY <2>3 DEF PollMistaken
    <3>2. /\ exec[r.exec] # "gone" /\ attemptRow' = attemptRow
          /\ exec' = [exec EXCEPT ![r.exec] = Belied(exec[r.exec])]
      BY <2>3 DEF PollMistaken, tables
    <3>3. result \in {"failure", "killed", "success"}
          /\ (result = "success" => \E d \in Of(r.job) : exec[d] \in EndedWell)
      BY <3>1 DEF Mistaken
    <3>4. PolledOf(r)  BY DEF IInv, Core, Polls, Polled
    <3>5. /\ \A v \in Tasks : v # Poller => pc'[v] = pc[v] /\ local'[v] = local[v]
          /\ local'[Poller].job = r.job /\ local'[Poller].result = result
      BY <3>1, <3>3, FinalizeNew DEF IInv, Core, Results
    <3>6. \E d \in Dispatches : attemptRow'[d].job = r.job /\ exec'[d] \in Proves(result)
      <4>1. CASE result = "success"
        <5>1. PICK d \in Dispatches : attemptRow[d].job = r.job /\ exec[d] \in EndedWell
          BY <3>3, <4>1 DEF Of
        <5>2. exec'[d] \in EndedWell  BY <5>1, EvidenceStep DEF EvidenceKept
        <5> QED  BY <3>2, <4>1, <5>1, <5>2 DEF Proves
      <4>2. CASE result \in {"failure", "killed"}
        <5>1. r.exec \in Dispatches /\ exec[r.exec] \in ExecStates /\ exec[r.exec] # "none"
          BY <1>0, <3>4 DEF PolledOf, TypeOK
        <5>2. exec'[r.exec] \in Ill  BY <1>0, <3>2, <5>1, BeliedEvidence DEF TypeOK
        <5> QED  BY <3>2, <3>4, <4>2, <5>1, <5>2 DEF Proves, PolledOf
      <4> QED  BY <3>3, <4>1, <4>2
    <3> QED  BY <3>3, <3>5, <3>6 DEF Results
  <2>4. CASE FinalizeStep(Poller)  BY <1>2, <2>4, Identity
  <2>5. CASE /\ ~Tick /\ ~FinalizeStep(Poller)
             /\ ~\E r \in pollList : PollTerminal(r) \/ PollMistaken(r)
    BY <1>1, <1>3, <2>5 DEF LoopStep, ListKills, ListPolls, EndRound, KillOne, PollNothing, tasks
  <2> QED  BY <2>1, <2>2, <2>3, <2>4, <2>5
<1>4. ASSUME NEW e \in Dispatches, DispatchStep(e) \/ GiveUp(e)
      PROVE  \/ pc[t] \in {"finish", "clear", "outcome"} /\ local'[t] = local[t]
             \/ /\ local'[t].result \in Results \ {"none"}
                /\ \E d \in Dispatches :
                     attemptRow'[d].job = local'[t].job /\ exec'[d] \in Proves(local'[t].result)
  <2>0. e \in Tasks /\ local[e] \in Locals /\ exec[e] \in ExecStates  BY <1>0, Identity DEF TypeOK
  <2>1. CASE FinalizeStep(e)  BY <1>2, <2>0, <2>1
  <2>2. CASE CheckConcurrency(e) \/ FailUnknown(e) \/ SaveHandle(e) \/ SaveHandleFails(e)
    <3>1. Return(e) \/ (Goto(e, "start") /\ UNCHANGED local)
      BY <2>2 DEF CheckConcurrency, FailUnknown, SaveHandle, SaveHandleFails
    <3> QED  BY <1>0, <2>0, <3>1, ReturnType, GotoType DEF Labels
  <2>3. CASE WriteRunning(e)
    <3>1. Goto(e, "attempt") /\ \A u \in Tasks : u # e => local'[u] = local[u]
      BY <1>0, <2>3 DEF WriteRunning, TypeOK
    <3> QED  BY <1>0, <2>0, <3>1, GotoType DEF Labels
  <2>4. CASE WriteAttempt(e)
    <3>1. Goto(e, "starting") /\ local' = local  BY <2>4 DEF WriteAttempt
    <3> QED  BY <1>0, <2>0, <3>1, GotoType DEF Labels
  <2>5. ASSUME NEW label \in {"blocking", "accepted"}, Goto(e, label), UNCHANGED local
        PROVE  pc[t] \in {"finish", "clear", "outcome"} /\ local'[t] = local[t]
    BY <1>0, <2>0, <2>5, GotoType DEF Labels
  <2>6. ASSUME NEW res \in {"success", "failure"}, local' = [local EXCEPT ![e].result = res],
               Goto(e, "finish"), attemptRow' = attemptRow, exec'[e] \in Proves(res),
               pc[e] \in {"starting", "blocking"}
        PROVE  \/ pc[t] \in {"finish", "clear", "outcome"} /\ local'[t] = local[t]
               \/ /\ local'[t].result \in Results \ {"none"}
                  /\ \E d \in Dispatches :
                       attemptRow'[d].job = local'[t].job /\ exec'[d] \in Proves(local'[t].result)
    <3>1. CASE t # e  BY <1>0, <2>0, <2>6, <3>1, GotoType DEF Labels, TypeOK
    <3>2. CASE t = e
      <4>1. local'[t].result = res /\ local'[t].job = local[t].job
        BY <1>0, <2>0, <2>6, <3>2 DEF TypeOK, Locals
      <4>2. attemptRow[e].job = local[e].job  BY <2>6 DEF IInv, Core, Goroutines, Working
      <4> QED  BY <2>6, <3>2, <4>1, <4>2 DEF Results
    <3> QED  BY <3>1, <3>2
  <2>7. CASE Start(e)
    <3>1. pc[e] = "starting" /\ attemptRow' = attemptRow  BY <2>7 DEF Start, tables
    <3>2. CASE \E label \in {"blocking", "accepted"} : Goto(e, label) /\ UNCHANGED local
      BY <2>5, <3>2
    <3>3. CASE /\ Goto(e, "finish") /\ local' = [local EXCEPT ![e].result = "failure"]
               /\ \E v \in {"failure", "lost"} : exec' = [exec EXCEPT ![e] = v]
      <4>1. exec'[e] \in Ill  BY <1>0, <3>3 DEF Ill, TypeOK
      <4>2. Proves("failure") = Ill  BY DEF Proves
      <4> QED  BY <2>6, <3>1, <3>3, <4>1, <4>2
    <3> QED  BY <2>7, <3>2, <3>3 DEF Start
  <2>8. CASE StartReturned(e)
    <3>1. /\ pc[e] = "blocking" /\ attemptRow' = attemptRow /\ exec' = exec /\ Goto(e, "finish")
          /\ exec[e] \in {"success", "failure"} /\ local' = [local EXCEPT ![e].result = exec[e]]
      BY <2>8 DEF StartReturned, tables, outside
    <3>2. exec[e] \in Proves(exec[e])  BY <3>1 DEF Proves, EndedWell, Ill
    <3> QED  BY <2>6, <3>1, <3>2
  <2>9. CASE GiveUp(e)
    <3>1. /\ pc[e] = "blocking" /\ attemptRow' = attemptRow /\ Goto(e, "finish")
          /\ exec' = [exec EXCEPT ![e] = Belied(exec[e])] /\ exec[e] \in {"running", "success"}
          /\ local' = [local EXCEPT ![e].result = "failure"]
      BY <2>9 DEF GiveUp, tables
    <3>2. exec'[e] \in Ill  BY <1>0, <2>0, <3>1, BeliedEvidence DEF TypeOK
    <3>3. Proves("failure") = Ill  BY DEF Proves
    <3> QED  BY <2>6, <3>1, <3>2, <3>3
  <2> QED  BY <1>4, <2>1, <2>2, <2>3, <2>4, <2>7, <2>8, <2>9 DEF DispatchStep
<1>5. CASE ApiStep \/ (\E e \in Dispatches : ExecEnds(e)) \/ ListExpired
           \/ (\E j \in Jobs : Expire(j)) \/ UNCHANGED vars
  BY <1>0, <1>1, <1>5, ApiQuiet DEF books, ExecEnds, ListExpired, Expire, vars, tasks
<1>6. CASE Crash
  <2>1. pc'[t] \in {"idle", "done"}  BY <1>6 DEF Crash
  <2> QED  BY <2>1
<1> QED  BY <1>3, <1>4, <1>5, <1>6 DEF Next

\* Every step keeps the evidence behind the results that are being written.
LEMMA EvidenceNext ==
    ASSUME IInv, Evidence, [Next]_vars
    PROVE  Evidence'
<1> SUFFICES ASSUME NEW t \in Tasks, pc'[t] \in {"finish", "clear", "outcome"}
             PROVE  \E d \in Dispatches :
                      attemptRow'[d].job = local'[t].job /\ exec'[d] \in Proves(local'[t].result)
  BY DEF Evidence, Attested, Proves, EndedWell, Ill
<1>1. CASE pc[t] \in {"finish", "clear", "outcome"} /\ local'[t] = local[t]
  <2>1. Attested(local[t].job, Proves(local[t].result))  BY <1>1 DEF Evidence
  <2>2. Proves(local[t].result) \in {EndedWell, Ill, {"gone"}}
    <3>1. Proves(local[t].result) # {}  BY <2>1 DEF Attested
    <3> QED  BY <3>1 DEF Proves
  <2> QED  BY <1>1, <2>1, <2>2, AttestedStep
<1> QED  BY <1>1, ResultSteps

\* An outcome is written from a result that is borne out.
LEMMA OutcomesNext ==
    ASSUME IInv, Evidence, JobOutcomeIsBacked, [Next]_vars
    PROVE  JobOutcomeIsBacked'
<1> SUFFICES ASSUME NEW j \in Jobs, state'[j] \in {"completed", "retrying", "killed"}
             PROVE  \E d \in Dispatches : attemptRow'[d].job = j /\ exec'[d] \in Backs(state'[j])
  BY BackedAllNext DEF Backed, Backs, Attested, EndedWell, Ill
<1>1. CASE state'[j] = state[j]
  <2>1. Attested(j, Backs(state[j]))  BY <1>1, BackedAll DEF Backed
  <2>2. Backs(state[j]) \in {EndedWell, Ill, Ill \cup {"gone"}}  BY <1>1 DEF Backs
  <2> QED  BY <1>1, <2>1, <2>2, AttestedStep
<1>2. CASE state'[j] # state[j]
  <2>1. PICK t \in Tasks : OutcomeWritten(t, j)
    <3>1. RowStep(j)  BY RowSteps
    <3> QED  BY <1>2, <3>1 DEF RowStep
  <2>2. pc[t] = "outcome" /\ local[t].job = j /\ attemptRow' = attemptRow /\ exec' = exec
    BY <2>1 DEF OutcomeWritten, WriteOutcome, outside
  <2>3. Attested(j, Proves(local[t].result))  BY <2>2 DEF Evidence
  <2>4. local[t].result \in Results  BY DEF IInv, TypeOK, Locals
  <2>5. Proves(local[t].result) \subseteq Backs(state'[j])
    <3>1. CASE state'[j] = "killed"
      BY <2>1, <3>1 DEF OutcomeWritten, Killed, Proves, Backs
    <3>2. CASE state'[j] = "completed"
      BY <2>1, <3>2 DEF OutcomeWritten, IsSuccess, Proves, Backs, EndedWell
    <3>3. CASE state'[j] = "retrying"
      <4>1. local[t].result \in {"none", "failure", "killed"}
        BY <2>1, <2>4, <3>3 DEF OutcomeWritten, IsSuccess, Results
      <4> QED  BY <3>3, <4>1 DEF Proves, Backs
    <3> QED  BY <3>1, <3>2, <3>3
  <2> QED  BY <2>2, <2>3, <2>5 DEF Attested
<1> QED  BY <1>1, <1>2

\* A job is completed, retried or killed only by an execution of its own that ended that
\* way or was reported to have, whatever claims, polls, false reports, kills and restarts
\* come between the execution's end and the write.
THEOREM OutcomesAreBacked == Spec => []JobOutcomeIsBacked
<1>1. Init => Evidence /\ JobOutcomeIsBacked
  <2> SUFFICES ASSUME Init PROVE Evidence /\ JobOutcomeIsBacked  OBVIOUS
  <2>1. /\ \A j \in Jobs : state[j] \in {"pending", "absent"}
        /\ \A t \in Tasks : pc[t] = "idle"
    BY DEF Init
  <2> QED  BY <2>1 DEF JobOutcomeIsBacked, Evidence
<1>2. IInv /\ (Evidence /\ JobOutcomeIsBacked) /\ [Next]_vars => (Evidence /\ JobOutcomeIsBacked)'
  BY OutcomesNext, EvidenceNext
<1> QED  BY <1>1, <1>2, Inductive, PTL DEF Spec

-----------------------------------------------------------------------------
(* Running jobs are followed                                               *)

\* A goroutine that will leave a trail: with its attempt still open as long as all it
\* may do is store a handle.
Healthy(t, j) ==
    Finishing(t, j) /\ (pc[t] \in {"starting", "blocking", "accepted"} => ~attemptRow[t].finished)

Followed(j) == (\E t \in Tasks : Healthy(t, j)) \/ (handle[j] # NoOne /\ OpenAttempts(j) # {})

\* Stronger than RunningIsFollowed: of the goroutines that RunningIsFollowed counts,
\* one that was claimed twice may have had its attempt closed by a poll.
WellFollowed == crashes = 0 => \A j \in Jobs : state[j] = "running" => Followed(j)

\* A step that takes no goroutine from the job and keeps its handle and its attempts.
LEMMA FollowedFrame ==
    ASSUME NEW j \in Jobs, Followed(j), handle'[j] = handle[j],
           \A d \in Dispatches : attemptRow[d].job = j => attemptRow'[d] = attemptRow[d],
           \A t \in Tasks : Healthy(t, j) => Healthy(t, j)'
    PROVE  Followed(j)'
<1>1. OpenAttempts(j) # {} => OpenAttempts(j)' # {}  BY DEF OpenAttempts
<1> QED  BY <1>1 DEF Followed

\* A step of one goroutine that is not healthy for the job, or stays so.
LEMMA FollowedTask ==
    ASSUME NEW j \in Jobs, Followed(j), UNCHANGED <<handle, attemptRow>>, NEW t \in Tasks,
           \A u \in Tasks : u # t => pc'[u] = pc[u] /\ local'[u] = local[u],
           Healthy(t, j) => Healthy(t, j)'
    PROVE  Followed(j)'
<1>1. \A u \in Tasks : u # t => (Healthy(u, j) => Healthy(u, j)')
  BY DEF Healthy, Finishing
<1>2. \A u \in Tasks : Healthy(u, j) => Healthy(u, j)'  BY <1>1
<1> QED  BY <1>2, FollowedFrame

\* The end of an attempt does not let go of a job that stays running.
LEMMA FollowedFinalize ==
    ASSUME IInv, NEW j \in Jobs, Followed(j), NEW t \in Tasks, FinalizeStep(t),
           state[j] = "running", state'[j] = "running"
    PROVE  Followed(j)'
<1>1. CASE CloseAttempt(t) \/ ClearHandle(t)
  <2>1. pc[t] \in {"finish", "clear"} /\ local' = local
    BY <1>1 DEF CloseAttempt, ClearHandle
  <2>2. /\ \A u \in Tasks : u # t => pc'[u] = pc[u]
        /\ pc'[t] \in {"clear", "outcome"}
    BY <1>1, GotoType DEF CloseAttempt, ClearHandle, IInv, Labels
  <2>3. CASE local[t].job = j
    <3>1. Healthy(t, j)'  BY <2>1, <2>2, <2>3 DEF Healthy, Finishing
    <3> QED  BY <3>1 DEF Followed
  <2>4. CASE local[t].job # j
    <3>1. /\ local[t].job \in Jobs /\ local[t].row \in Dispatches
          /\ attemptRow[local[t].row].job = local[t].job
      BY <2>1, FinalizesOwn
    <3>2. handle'[j] = handle[j]
      BY <1>1, <2>4, <3>1 DEF CloseAttempt, ClearHandle, rows, IInv, TypeOK
    <3>3. \A d \in Dispatches : attemptRow[d].job = j => attemptRow'[d] = attemptRow[d]
      BY <1>1, <2>4, <3>1 DEF CloseAttempt, FinishJobAttempt, ClearHandle, IInv, TypeOK
    <3>4. ASSUME NEW u \in Tasks, Healthy(u, j) PROVE Healthy(u, j)'
      <4>1. u # t  BY <2>4, <3>4 DEF Healthy, Finishing
      <4>2. CASE pc[u] \in {"starting", "blocking", "accepted"}
        <5>1. u \in Dispatches  BY <4>2 DEF Tasks, IInv, Core, Polls
        <5>2. attemptRow[u].job = j
          BY <3>4, <4>2, <5>1 DEF Healthy, Finishing, IInv, Core, Goroutines, Working
        <5> QED  BY <2>1, <2>2, <3>3, <3>4, <4>1, <5>1, <5>2 DEF Healthy, Finishing
      <4>3. CASE pc[u] \notin {"starting", "blocking", "accepted"}
        BY <2>1, <2>2, <3>4, <4>1, <4>3 DEF Healthy, Finishing
      <4> QED  BY <4>2, <4>3
    <3> QED  BY <3>2, <3>3, <3>4, FollowedFrame
  <2> QED  BY <2>3, <2>4
<1>2. CASE WriteOutcome(t)
  <2>1. pc[t] = "outcome" /\ UNCHANGED <<handle, attemptRow>> /\ Return(t)
    BY <1>2 DEF WriteOutcome, UpdateJobState, failJob
  <2>2. local[t].job # j
    <3>1. PICK s \in {"killed", "completed", "retrying", "failed"} :
            state' = [state EXCEPT ![local[t].job] = s]
      BY <1>2 DEF WriteOutcome, UpdateJobState, failJob
    <3> QED  BY <3>1 DEF IInv, TypeOK
  <2>3. \A u \in Tasks : u # t => pc'[u] = pc[u] /\ local'[u] = local[u]
    BY <2>1, ReturnType DEF IInv
  <2>4. ~Healthy(t, j)  BY <2>2 DEF Healthy, Finishing
  <2> QED  BY <2>1, <2>3, <2>4, FollowedTask
<1> QED  BY <1>1, <1>2 DEF FinalizeStep

\* A dispatch lets go of a running job only by storing its handle.
LEMMA FollowedDispatch ==
    ASSUME IInv, NEW j \in Jobs, Followed(j), NEW d \in Dispatches, DispatchStep(d) \/ GiveUp(d),
           state[j] = "running", state'[j] = "running"
    PROVE  Followed(j)'
<1>1. d \in Tasks /\ d # Poller /\ d # NoOne  BY Identity
<1>2. local[d] \in Locals  BY <1>1 DEF IInv, TypeOK
<1>3. CASE CheckConcurrency(d) \/ FailUnknown(d) \/ WriteRunning(d)
  <2>1. /\ pc[d] \in Undecided /\ UNCHANGED <<handle, attemptRow>>
        /\ \A u \in Tasks : u # d => pc'[u] = pc[u] /\ local'[u] = local[u]
    <3>1. CASE CheckConcurrency(d)
      BY <1>1, <3>1, ReturnType, GotoType DEF CheckConcurrency, Undecided, tables, rows, Labels, IInv
    <3>2. CASE FailUnknown(d)
      BY <1>1, <3>2, ReturnType DEF FailUnknown, failJob, UpdateJobState, Undecided, IInv
    <3>3. CASE WriteRunning(d)
      BY <1>1, <3>3, GotoType DEF WriteRunning, UpdateJobState, Undecided, Labels, IInv, TypeOK
    <3> QED  BY <1>3, <3>1, <3>2, <3>3
  <2>2. ~Healthy(d, j)  BY <2>1 DEF Healthy, Finishing, Undecided
  <2> QED  BY <1>1, <2>1, <2>2, FollowedTask
<1>4. CASE WriteAttempt(d)
  <2>1. /\ pc[d] = "attempt" /\ UNCHANGED <<handle, local>> /\ Goto(d, "starting")
        /\ attemptRow' = [attemptRow EXCEPT ![d] =
             [job |-> local[d].job, number |-> local[d].attempt, finished |-> FALSE]]
    BY <1>4 DEF WriteAttempt, CreateJobAttempt, rows
  <2>2. /\ \A u \in Tasks : u # d => pc'[u] = pc[u]
        /\ pc'[d] = "starting"
    BY <1>1, <2>1, GotoType DEF Labels, IInv
  <2>3. attemptRow[d].job = NoOne  BY <2>1 DEF IInv, Core, Goroutines
  <2>4. ~attemptRow'[d].finished /\ \A e \in Dispatches : e # d => attemptRow'[e] = attemptRow[e]
    BY <2>1 DEF IInv, TypeOK
  <2>5. \A e \in Dispatches : attemptRow[e].job = j => attemptRow'[e] = attemptRow[e]
    BY <2>3, <2>4, Identity
  <2>6. ASSUME NEW u \in Tasks, Healthy(u, j) PROVE Healthy(u, j)'
    <3>1. CASE u = d  BY <2>1, <2>2, <2>4, <2>6, <3>1 DEF Healthy, Finishing
    <3>2. CASE u # d
      <4>1. u \in Dispatches \/ pc[u] \notin {"starting", "blocking", "accepted"}
        BY DEF Tasks, IInv, Core, Polls
      <4> QED  BY <2>1, <2>2, <2>4, <2>6, <3>2, <4>1 DEF Healthy, Finishing
    <3> QED  BY <3>1, <3>2
  <2> QED  BY <2>1, <2>5, <2>6, FollowedFrame
<1>5. CASE Start(d) \/ StartReturned(d) \/ GiveUp(d)
  <2>1. /\ pc[d] \in {"starting", "blocking"} /\ UNCHANGED <<handle, attemptRow>>
        /\ \A u \in Tasks : u # d => pc'[u] = pc[u] /\ local'[u] = local[u]
        /\ pc'[d] \in {"blocking", "accepted", "finish"} /\ local'[d].job = local[d].job
    <3>1. CASE UNCHANGED local /\ \E l \in {"blocking", "accepted"} : Goto(d, l)
      BY <1>1, <1>5, <3>1, GotoType DEF Start, StartReturned, GiveUp, tables, rows, Labels, IInv
    <3>2. CASE \E r : local' = [local EXCEPT ![d].result = r] /\ Goto(d, "finish")
      <4>1. PICK r : local' = [local EXCEPT ![d].result = r]  BY <3>2
      <4>2. local'[d].job = local[d].job  BY <1>1, <1>2, <4>1 DEF IInv, TypeOK, Locals
      <4>3. \A u \in Tasks : u # d => local'[u] = local[u]  BY <4>1 DEF IInv, TypeOK
      <4> QED
        BY <1>1, <1>5, <3>2, <4>2, <4>3, GotoType
        DEF Start, StartReturned, GiveUp, tables, rows, Labels, IInv
    <3> QED  BY <1>5, <3>1, <3>2 DEF Start, StartReturned, GiveUp
  <2>2. Healthy(d, j) => Healthy(d, j)'  BY <2>1 DEF Healthy, Finishing
  <2> QED  BY <1>1, <2>1, <2>2, FollowedTask
<1>6. CASE SaveHandle(d)
  <2>1. /\ pc[d] = "accepted" /\ UNCHANGED attemptRow /\ Return(d)
        /\ handle' = [handle EXCEPT ![local[d].job] = d]
    BY <1>6 DEF SaveHandle
  <2>2. \A u \in Tasks : u # d => pc'[u] = pc[u] /\ local'[u] = local[u]
    BY <1>1, <2>1, ReturnType DEF IInv
  <2>3. \A u \in Tasks : u # d => (Healthy(u, j) => Healthy(u, j)')
    BY <2>1, <2>2 DEF Healthy, Finishing
  <2>4. OpenAttempts(j)' = OpenAttempts(j)  BY <2>1 DEF OpenAttempts
  <2>5. handle'[j] = handle[j] \/ handle'[j] = d  BY <2>1 DEF IInv, TypeOK
  <2>6. CASE Healthy(d, j)
    <3>1. attemptRow[d].job = j
      BY <2>1, <2>6 DEF Healthy, Finishing, IInv, Core, Goroutines, Working
    <3>2. d \in OpenAttempts(j)  BY <2>1, <2>6, <3>1 DEF Healthy, OpenAttempts
    <3>3. handle'[j] = d  BY <2>1, <2>6 DEF Healthy, Finishing, IInv, TypeOK
    <3> QED  BY <1>1, <2>4, <3>2, <3>3 DEF Followed
  <2>7. CASE ~Healthy(d, j)  BY <1>1, <2>3, <2>4, <2>5, <2>7 DEF Followed
  <2> QED  BY <2>6, <2>7
<1>7. CASE SaveHandleFails(d)
  <2>1. /\ pc[d] = "accepted" /\ UNCHANGED <<handle, attemptRow>> /\ Return(d)
        /\ state' = [state EXCEPT ![local[d].job] = "failed"]
    BY <1>7 DEF SaveHandleFails, failJob, UpdateJobState
  <2>2. \A u \in Tasks : u # d => pc'[u] = pc[u] /\ local'[u] = local[u]
    BY <1>1, <2>1, ReturnType DEF IInv
  <2>3. ~Healthy(d, j)  BY <2>1 DEF Healthy, Finishing, IInv, TypeOK
  <2> QED  BY <1>1, <2>1, <2>2, <2>3, FollowedTask
<1>8. CASE FinalizeStep(d)  BY <1>1, <1>8, FollowedFinalize
<1> QED  BY <1>3, <1>4, <1>5, <1>6, <1>7, <1>8 DEF DispatchStep

\* Every step but a crash.
LEMMA FollowedNext ==
    ASSUME IInv, WellFollowed, [Next]_vars
    PROVE  WellFollowed'
<1> SUFFICES ASSUME crashes' = 0, NEW j \in Jobs, state'[j] = "running" PROVE Followed(j)'
  BY DEF WellFollowed
<1>1. ~Crash  BY DEF Crash, IInv, TypeOK
<1>2. CASE \E d \in Dispatches : WriteRunning(d) /\ local[d].job = j
  <2>1. PICK d \in Dispatches : WriteRunning(d) /\ local[d].job = j  BY <1>2
  <2> DEFINE new == [local[d] EXCEPT !.attempt = local[d].attempt + 1]
  <2>2. local' = [local EXCEPT ![d] = new] /\ Goto(d, "attempt")  BY <2>1 DEF WriteRunning
  <2>3. new.job = j  BY <2>1, Identity DEF IInv, TypeOK, Locals
  <2> HIDE DEF new
  <2>4. local'[d].job = j /\ pc'[d] = "attempt"
    BY <2>2, <2>3, GotoType, Identity DEF IInv, TypeOK, Labels
  <2> QED  BY <2>4, Identity DEF Followed, Healthy, Finishing
<1>3. CASE ~\E d \in Dispatches : WriteRunning(d) /\ local[d].job = j
  <2>1. state[j] = "running"
    <3>1. RowStep(j)  BY RowSteps
    <3> QED  BY <1>3, <3>1 DEF RowStep, OutcomeWritten
  <2>2. crashes = 0
    <3>1. crashes' = crashes
      BY <1>1 DEF Next, ApiStep, EnqueueJob, CancelRead, BatchEnqueueJobs, ReplayJob, CancelWrite,
         UpdateQueue, LoopStep, Tick, TickClaims, ListKills, ListPolls, EndRound, KillOne,
         PollNothing, PollTerminal, PollMistaken, DispatchStep, FinalizeStep, CheckConcurrency,
         FailUnknown, WriteRunning, WriteAttempt, Start, StartReturned, GiveUp, SaveHandle,
         SaveHandleFails, CloseAttempt, ClearHandle, WriteOutcome, ExecEnds, ListExpired, Expire,
         vars, outside
    <3> QED  BY <3>1
  <2>3. Followed(j)  BY <2>1, <2>2 DEF WellFollowed
  <2>4. CASE UNCHANGED <<handle, attemptRow, pc, local>>
    BY <2>3, <2>4, FollowedFrame DEF Healthy, Finishing
  <2>5. CASE ApiStep
    BY <2>4, <2>5, ApiQuiet DEF books, IInv
  <2>6. CASE LoopStep
    <3>1. CASE Tick
      <4>1. PICK S \in SUBSET ClaimPendingJobs : TickClaims(S)  BY <3>1 DEF Tick
      <4>2. UNCHANGED <<handle, attemptRow>>  BY <4>1 DEF TickClaims, tables, rows
      <4>3. \A t \in Tasks : (pc'[t] = pc[t] /\ local'[t] = local[t]) \/ pc[t] = "idle"
        BY <4>1, ClaimStep DEF IInv
      <4>4. \A t \in Tasks : Healthy(t, j) => Healthy(t, j)'
        BY <4>2, <4>3 DEF Healthy, Finishing
      <4> QED  BY <2>3, <4>2, <4>4, FollowedFrame
    <3>2. ASSUME NEW r \in pollList, PollTerminal(r) \/ PollMistaken(r) PROVE Followed(j)'
      <4>1. UNCHANGED <<handle, attemptRow>>
        BY <3>2 DEF PollTerminal, PollMistaken, tables, rows
      <4>2. PICK result \in Results : Finalize(r, result)
        BY <3>2, ReportResults DEF PollTerminal, PollMistaken
      <4>3. /\ pc[Poller] = "idle"
            /\ \A t \in Tasks : t # Poller => pc'[t] = pc[t] /\ local'[t] = local[t]
        BY <4>2, FinalizeNew DEF IInv, Core
      <4>4. ~Healthy(Poller, j)  BY <4>3 DEF Healthy, Finishing
      <4> QED  BY <2>3, <4>1, <4>3, <4>4, FollowedTask, Identity
    <3>3. CASE FinalizeStep(Poller)  BY <2>1, <2>3, <3>3, FollowedFinalize, Identity
    <3>4. CASE ~Tick /\ ~FinalizeStep(Poller)
               /\ ~\E r \in pollList : PollTerminal(r) \/ PollMistaken(r)
      BY <2>4, <2>6, <3>4
      DEF LoopStep, ListKills, ListPolls, EndRound, KillOne, PollNothing, tasks, tables, rows
    <3> QED  BY <3>1, <3>2, <3>3, <3>4
  <2>7. CASE \E d \in Dispatches : DispatchStep(d) \/ GiveUp(d)
    BY <2>1, <2>3, <2>7, FollowedDispatch
  <2>8. CASE (\E d \in Dispatches : ExecEnds(d)) \/ ListExpired \/ (\E i \in Jobs : Expire(i))
             \/ UNCHANGED vars
    BY <2>4, <2>8 DEF ExecEnds, ListExpired, Expire, CancelRow, vars, tables, rows, tasks
  <2> QED  BY <1>1, <2>5, <2>6, <2>7, <2>8 DEF Next
<1> QED  BY <1>2, <1>3

\* As long as the server has not crashed, a running job has a goroutine that will store a
\* handle or write the outcome, or a handle and an unfinished attempt to poll it by.
THEOREM RunningHasFollower == Spec => []RunningIsFollowed
<1>1. Init => WellFollowed
  <2> SUFFICES ASSUME Init PROVE WellFollowed  OBVIOUS
  <2>1. \A j \in Jobs : state[j] \in {"pending", "absent"}  BY DEF Init
  <2> QED  BY <2>1 DEF WellFollowed
<1>2. IInv /\ WellFollowed /\ [Next]_vars => WellFollowed'
  BY FollowedNext
<1>3. WellFollowed => RunningIsFollowed
  BY DEF WellFollowed, RunningIsFollowed, Followed, Healthy
<1> QED  BY <1>1, <1>2, <1>3, Inductive, PTL DEF Spec

=============================================================================
