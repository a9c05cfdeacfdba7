------------------------- MODULE RunLifecycle_proofs -------------------------
(***************************************************************************)
(* Proofs about RunLifecycle, for any set of rows, dispatches and requests *)
(* and every configuration of the process.                                 *)
(***************************************************************************)
EXTENDS RunLifecycle, TLAPS

-----------------------------------------------------------------------------
(* Type correctness                                                        *)

\* The steps a goroutine can end or go on with keep the goroutines typed.
LEMMA ForgetType ==
    ASSUME TypeOK, NEW t \in Tasks, Forget(t)
    PROVE  /\ local' \in [Tasks -> Locals]
           /\ \A u \in Tasks \ {t} : local'[u] = local[u]
  BY DEF TypeOK, TasksOK, Forget, Locals, Blank, Tasks, RowStates, Results

\* A task that moves to a place of its kind, with its row, stays well typed.
LEMMA GotoType ==
    ASSUME TypeOK, NEW t \in Tasks, NEW l, Goto(t, l),
           t \in Dispatches => l \in DispatchPC, t \in Runs => l \in PollPC
    PROVE  /\ pc' \in [Tasks -> DispatchPC \cup PollPC]
           /\ \A r \in Runs : pc'[r] \in PollPC
           /\ \A d \in Dispatches : pc'[d] \in DispatchPC
           /\ pc'[t] = l
           /\ \A u \in Tasks \ {t} : pc'[u] = pc[u]
  BY DEF TypeOK, TasksOK, Goto, Tasks

\* The same with a change of its local state and of the map of handles.
LEMMA GoOnType ==
    ASSUME TypeOK, NEW t \in Tasks, NEW l, Goto(t, l), l # "listed",
           t \in Dispatches => l \in DispatchPC, t \in Runs => l \in PollPC,
           local[t].run \in Runs,
           local' \in [Tasks -> Locals],
           \A u \in Tasks : local'[u].run = local[u].run /\ local'[u].exec = local[u].exec,
           inMemory' \in [Runs -> Dispatches \cup {NoOne}]
    PROVE  TasksOK'
<1>1. /\ pc' \in [Tasks -> DispatchPC \cup PollPC]
      /\ \A r \in Runs : pc'[r] \in PollPC
      /\ \A d \in Dispatches : pc'[d] \in DispatchPC
      /\ pc'[t] = l
      /\ \A u \in Tasks \ {t} : pc'[u] = pc[u]
  BY GotoType
<1> QED  BY <1>1 DEF TypeOK, TasksOK, Tasks

\* A dispatch that returns before it has stored a handle leaves the tasks well typed.
LEMMA ReturnEarlyType ==
    ASSUME TypeOK, NEW d \in Dispatches, ReturnEarly(d)
    PROVE  TasksOK'
<1>1. d \in Tasks  BY DEF Tasks
<1>2. d \notin Runs  BY IdentifiersAssumption
<1>3. "done" \in DispatchPC  BY DEF DispatchPC
<1>4. Goto(d, "done") /\ Forget(d) /\ inMemory' = inMemory  BY DEF ReturnEarly
<1>5. /\ local' \in [Tasks -> Locals]
      /\ \A u \in Tasks \ {d} : local'[u] = local[u]
  BY <1>1, <1>4, ForgetType
<1>6. /\ pc' \in [Tasks -> DispatchPC \cup PollPC]
      /\ \A r \in Runs : pc'[r] \in PollPC
      /\ \A e \in Dispatches : pc'[e] \in DispatchPC
      /\ pc'[d] = "done"
      /\ \A u \in Tasks \ {d} : pc'[u] = pc[u]
  BY <1>1, <1>2, <1>3, <1>4, GotoType
<1> QED  BY <1>1, <1>2, <1>4, <1>5, <1>6 DEF TasksOK, TypeOK, Tasks

\* So does any task that returns.
LEMMA ReturnType ==
    ASSUME TypeOK, NEW t \in Tasks, pc[t] \notin {"idle", "done"}, Return(t)
    PROVE  TasksOK'
<1>1. /\ "done" \in DispatchPC /\ "idle" \in PollPC
      /\ t \in Runs => t \notin Dispatches
  BY IdentifiersAssumption DEF DispatchPC, PollPC
<1>2. inMemory' \in [Runs -> Dispatches \cup {NoOne}]
  BY DEF Return, TypeOK, TasksOK
<1> DEFINE end == IF t \in Dispatches THEN "done" ELSE "idle"
<1>3. /\ local' \in [Tasks -> Locals]
      /\ \A u \in Tasks \ {t} : local'[u] = local[u]
  BY ForgetType DEF Return
<1>4. /\ pc' \in [Tasks -> DispatchPC \cup PollPC]
      /\ \A r \in Runs : pc'[r] \in PollPC
      /\ \A e \in Dispatches : pc'[e] \in DispatchPC
      /\ pc'[t] = end
      /\ \A u \in Tasks \ {t} : pc'[u] = pc[u]
  BY <1>1, GotoType DEF Return
<1> QED  BY <1>2, <1>3, <1>4 DEF TasksOK, TypeOK, Tasks

\* The empty tables of a new server are well typed.
LEMMA InitType == Init => TypeOK
<1> SUFFICES ASSUME Init PROVE TypeOK  OBVIOUS
<1>1. RowsOK  BY DEF Init, RowsOK, RowStates
<1>2. TasksOK
  BY DEF Init, TasksOK, Tasks, DispatchPC, PollPC, Locals, Blank, RowStates, Results
<1>3. ServiceOK
  BY ProcessAssumption DEF Init, ServiceOK, ExecStates
<1> QED  BY <1>1, <1>2, <1>3 DEF TypeOK

\* A stuttering step keeps the types.
LEMMA StutterType == TypeOK /\ UNCHANGED vars => TypeOK'
  BY DEF TypeOK, RowsOK, TasksOK, ServiceOK, vars, rows, process, tasks, loop, monitor,
         api, server

\* A request that names a row will write one row.
LEMMA TodoOfOneRow ==
    ASSUME TypeOK, NEW c \in Clients, todo[c].run \in Runs
    PROVE  todo[c] \in OfOneRow
<1>1. todo[c] \in OfAllRows \cup {NothingToDo} => todo[c].run = NoOne
  BY DEF OfAllRows, NothingToDo
<1> QED  BY <1>1, IdentifiersAssumption DEF TypeOK, ServiceOK

\* Inserting a row, and the requests on existing rows.
LEMMA ApiType == TypeOK /\ ApiStep => TypeOK'
<1> SUFFICES ASSUME TypeOK, ApiStep PROVE TypeOK'  OBVIOUS
<1> USE DEF TypeOK
<1>1. ASSUME NEW r \in Runs, PlanRun(r) PROVE TypeOK'
  BY <1>1 DEF PlanRun, CreateRun, RowsOK, TasksOK, ServiceOK, RowStates, AllStates,
              process, tasks, loop, monitor, api, server
<1>2. ASSUME NEW r \in Runs, newest' \in LatestWith(r) PROVE newest' \in Runs \cup {NoOne}
  BY <1>2 DEF LatestWith, ServiceOK
<1>3. ASSUME NEW r \in Runs, TriggerProcess(r) PROVE TypeOK'
  <2>1. newest' \in Runs \cup {NoOne}  BY <1>2, <1>3 DEF TriggerProcess
  <2> QED  BY <1>3, <2>1 DEF TriggerProcess, CreateRun, RowsOK, TasksOK, ServiceOK, RowStates,
                AllStates, tasks, loop, monitor, api, server
<1>4. ASSUME NEW orig \in Runs, NEW r \in Runs, ReplayRun(orig, r) PROVE TypeOK'
  <2>1. newest' \in Runs \cup {NoOne}  BY <1>2, <1>4 DEF ReplayRun
  <2> QED  BY <1>4, <2>1 DEF ReplayRun, CreateRun, RowsOK, TasksOK, ServiceOK, RowStates,
                AllStates, tasks, loop, monitor, api, server
<1>5. ASSUME NEW c \in Clients, NEW r \in Runs, CancelRead(c, r) PROVE TypeOK'
  <2>1. RowsOK' /\ TasksOK'
    BY <1>5 DEF CancelRead, RowsOK, TasksOK, rows, tasks
  <2>2. requests' \in 0 .. MaxRequests
    BY <1>5, ProcessAssumption DEF CancelRead, Request, ServiceOK
  <2>3. todo' \in [Clients -> OfOneRow \cup OfAllRows \cup {NothingToDo}]
    BY <1>5 DEF CancelRead, ServiceOK, OfOneRow
  <2> QED  BY <1>5, <2>1, <2>2, <2>3 DEF CancelRead, ServiceOK, process, loop, monitor, server
<1>6. ASSUME NEW c \in Clients, CancelWrite(c) PROVE TypeOK'
  <2>1. todo[c] \in OfOneRow  BY <1>6, TodoOfOneRow DEF CancelWrite
  <2>2. RowsOK'
    BY <1>6, <2>1 DEF CancelWrite, RowsOK, OfOneRow, RowStates, AllStates
  <2>3. todo' \in [Clients -> OfOneRow \cup OfAllRows \cup {NothingToDo}]
    BY <1>6 DEF CancelWrite, ServiceOK
  <2> QED  BY <1>6, <2>2, <2>3 DEF CancelWrite, TasksOK, ServiceOK, process, tasks, loop,
                monitor, server
<1>7. ASSUME NEW r \in Runs, KillRun(r) PROVE TypeOK'
  <2>1. requests' \in 0 .. MaxRequests
    BY <1>7, ProcessAssumption DEF KillRun, Request, ServiceOK
  <2> QED  BY <1>7, <2>1 DEF KillRun, RowsOK, TasksOK, ServiceOK, RowStates, AllStates,
                process, tasks, loop, monitor, server
<1>8. ASSUME NEW c \in Clients, NEW to \in {"paused", "cancelled", "pending"},
             SetProcessEnabled(c, to)
      PROVE  TypeOK'
  <2>1. requests' \in 0 .. MaxRequests
    BY <1>8, ProcessAssumption DEF SetProcessEnabled, Request, ServiceOK
  <2>2. todo' \in [Clients -> OfOneRow \cup OfAllRows \cup {NothingToDo}]
    BY <1>8 DEF SetProcessEnabled, ServiceOK, OfAllRows
  <2>3. enabled' \in BOOLEAN  BY <1>8 DEF SetProcessEnabled
  <2> QED  BY <1>8, <2>1, <2>2, <2>3 DEF SetProcessEnabled, RowsOK, TasksOK, ServiceOK, rows,
                tasks, loop, monitor, server
<1>9. ASSUME NEW c \in Clients, BulkWrite(c) PROVE TypeOK'
  <2>1. RowsOK'
    BY <1>9 DEF BulkWrite, RowsOK, OfAllRows, RowStates, AllStates
  <2>2. todo' \in [Clients -> OfOneRow \cup OfAllRows \cup {NothingToDo}]
    BY <1>9 DEF BulkWrite, ServiceOK
  <2> QED  BY <1>9, <2>1, <2>2 DEF BulkWrite, TasksOK, ServiceOK, process, tasks, loop,
                monitor, server
<1> QED  BY <1>1, <1>3, <1>4, <1>5, <1>6, <1>7, <1>8, <1>9 DEF ApiStep

\* Orchestrator.Kill only changes the execution it finds.
LEMMA KillType ==
    ASSUME TypeOK, NEW r \in Runs, Kill(r)
    PROVE  exec' \in [Dispatches -> ExecStates]
  BY DEF TypeOK, TasksOK, RowsOK, ServiceOK, Kill, AfterKill, ExecStates, Ended

\* tick, processKillRequests and processAsyncRuns write well-typed snapshots.
LEMMA LoopType == TypeOK /\ LoopStep => TypeOK'
<1> SUFFICES ASSUME TypeOK, LoopStep PROVE TypeOK'  OBVIOUS
<1> USE DEF TypeOK
<1>1. ASSUME NEW S \in SUBSET Claimable, TickClaims(S) PROVE TypeOK'
  <2>1. PICK id \in [S -> {d \in Dispatches : Idle(d)}] :
          /\ pc' = [t \in Tasks |->
                      IF \E r \in S : id[r] = t THEN "claimed" ELSE pc[t]]
          /\ local' = [t \in Tasks |->
                      IF \E r \in S : id[r] = t
                      THEN LET r == CHOOSE r \in S : id[r] = t
                           IN  [Blank EXCEPT !.run = r, !.attempt = attempt[r],
                                             !.exec = t]
                      ELSE local[t]]
    BY <1>1 DEF TickClaims
  <2>2. S \subseteq Runs  BY DEF Claimable
  <2>3. \A t \in Tasks, r \in S : id[r] = t => t \in Dispatches /\ t \notin Runs
    BY <2>1, IdentifiersAssumption
  <2>4. \A t \in Tasks : local'[t] \in Locals
    <3> SUFFICES ASSUME NEW t \in Tasks PROVE local'[t] \in Locals  OBVIOUS
    <3>1. CASE \E r \in S : id[r] = t
      <4> DEFINE q == CHOOSE r \in S : id[r] = t
      <4>1. q \in S /\ id[q] = t  BY <3>1
      <4>2. local'[t] = [Blank EXCEPT !.run = q, !.attempt = attempt[q], !.exec = t]
        BY <2>1, <3>1
      <4>3. q \in Runs /\ t \in Dispatches /\ attempt[q] \in Nat
        BY <4>1, <2>2, <2>3 DEF RowsOK
      <4> HIDE DEF q
      <4> QED  BY <4>2, <4>3 DEF Blank, Locals, RowStates, Results
    <3>2. CASE ~ \E r \in S : id[r] = t
      BY <2>1, <3>2 DEF TasksOK
    <3> QED  BY <3>1, <3>2
  <2>5. \A t \in Tasks : pc'[t] \notin {"idle", "done"} => local'[t].run \in Runs
    <3> SUFFICES ASSUME NEW t \in Tasks, pc'[t] \notin {"idle", "done"}
                 PROVE  local'[t].run \in Runs
      OBVIOUS
    <3>1. CASE \E r \in S : id[r] = t
      <4> DEFINE q == CHOOSE r \in S : id[r] = t
      <4>1. q \in S  BY <3>1
      <4>2. local'[t] = [Blank EXCEPT !.run = q, !.attempt = attempt[q], !.exec = t]
        BY <2>1, <3>1
      <4> HIDE DEF q
      <4> QED  BY <4>1, <4>2, <2>2 DEF Blank
    <3>2. CASE ~ \E r \in S : id[r] = t
      BY <2>1, <3>2 DEF TasksOK
    <3> QED  BY <3>1, <3>2
  <2>6. \A r \in Runs : r \in Tasks /\ pc'[r] = pc[r] /\ local'[r] = local[r]
    BY <2>1, <2>3 DEF Tasks
  <2>7. \A d \in Dispatches : pc'[d] \in DispatchPC
    BY <2>1 DEF TasksOK, DispatchPC, Tasks
  <2>8. pc' \in [Tasks -> DispatchPC \cup PollPC] /\ local' \in [Tasks -> Locals]
    <3>1. pc' \in [Tasks -> DispatchPC \cup PollPC]
      BY <2>1 DEF TasksOK, DispatchPC
    <3>2. local' = [t \in Tasks |-> local'[t]]
      BY <2>1
    <3> QED  BY <3>1, <3>2, <2>4
  <2>9. TasksOK'
    BY <1>1, <2>5, <2>6, <2>7, <2>8 DEF TasksOK, TickClaims
  <2> QED  BY <1>1, <2>9 DEF TickClaims, RowsOK, ServiceOK, rows, process, monitor, api, server
<1>2. ASSUME ListKillRequested PROVE TypeOK'
  BY <1>2 DEF ListKillRequested, RowsOK, TasksOK, ServiceOK, rows, process, tasks, monitor,
              api, server
<1>3. ASSUME NEW r \in Runs, KillOne(r) PROVE TypeOK'
  <2>1. exec' \in [Dispatches -> ExecStates]  BY <1>3, KillType DEF KillOne
  <2> QED  BY <1>3, <2>1 DEF KillOne, RowsOK, TasksOK, ServiceOK, rows, process, tasks,
                monitor, api, server
<1>4. ASSUME ListActiveAsync PROVE TypeOK'
  <2>1. \A r \in Runs : HasActiveHandle(r) => handle[r] \in Dispatches
    BY DEF HasActiveHandle, RowsOK
  <2>2. \A t \in Tasks : local'[t] \in Locals
    BY <1>4, <2>1 DEF ListActiveAsync, TasksOK, RowsOK, Locals, Results
  <2>3. local' \in [Tasks -> Locals] /\ pc' \in [Tasks -> DispatchPC \cup PollPC]
    BY <1>4, <2>2 DEF ListActiveAsync, TasksOK, PollPC
  <2>4. \A d \in Dispatches : d \in Tasks /\ d \notin Runs
    BY IdentifiersAssumption DEF Tasks
  <2>5. TasksOK'
    BY <1>4, <2>1, <2>3, <2>4 DEF ListActiveAsync, TasksOK, PollPC, Tasks
  <2> QED  BY <1>4, <2>5 DEF ListActiveAsync, RowsOK, ServiceOK, rows, process, monitor, api,
                server
<1> QED  BY <1>1, <1>2, <1>3, <1>4 DEF LoopStep, Tick

\* The end of a dispatch or a poll: handle, outcome, next run of the chain.
LEMMA FinalizeType ==
    ASSUME TypeOK, NEW t \in Tasks, FinalizeStep(t)
    PROVE  TypeOK'
<1> USE DEF TypeOK
<1>0. At(t, "finish") \/ At(t, "outcome") \/ At(t, "terminal") => local[t].run \in Runs
  BY DEF At, TasksOK
<1>1. CASE ClearHandle(t)
  <2>1. TasksOK'
    <3>1. /\ local[t].run \in Runs /\ Goto(t, "outcome")
          /\ local' = local /\ inMemory' = inMemory
      BY <1>0, <1>1 DEF ClearHandle
    <3> QED  BY <3>1, GoOnType DEF TasksOK, DispatchPC, PollPC
  <2> QED  BY <1>0, <1>1, <2>1 DEF ClearHandle, RowsOK, ServiceOK, process, loop, monitor,
                api, server
<1>2. CASE WriteOutcome(t)
  <2> DEFINE o == Outcome(local[t])
  <2>1. o \in RowStates  BY DEF Outcome, RowStates, AllStates
  <2>2. local[t].run \in Runs /\ local[t].attempt \in Nat
    BY <1>0, <1>2 DEF WriteOutcome, TasksOK, Locals
  <2>3. RowsOK'
    <3>1. state' = [state EXCEPT ![local[t].run] = o]  BY <1>2 DEF WriteOutcome
    <3>2. attempt' \in [Runs -> Nat]  BY <1>2, <2>2 DEF WriteOutcome, RowsOK
    <3> HIDE DEF o
    <3> QED  BY <1>2, <2>1, <2>2, <3>1, <3>2 DEF WriteOutcome, RowsOK
  <2>4. TasksOK'
    <3>1. CASE o = "retrying"
      BY <1>2, <3>1, ReturnType DEF WriteOutcome, At
    <3>2. CASE o # "retrying"
      <4>1. Goto(t, "terminal") /\ local' = local /\ inMemory' = inMemory
        BY <1>2, <3>2 DEF WriteOutcome
      <4> QED  BY <2>2, <4>1, GoOnType DEF TasksOK, DispatchPC, PollPC
    <3> QED  BY <3>1, <3>2
  <2> QED  BY <1>2, <2>3, <2>4 DEF WriteOutcome, ServiceOK, process, loop, monitor, api,
                server
<1>3. ASSUME NEW r \in Runs, ContinueChain(t, r) PROVE TypeOK'
  <2>1. TasksOK'  BY <1>3, ReturnType DEF ContinueChain, At
  <2> QED  BY <1>3, <2>1 DEF ContinueChain, CreateRun, RowsOK, ServiceOK, RowStates, AllStates,
                loop, monitor, api, server
<1>4. CASE EndTerminal(t)
  <2>1. TasksOK'  BY <1>4, ReturnType DEF EndTerminal, At
  <2> QED  BY <1>4, <2>1 DEF EndTerminal, RowsOK, ServiceOK, rows, process, loop, monitor,
                api, server
<1> QED  BY <1>1, <1>2, <1>3, <1>4 DEF FinalizeStep

\* The steps of dispatch and of a synchronous Start.
LEMMA DispatchType ==
    ASSUME TypeOK, NEW d \in Dispatches, DispatchStep(d) \/ GiveUp(d)
    PROVE  TypeOK'
<1> USE DEF TypeOK
<1>0. d \in Tasks /\ d \notin Runs  BY IdentifiersAssumption DEF Tasks
<1>r. \A l \in DispatchPC \ {"idle", "done"} : At(d, l) => local[d].run \in Runs
  BY <1>0 DEF At, TasksOK
<1>1. CASE DispatchAbort(d)
  <2>1. TasksOK'  BY <1>1, ReturnEarlyType DEF DispatchAbort
  <2> QED  BY <1>1, <2>1 DEF DispatchAbort, RowsOK, ServiceOK, rows, process, loop, monitor,
                api, server
<1>2. CASE CheckOverlap(d)
  <2>1. PICK l \in {"skip", "queue", "start"} : Goto(d, l)
    BY <1>2, ProcessAssumption DEF CheckOverlap
  <2>2. TasksOK'
    <3>1. local[d].run \in Runs /\ local' = local /\ inMemory' = inMemory
      BY <1>2, <1>r DEF CheckOverlap, DispatchPC
    <3> QED  BY <1>0, <2>1, <3>1, GoOnType DEF TasksOK, DispatchPC
  <2> QED  BY <1>2, <2>2 DEF CheckOverlap, RowsOK, ServiceOK, rows, process, loop, monitor,
                api, server
<1>3. ASSUME NEW to \in RowStates, ReturnEarly(d), local[d].run \in Runs,
             state' = [state EXCEPT ![local[d].run] = to],
             UNCHANGED <<attempt, handle, killedBy, process, exec, loop, monitor, api, server>>
      PROVE  TypeOK'
  <2>1. TasksOK'  BY <1>3, ReturnEarlyType
  <2> QED  BY <1>3, <2>1 DEF RowsOK, ServiceOK, process, loop, monitor, api, server
<1>4. CASE WriteSkipped(d)
  BY <1>3, <1>4, <1>r DEF WriteSkipped, DispatchPC, RowStates, AllStates
<1>5. CASE WriteQueued(d)
  BY <1>3, <1>5, <1>r DEF WriteQueued, DispatchPC, RowStates, AllStates
<1>6. CASE FailStart(d)
  BY <1>3, <1>6, <1>r DEF FailStart, DispatchPC, RowStates, AllStates
<1>7. CASE WriteRunning(d)
  <2>1. local[d].run \in Runs /\ local[d].attempt + 1 \in Nat
    BY <1>0, <1>7, <1>r DEF WriteRunning, DispatchPC, TasksOK, Locals
  <2>2. RowsOK'
    BY <1>7, <2>1 DEF WriteRunning, RowsOK, RowStates, AllStates
  <2>3. local' = [local EXCEPT ![d].attempt = local[d].attempt + 1]
    BY <1>7 DEF WriteRunning
  <2>4. /\ local' \in [Tasks -> Locals]
        /\ \A t \in Tasks : local'[t].run = local[t].run /\ local'[t].exec = local[t].exec
    BY <1>0, <2>1, <2>3 DEF TasksOK, Locals
  <2>5. TasksOK'
    <3>1. Goto(d, "starting") /\ inMemory' = inMemory  BY <1>7 DEF WriteRunning
    <3> QED  BY <1>0, <2>1, <2>4, <3>1, GoOnType DEF TasksOK, DispatchPC
  <2> QED  BY <1>7, <2>2, <2>5 DEF WriteRunning, ServiceOK, process, loop, monitor, api,
                server
<1>8. ASSUME NEW l \in DispatchPC, Goto(d, l), l # "listed", local[d].run \in Runs, local' = local,
             \/ inMemory' = inMemory
             \/ inMemory' = [inMemory EXCEPT ![local[d].run] = d]
      PROVE  TasksOK'
  <2>1. inMemory' \in [Runs -> Dispatches \cup {NoOne}]  BY <1>8 DEF TasksOK
  <2>2. local' \in [Tasks -> Locals]  BY <1>8 DEF TasksOK
  <2> QED  BY <1>0, <1>8, <2>1, <2>2, GoOnType
<1>9. ASSUME NEW l \in DispatchPC, Goto(d, l), l # "listed", local[d].run \in Runs,
             NEW res \in Results, local' = [local EXCEPT ![d].result = res],
             \/ inMemory' = inMemory
             \/ inMemory' = [inMemory EXCEPT ![local[d].run] = d]
      PROVE  TasksOK'
  <2>1. /\ local' \in [Tasks -> Locals]
        /\ \A t \in Tasks : local'[t].run = local[t].run /\ local'[t].exec = local[t].exec
    BY <1>0, <1>9 DEF TasksOK, Locals
  <2>2. inMemory' \in [Runs -> Dispatches \cup {NoOne}]  BY <1>9 DEF TasksOK
  <2> QED  BY <1>0, <1>9, <2>1, <2>2, GoOnType
<1>10. CASE StartAccepted(d)
  <2>1. TasksOK'  BY <1>8, <1>10, <1>r DEF StartAccepted, DispatchPC
  <2> QED  BY <1>10, <2>1 DEF StartAccepted, RowsOK, ServiceOK, ExecStates, rows, process, loop,
                monitor, api, server
<1>11. CASE StartRejected(d)
  <2>1. TasksOK'  BY <1>9, <1>11, <1>r DEF StartRejected, DispatchPC, Results
  <2> QED  BY <1>11, <2>1 DEF StartRejected, RowsOK, ServiceOK, ExecStates, Ended, rows,
                process, loop, monitor, api, server
<1>12. CASE StartBlocking(d)
  <2>1. TasksOK'  BY <1>8, <1>12, <1>r DEF StartBlocking, DispatchPC
  <2> QED  BY <1>12, <2>1 DEF StartBlocking, RowsOK, ServiceOK, ExecStates, rows, process, loop,
                monitor, api, server
<1>13. CASE StartReturned(d)
  <2>1. TasksOK'  BY <1>9, <1>13, <1>r DEF StartReturned, DispatchPC, Results
  <2> QED  BY <1>13, <2>1 DEF StartReturned, RowsOK, ServiceOK, rows, process, loop, monitor,
                api, server
<1>14. CASE SaveHandle(d)
  <2>1. TasksOK'  BY <1>0, <1>14, ReturnType DEF SaveHandle, At
  <2> QED  BY <1>14, <2>1, <1>r DEF SaveHandle, RowsOK, ServiceOK, DispatchPC, process, loop,
                monitor, api, server
<1>15. CASE SaveHandleFails(d)
  <2>1. TasksOK'  BY <1>0, <1>15, ReturnType DEF SaveHandleFails, At
  <2> QED  BY <1>15, <2>1, <1>r DEF SaveHandleFails, RowsOK, ServiceOK, DispatchPC, RowStates,
                AllStates, process, loop, monitor, api, server
<1>16. CASE ReadCurrent(d)
  <2>1. TasksOK'
    <3>1. CASE Goto(d, "outcome") /\ local' = [local EXCEPT ![d].result = "killed"]
      BY <1>9, <1>16, <1>r, <3>1 DEF ReadCurrent, DispatchPC, Results
    <3>2. CASE Goto(d, "finish") /\ local' = local
      BY <1>8, <1>16, <1>r, <3>2 DEF ReadCurrent, DispatchPC
    <3> QED  BY <1>16, <3>1, <3>2 DEF ReadCurrent
  <2> QED  BY <1>16, <2>1 DEF ReadCurrent, RowsOK, ServiceOK, rows, process, loop, monitor,
                api, server
<1>17. CASE FinalizeStep(d)
  BY <1>0, <1>17, FinalizeType
<1>18. CASE GiveUp(d)
  <2>1. TasksOK'  BY <1>9, <1>18, <1>r DEF GiveUp, DispatchPC, Results
  <2> QED  BY <1>18, <2>1 DEF GiveUp, Belied, RowsOK, ServiceOK, ExecStates, Ended, rows,
                process, loop, monitor, api, server
<1> QED
  BY <1>1, <1>2, <1>4, <1>5, <1>6, <1>7, <1>10, <1>11, <1>12, <1>13, <1>14, <1>15, <1>16,
     <1>17, <1>18 DEF DispatchStep

\* The steps of pollAsyncRun.
LEMMA PollType ==
    ASSUME TypeOK, NEW r \in Runs, PollStep(r)
    PROVE  TypeOK'
<1> USE DEF TypeOK
<1>0. r \in Tasks /\ r \notin Dispatches  BY IdentifiersAssumption DEF Tasks
<1>1. CASE PollNothing(r)
  <2>1. TasksOK'  BY <1>0, <1>1, ReturnType DEF PollNothing, At
  <2> QED  BY <1>1, <2>1 DEF PollNothing, RowsOK, ServiceOK, rows, process, loop, monitor,
                api, server
<1>2. CASE PollTerminal(r) \/ PollMistaken(r)
  <2>1. PICK res \in Results : local' = [local EXCEPT ![r].result = res]
    BY <1>2 DEF PollTerminal, PollMistaken, Reported, Mistaken, Results
  <2>2. /\ local' \in [Tasks -> Locals]
        /\ \A t \in Tasks : local'[t].run = local[t].run /\ local'[t].exec = local[t].exec
    BY <1>0, <2>1 DEF TasksOK, Locals
  <2>3. Goto(r, "finish") /\ inMemory' = inMemory /\ local[r].run \in Runs
    BY <1>0, <1>2 DEF PollTerminal, PollMistaken, At, TasksOK
  <2>4. TasksOK'  BY <1>0, <2>2, <2>3, GoOnType DEF TasksOK, PollPC
  <2>5. exec' \in [Dispatches -> ExecStates]
    BY <1>2 DEF PollTerminal, PollMistaken, Belied, ServiceOK, ExecStates, Ended
  <2> QED  BY <1>2, <2>4, <2>5 DEF PollTerminal, PollMistaken, RowsOK, ServiceOK, rows,
                process, loop, monitor, api, server
<1>3. CASE FinalizeStep(r)
  BY <1>0, <1>3, FinalizeType
<1> QED  BY <1>1, <1>2, <1>3 DEF PollStep

\* The steps of Monitor.check only mark and kill rows that exist.
LEMMA MonitorType == TypeOK /\ MonitorStep => TypeOK'
<1> SUFFICES ASSUME TypeOK, MonitorStep PROVE TypeOK'  OBVIOUS
<1> USE DEF TypeOK
<1>1. ASSUME MonitorList PROVE TypeOK'
  BY <1>1 DEF MonitorList, RowsOK, TasksOK, ServiceOK, rows, process, tasks, loop, api, server
<1>2. ASSUME NEW r \in Runs, MonitorMark(r) PROVE TypeOK'
  BY <1>2 DEF MonitorMark, RowsOK, TasksOK, ServiceOK, RowStates, AllStates, process, tasks,
              loop, api, server
<1>3. ASSUME MonitorKill PROVE TypeOK'
  <2>1. doomed \in Runs  BY <1>3 DEF MonitorKill, ServiceOK
  <2>2. exec' \in [Dispatches -> ExecStates]  BY <1>3, <2>1, KillType DEF MonitorKill
  <2> QED  BY <1>3, <2>2 DEF MonitorKill, RowsOK, TasksOK, ServiceOK, rows, process, tasks,
                loop, api, server
<1> QED  BY <1>1, <1>2, <1>3 DEF MonitorStep

\* The end of an execution.
LEMMA ExecType == ASSUME TypeOK, NEW d \in Dispatches, ExecEnds(d) PROVE TypeOK'
<1>1. exec' \in [Dispatches -> ExecStates]
  BY DEF ExecEnds, TypeOK, ServiceOK, ExecStates, Ended
<1> QED  BY <1>1 DEF ExecEnds, TypeOK, RowsOK, TasksOK, ServiceOK, rows, process, tasks, loop,
              monitor, api, server

\* A crash resets whatever was in memory.
LEMMA CrashType == TypeOK /\ Crash => TypeOK'
<1> SUFFICES ASSUME TypeOK, Crash PROVE TypeOK'  OBVIOUS
<1> USE DEF TypeOK
<1>1. crashes' \in 0 .. MaxCrashes
  BY ProcessAssumption DEF Crash, ServiceOK
<1>2. \A t \in Tasks : local'[t] \in Locals
  BY DEF Crash, TasksOK, Locals, Blank, RowStates, Results
<1>3. TasksOK'
  <2>1. local' \in [Tasks -> Locals]  BY <1>2 DEF Crash
  <2>2. /\ pc' \in [Tasks -> {"idle", "done"}]
        /\ \A r \in Runs : pc'[r] = "idle"
    BY IdentifiersAssumption DEF Crash, Tasks
  <2> QED  BY <2>1, <2>2 DEF Crash, TasksOK, Tasks, DispatchPC, PollPC
<1> QED  BY <1>1, <1>3 DEF Crash, RowsOK, ServiceOK, rows, process

\* The recovery pass writes hung and pending rows.
LEMMA RestartType == TypeOK /\ Restart => TypeOK'
<1> SUFFICES ASSUME TypeOK, Restart PROVE TypeOK'  OBVIOUS
<1> USE DEF TypeOK
<1>1. PICK S \in Recovered :
        /\ state' = [r \in Runs |-> IF r \in S THEN "pending" ELSE OrphansHung[r]]
        /\ IF S = {} THEN UNCHANGED newest ELSE \E r \in S : newest' \in LatestWith(r)
  BY DEF Restart
<1>2. S \subseteq Runs  BY <1>1 DEF Recovered
<1>3. newest' \in Runs \cup {NoOne}
  BY <1>1, <1>2 DEF LatestWith, ServiceOK
<1>4. RowsOK'
  BY <1>1 DEF Restart, RowsOK, OrphansHung, RowStates, AllStates
<1> QED  BY <1>3, <1>4 DEF Restart, TasksOK, ServiceOK, tasks, loop, monitor, api

\* Every step of the system keeps the types.
LEMMA NextType == TypeOK /\ [Next]_vars => TypeOK'
  BY StutterType, ApiType, LoopType, DispatchType, PollType, MonitorType, ExecType, CrashType,
     RestartType DEF Next

\* Type correctness of the runs table, the goroutines and the snapshots, for
\* any number of rows, dispatches, requests and crashes.
THEOREM TypeCorrect == Spec => []TypeOK
  BY InitType, NextType, PTL DEF Spec

-----------------------------------------------------------------------------
(* No running row is forgotten                                             *)
(*                                                                         *)
(* RunningHasOwner is inductive with TypeOK and PollsQuiet (the loop does  *)
(* not list active handles while polls run).  A step makes a row running   *)
(* only by a dispatch that owns it from then on, removes a handle only by  *)
(* a task that then owns the row, and ends the ownership of a row only     *)
(* together with its running state or by storing a handle.                 *)

PollsQuiet == phase # "polling" => \A r \in Runs : pc[r] = "idle"

\* processAsyncRuns waits for its polls: none runs in the rest of the loop.
LEMMA QuietInit == Init => PollsQuiet
  BY DEF Init, PollsQuiet

\* tick waits for the polls to end before the loop leaves its polling phase.
LEMMA QuietNext == TypeOK /\ PollsQuiet /\ [Next]_vars => PollsQuiet'
<1> SUFFICES ASSUME TypeOK, PollsQuiet, [Next]_vars PROVE PollsQuiet'  OBVIOUS
<1>r. \A r \in Runs : r \in Tasks /\ r \notin Dispatches
  BY IdentifiersAssumption DEF Tasks
<1>1. ASSUME pc' = pc, phase' = phase PROVE PollsQuiet'
  BY <1>1 DEF PollsQuiet
<1>2. ASSUME NEW t \in Tasks, pc[t] # "idle", phase' = phase,
             \A u \in Tasks \ {t} : pc'[u] = pc[u],
             t \in Runs => phase = "polling"
      PROVE  PollsQuiet'
  BY <1>2, <1>r DEF PollsQuiet
<1>3. ASSUME ApiStep PROVE PollsQuiet'
  BY <1>1, <1>3 DEF ApiStep, PlanRun, TriggerProcess, ReplayRun, KillRun, CancelRead,
        CancelWrite, SetProcessEnabled, BulkWrite, tasks, loop
<1>4. ASSUME LoopStep PROVE PollsQuiet'
  <2>1. ASSUME NEW S \in SUBSET Claimable, TickClaims(S) PROVE PollsQuiet'
    <3>1. PICK id \in [S -> {d \in Dispatches : Idle(d)}] :
            pc' = [t \in Tasks |->
                     IF \E r \in S : id[r] = t THEN "claimed" ELSE pc[t]]
      BY <2>1 DEF TickClaims
    <3>2. \A r \in Runs : pc'[r] = pc[r]  BY <1>r, <3>1
    <3> QED  BY <2>1, <3>2 DEF TickClaims, PollsQuiet
  <2>2. ASSUME ListKillRequested PROVE PollsQuiet'
    BY <2>2 DEF ListKillRequested, PollsQuiet, tasks
  <2>3. ASSUME NEW r \in Runs, KillOne(r) PROVE PollsQuiet'
    BY <1>1, <2>3 DEF KillOne, tasks
  <2>4. ASSUME ListActiveAsync PROVE PollsQuiet'
    BY <2>4 DEF ListActiveAsync, PollsQuiet
  <2> QED  BY <1>4, <2>1, <2>2, <2>3, <2>4 DEF LoopStep, Tick
<1>5. ASSUME NEW d \in Dispatches, DispatchStep(d) \/ GiveUp(d) PROVE PollsQuiet'
  <2>1. /\ d \in Tasks /\ d \notin Runs /\ pc[d] # "idle" /\ phase' = phase
        /\ \A u \in Tasks \ {d} : pc'[u] = pc[u]
    BY <1>5, IdentifiersAssumption DEF DispatchStep, FinalizeStep, DispatchAbort, CheckOverlap,
       WriteSkipped, WriteQueued, WriteRunning, FailStart, StartAccepted, StartRejected,
       StartBlocking, StartReturned, SaveHandle, SaveHandleFails, ReadCurrent, ClearHandle,
       WriteOutcome, ContinueChain, EndTerminal, GiveUp,
       ReturnEarly, Return, Goto, At, Tasks, loop, TypeOK, TasksOK
  <2> QED  BY <1>2, <2>1
<1>6. ASSUME NEW r \in Runs, PollStep(r) PROVE PollsQuiet'
  <2>1. /\ r \in Tasks /\ pc[r] # "idle" /\ phase' = phase
        /\ \A u \in Tasks \ {r} : pc'[u] = pc[u]
    BY <1>6, <1>r DEF PollStep, FinalizeStep, PollNothing, PollTerminal,
       PollMistaken, ClearHandle, WriteOutcome, ContinueChain, EndTerminal, Return, Goto, At, loop, TypeOK, TasksOK
  <2>2. phase = "polling"  BY <2>1 DEF PollsQuiet
  <2> QED  BY <1>2, <2>1, <2>2
<1>7. ASSUME MonitorStep PROVE PollsQuiet'
  BY <1>1, <1>7 DEF MonitorStep, MonitorList, MonitorMark, MonitorKill, tasks, loop
<1>8. ASSUME NEW d \in Dispatches, ExecEnds(d) PROVE PollsQuiet'
  BY <1>1, <1>8 DEF ExecEnds, tasks, loop
<1>9. ASSUME Crash PROVE PollsQuiet'
  BY <1>9 DEF Crash, PollsQuiet
<1>10. ASSUME Restart PROVE PollsQuiet'
  BY <1>1, <1>10 DEF Restart, tasks, loop
<1>11. ASSUME UNCHANGED vars PROVE PollsQuiet'
  BY <1>1, <1>11 DEF vars, tasks, loop
<1> QED
  BY <1>3, <1>4, <1>5, <1>6, <1>7, <1>8, <1>9, <1>10, <1>11 DEF Next

\* A row that does not become running, loses no handle and loses no owner.
LEMMA OwnerKept ==
    ASSUME RunningHasOwner, up, NEW r \in Runs,
           state'[r] = "running" => state[r] = "running",
           handle'[r] = NoOne => handle[r] = NoOne,
           \A t \in Tasks : local[t].run = r /\ pc[t] \in Owning
                              => local'[t].run = r /\ pc'[t] \in Owning
    PROVE  RowOwned(r)'
  BY DEF RunningHasOwner, RowOwned, Owns

\* A step of one task only has to account for the row of that task.
LEMMA OwnerTask ==
    ASSUME RunningHasOwner, up, NEW t \in Tasks, NEW q \in Runs, q = local[t].run,
           \A u \in Tasks \ {t} : pc'[u] = pc[u] /\ local'[u] = local[u],
           \A r \in Runs \ {q} : /\ state'[r] = "running" => state[r] = "running"
                                 /\ handle'[r] = NoOne => handle[r] = NoOne,
           RowOwned(q)'
    PROVE  RunningHasOwner'
<1>1. ASSUME NEW r \in Runs \ {q} PROVE RowOwned(r)'
  BY OwnerKept, <1>1
<1> QED  BY <1>1 DEF RunningHasOwner

\* A step that touches no task, no handle, and makes no row running.
LEMMA OwnerRows ==
    ASSUME RunningHasOwner, up, pc' = pc, local' = local, handle' = handle,
           \A r \in Runs : state'[r] = "running" => state[r] = "running"
    PROVE  RunningHasOwner'
<1>1. ASSUME NEW r \in Runs PROVE RowOwned(r)'
  BY OwnerKept, <1>1
<1> QED  BY <1>1 DEF RunningHasOwner

\* API requests and inserted rows make no row running and remove no handle.
LEMMA ApiOwner == TypeOK /\ RunningHasOwner /\ ApiStep => RunningHasOwner'
<1> SUFFICES ASSUME TypeOK, RunningHasOwner, ApiStep PROVE RunningHasOwner'  OBVIOUS
<1> USE DEF TypeOK, RowsOK
<1>1. ASSUME NEW r \in Runs, PlanRun(r) \/ TriggerProcess(r) PROVE RunningHasOwner'
  BY <1>1, OwnerRows DEF PlanRun, TriggerProcess, CreateRun, tasks
<1>2. ASSUME NEW orig \in Runs, NEW r \in Runs, ReplayRun(orig, r) PROVE RunningHasOwner'
  BY <1>2, OwnerRows DEF ReplayRun, CreateRun, tasks
<1>3. ASSUME NEW c \in Clients, NEW r \in Runs, CancelRead(c, r) PROVE RunningHasOwner'
  BY <1>3, OwnerRows DEF CancelRead, Request, rows, tasks
<1>4. ASSUME NEW c \in Clients, CancelWrite(c) PROVE RunningHasOwner'
  <2>1. todo[c].to \in {"cancelled", "kill_requested"} /\ todo[c].run \in Runs
    BY <1>4, TodoOfOneRow DEF CancelWrite, OfOneRow
  <2> QED  BY <1>4, <2>1, OwnerRows DEF CancelWrite, tasks
<1>5. ASSUME NEW r \in Runs, KillRun(r) PROVE RunningHasOwner'
  BY <1>5, OwnerRows DEF KillRun, Request, tasks
<1>6. ASSUME NEW c \in Clients, NEW to \in {"paused", "cancelled", "pending"},
             SetProcessEnabled(c, to)
      PROVE  RunningHasOwner'
  BY <1>6, OwnerRows DEF SetProcessEnabled, Request, rows, tasks
<1>7. ASSUME NEW c \in Clients, BulkWrite(c) PROVE RunningHasOwner'
  BY <1>7, OwnerRows DEF BulkWrite, OfAllRows, tasks
<1> QED  BY <1>1, <1>2, <1>3, <1>4, <1>5, <1>6, <1>7 DEF ApiStep

\* A tick claims with dispatches that own nothing yet; a new round of polls is
\* started by rows that have a handle.
LEMMA LoopOwner == TypeOK /\ PollsQuiet /\ RunningHasOwner /\ LoopStep => RunningHasOwner'
<1> SUFFICES ASSUME TypeOK, PollsQuiet, RunningHasOwner, LoopStep PROVE RunningHasOwner'  OBVIOUS
<1>1. ASSUME NEW S \in SUBSET Claimable, TickClaims(S) PROVE RunningHasOwner'
  <2>1. PICK id \in [S -> {d \in Dispatches : Idle(d)}] :
          /\ pc' = [t \in Tasks |->
                      IF \E r \in S : id[r] = t THEN "claimed" ELSE pc[t]]
          /\ local' = [t \in Tasks |->
                      IF \E r \in S : id[r] = t
                      THEN LET r == CHOOSE r \in S : id[r] = t
                           IN  [Blank EXCEPT !.run = r, !.attempt = attempt[r],
                                             !.exec = t]
                      ELSE local[t]]
    BY <1>1 DEF TickClaims
  <2>2. \A t \in Tasks : pc[t] \in Owning => pc'[t] = pc[t] /\ local'[t] = local[t]
    BY <2>1 DEF Idle, Owning
  <2>3. state' = state /\ handle' = handle /\ up  BY <1>1 DEF TickClaims, rows
  <2>4. ASSUME NEW r \in Runs PROVE RowOwned(r)'
    BY <2>2, <2>3, <2>4, OwnerKept
  <2> QED  BY <2>4 DEF RunningHasOwner
<1>2. ASSUME ListKillRequested PROVE RunningHasOwner'
  BY <1>2, OwnerRows DEF ListKillRequested, rows, tasks
<1>3. ASSUME NEW r \in Runs, KillOne(r) PROVE RunningHasOwner'
  BY <1>3, OwnerRows DEF KillOne, rows, tasks
<1>4. ASSUME ListActiveAsync PROVE RunningHasOwner'
  <2>1. state' = state /\ handle' = handle /\ up  BY <1>4 DEF ListActiveAsync, rows
  <2>2. ASSUME NEW r \in Runs PROVE RowOwned(r)'
    <3>1. CASE handle[r] # NoOne  BY <2>1, <3>1 DEF RowOwned
    <3>2. CASE handle[r] = NoOne
      <4>1. ASSUME NEW t \in Tasks, local[t].run = r, pc[t] \in Owning
            PROVE  local'[t].run = r /\ pc'[t] \in Owning
        BY <1>4, <4>1 DEF ListActiveAsync, PollsQuiet, Owning
      <4> QED  BY <2>1, <2>2, <4>1, OwnerKept
    <3> QED  BY <3>1, <3>2
  <2> QED  BY <2>2 DEF RunningHasOwner
<1> QED  BY <1>1, <1>2, <1>3, <1>4 DEF LoopStep, Tick

\* What a step of task t leaves alone of the other tasks.
LEMMA TaskFrame ==
    ASSUME TypeOK, NEW t \in Tasks
    PROVE  /\ \A l : Goto(t, l) => \A u \in Tasks \ {t} : pc'[u] = pc[u]
           /\ \A l : Goto(t, l) => pc'[t] = l
           /\ Forget(t) => \A u \in Tasks \ {t} : local'[u] = local[u]
  BY DEF TypeOK, TasksOK, Goto, Forget

\* Clearing the handle leaves the row with the task that is about to write it;
\* every outcome takes it out of running.
LEMMA FinalizeOwner ==
    ASSUME TypeOK, RunningHasOwner, NEW t \in Tasks, FinalizeStep(t)
    PROVE  RunningHasOwner'
<1>0. up /\ local[t].run \in Runs /\ pc[t] \in {"finish", "outcome", "terminal"}
  BY DEF FinalizeStep, ClearHandle, WriteOutcome, ContinueChain, EndTerminal, At, TypeOK,
         TasksOK
<1>q. PICK q \in Runs : q = local[t].run  BY <1>0
<1>1. CASE ClearHandle(t)
  <2>1. local' = local /\ state' = state /\ handle' = [handle EXCEPT ![q] = NoOne]
    BY <1>1, <1>q DEF ClearHandle
  <2>2. pc'[t] = "outcome" /\ \A u \in Tasks \ {t} : pc'[u] = pc[u]
    BY <1>1, TaskFrame DEF ClearHandle
  <2>3. RowOwned(q)'  BY <1>q, <2>1, <2>2 DEF RowOwned, Owns, Owning
  <2>4. \A r \in Runs \ {q} : state'[r] = state[r] /\ handle'[r] = handle[r]
    BY <2>1 DEF TypeOK, RowsOK
  <2> QED  BY <1>0, <1>q, <2>1, <2>2, <2>3, <2>4, OwnerTask
<1>2. CASE WriteOutcome(t)
  <2>1. Outcome(local[t]) # "running"  BY DEF Outcome
  <2>2. state' = [state EXCEPT ![q] = Outcome(local[t])] /\ handle' = handle
    BY <1>2, <1>q DEF WriteOutcome
  <2>3. RowOwned(q)'  BY <1>q, <2>1, <2>2 DEF RowOwned, TypeOK, RowsOK
  <2>4. \A u \in Tasks \ {t} : pc'[u] = pc[u] /\ local'[u] = local[u]
    BY <1>2, TaskFrame DEF WriteOutcome, Return
  <2>5. \A r \in Runs \ {q} : state'[r] = state[r] /\ handle'[r] = handle[r]
    BY <2>2 DEF TypeOK, RowsOK
  <2> QED  BY <1>0, <1>q, <2>3, <2>4, <2>5, OwnerTask
<1>3. ASSUME NEW r \in Runs, ContinueChain(t, r) PROVE RunningHasOwner'
  <2>1. \A u \in Tasks \ {t} : pc'[u] = pc[u] /\ local'[u] = local[u]
    BY <1>3, TaskFrame DEF ContinueChain, Return
  <2>2. handle' = handle /\ pc[t] = "terminal"
        /\ \A x \in Runs : state'[x] = "running" => state[x] = "running"
    BY <1>3 DEF ContinueChain, CreateRun, At, TypeOK, RowsOK
  <2>3. ASSUME NEW x \in Runs PROVE RowOwned(x)'
    BY <1>0, <2>1, <2>2, <2>3, OwnerKept DEF Owning
  <2> QED  BY <2>3 DEF RunningHasOwner
<1>4. CASE EndTerminal(t)
  <2>1. \A u \in Tasks \ {t} : pc'[u] = pc[u] /\ local'[u] = local[u]
    BY <1>4, TaskFrame DEF EndTerminal, Return
  <2>2. handle' = handle /\ pc[t] = "terminal" /\ state' = state
    BY <1>4 DEF EndTerminal, At, rows
  <2>3. ASSUME NEW x \in Runs PROVE RowOwned(x)'
    BY <1>0, <2>1, <2>2, <2>3, OwnerKept DEF Owning
  <2> QED  BY <2>3 DEF RunningHasOwner
<1> QED  BY <1>1, <1>2, <1>3, <1>4 DEF FinalizeStep

\* A dispatch owns the row it has made running until it stores a handle or an outcome.
LEMMA DispatchOwner ==
    ASSUME TypeOK, RunningHasOwner, NEW d \in Dispatches, DispatchStep(d) \/ GiveUp(d)
    PROVE  RunningHasOwner'
<1>0. d \in Tasks  BY DEF Tasks
<1>r. \A l \in DispatchPC \ {"idle", "done"} : At(d, l) => up /\ local[d].run \in Runs
  BY <1>0 DEF At, TypeOK, TasksOK
\* Before it has written the row a dispatch owns nothing.
<1>1. CASE DispatchAbort(d) \/ CheckOverlap(d)
  <2>1. up /\ pc[d] = "claimed" /\ state' = state /\ handle' = handle
    BY <1>1 DEF DispatchAbort, CheckOverlap, At, rows
  <2>2. \A u \in Tasks \ {d} : pc'[u] = pc[u] /\ local'[u] = local[u]
    BY <1>0, <1>1, TaskFrame DEF DispatchAbort, CheckOverlap, ReturnEarly
  <2>3. ASSUME NEW x \in Runs PROVE RowOwned(x)'
    BY <2>1, <2>2, <2>3, OwnerKept DEF Owning
  <2> QED  BY <2>3 DEF RunningHasOwner
\* The ends that write a state other than running.
<1>2. ASSUME up, local[d].run \in Runs, NEW to \in RowStates \ {"running"},
             state' = [state EXCEPT ![local[d].run] = to], handle' = handle,
             ReturnEarly(d) \/ Return(d)
      PROVE  RunningHasOwner'
  <2>1. \A u \in Tasks \ {d} : pc'[u] = pc[u] /\ local'[u] = local[u]
    BY <1>0, <1>2, TaskFrame DEF ReturnEarly, Return
  <2>3. ASSUME NEW x \in Runs PROVE RowOwned(x)'
    <3>1. CASE x = local[d].run
      BY <1>2, <3>1 DEF RowOwned, TypeOK, RowsOK
    <3>2. CASE x # local[d].run
      BY <1>2, <2>1, <2>3, <3>2, OwnerKept DEF TypeOK, RowsOK
    <3> QED  BY <3>1, <3>2
  <2> QED  BY <2>3 DEF RunningHasOwner
<1>3. CASE WriteSkipped(d) \/ WriteQueued(d) \/ FailStart(d)
  BY <1>2, <1>3, <1>r DEF WriteSkipped, WriteQueued, FailStart, DispatchPC, RowStates, AllStates
<1>4. CASE SaveHandleFails(d)
  BY <1>2, <1>4, <1>r DEF SaveHandleFails, DispatchPC, RowStates, AllStates
<1>5. CASE WriteRunning(d)
  <2>1. up /\ local[d].run \in Runs  BY <1>5, <1>r DEF WriteRunning, DispatchPC
  <2>2. /\ local'[d].run = local[d].run
        /\ \A u \in Tasks \ {d} : local'[u] = local[u]
    BY <1>0, <1>5 DEF WriteRunning, TypeOK, TasksOK, Locals
  <2>3. pc'[d] = "starting" /\ \A u \in Tasks \ {d} : pc'[u] = pc[u]
    BY <1>0, <1>5, TaskFrame DEF WriteRunning
  <2>4. ASSUME NEW q \in Runs, q = local[d].run PROVE RowOwned(q)'
    BY <1>0, <2>2, <2>3, <2>4 DEF RowOwned, Owns, Owning
  <2>5. \A r \in Runs \ {local[d].run} : state'[r] = state[r] /\ handle'[r] = handle[r]
    BY <1>5 DEF WriteRunning, TypeOK, RowsOK
  <2> QED  BY <1>0, <2>1, <2>2, <2>3, <2>4, <2>5, OwnerTask
\* On the way from one owning place to another.
<1>6. ASSUME NEW l \in Owning, up, local[d].run \in Runs, Goto(d, l), state' = state,
             handle' = handle, \A u \in Tasks : local'[u].run = local[u].run
      PROVE  RunningHasOwner'
  <2>1. pc'[d] = l /\ \A u \in Tasks \ {d} : pc'[u] = pc[u]
    BY <1>0, <1>6, TaskFrame
  <2>2. ASSUME NEW x \in Runs PROVE RowOwned(x)'
    BY <1>0, <1>6, <2>1, <2>2, OwnerKept
  <2> QED  BY <2>2 DEF RunningHasOwner
<1>7. CASE StartAccepted(d) \/ StartBlocking(d)
  BY <1>6, <1>7, <1>r DEF StartAccepted, StartBlocking, Owning, DispatchPC, rows
<1>8. \A res : local' = [local EXCEPT ![d].result = res]
                 => \A u \in Tasks : local'[u].run = local[u].run
  BY DEF TypeOK, TasksOK, Locals
<1>9. CASE StartRejected(d) \/ StartReturned(d) \/ GiveUp(d)
  BY <1>6, <1>8, <1>9, <1>r DEF StartRejected, StartReturned, GiveUp, Owning,
     DispatchPC, rows
<1>10. CASE ReadCurrent(d)
  BY <1>6, <1>8, <1>10, <1>r DEF ReadCurrent, Owning, DispatchPC, rows
<1>11. CASE SaveHandle(d)
  <2>1. up /\ local[d].run \in Runs  BY <1>11, <1>r DEF SaveHandle, DispatchPC
  <2>q. PICK q \in Runs : q = local[d].run  BY <2>1
  <2>2. \A u \in Tasks \ {d} : pc'[u] = pc[u] /\ local'[u] = local[u]
    BY <1>0, <1>11, TaskFrame DEF SaveHandle, Return
  <2>3. /\ state' = state /\ handle'[q] = d
        /\ \A r \in Runs \ {q} : handle'[r] = handle[r]
    BY <1>11, <2>q DEF SaveHandle, TypeOK, RowsOK
  <2>4. RowOwned(q)'
    BY <2>3, IdentifiersAssumption DEF RowOwned
  <2> QED  BY <1>0, <2>1, <2>q, <2>2, <2>3, <2>4, OwnerTask
<1>12. CASE FinalizeStep(d)
  BY <1>0, <1>12, FinalizeOwner
<1> QED
  BY <1>1, <1>3, <1>4, <1>5, <1>7, <1>9, <1>10, <1>11, <1>12 DEF DispatchStep

\* A poll owns its row from clearing the handle to writing the outcome.
LEMMA PollOwner ==
    ASSUME TypeOK, RunningHasOwner, NEW r \in Runs, PollStep(r)
    PROVE  RunningHasOwner'
<1>0. r \in Tasks  BY DEF Tasks
<1>1. CASE PollNothing(r) \/ PollTerminal(r) \/ PollMistaken(r)
  <2>1. up /\ pc[r] = "listed" /\ state' = state /\ handle' = handle
    BY <1>1 DEF PollNothing, PollTerminal, PollMistaken, At, rows
  <2>2. \A u \in Tasks \ {r} : pc'[u] = pc[u] /\ local'[u] = local[u]
    BY <1>0, <1>1, TaskFrame DEF PollNothing, PollTerminal, PollMistaken, Return,
       TypeOK, TasksOK
  <2>3. ASSUME NEW x \in Runs PROVE RowOwned(x)'
    BY <2>1, <2>2, <2>3, OwnerKept DEF Owning
  <2> QED  BY <2>3 DEF RunningHasOwner
<1>2. CASE FinalizeStep(r)
  BY <1>0, <1>2, FinalizeOwner
<1> QED  BY <1>1, <1>2 DEF PollStep

\* The monitor and the executions make no row running; recovery leaves none running.
LEMMA RestOwner ==
    ASSUME TypeOK, RunningHasOwner,
           \/ MonitorStep \/ Crash \/ Restart \/ UNCHANGED vars
           \/ \E d \in Dispatches : ExecEnds(d)
    PROVE  RunningHasOwner'
<1>1. CASE MonitorStep
  <2>1. up /\ pc' = pc /\ local' = local /\ handle' = handle
        /\ \A r \in Runs : state'[r] = "running" => state[r] = "running"
    BY <1>1 DEF MonitorStep, MonitorList, MonitorMark, MonitorKill, rows, tasks, TypeOK, RowsOK
  <2> QED  BY <2>1, OwnerRows
<1>2. CASE Crash
  BY <1>2 DEF Crash, RunningHasOwner
<1>3. CASE Restart
  <2>1. \A r \in Runs : state'[r] # "running"
    BY <1>3 DEF Restart, OrphansHung
  <2> QED  BY <2>1 DEF RunningHasOwner, RowOwned
<1>4. CASE UNCHANGED vars \/ \E d \in Dispatches : ExecEnds(d)
  <2>1. pc' = pc /\ local' = local /\ handle' = handle /\ state' = state /\ up' = up
    BY <1>4 DEF ExecEnds, vars, rows, tasks, server
  <2> QED  BY <2>1 DEF RunningHasOwner, RowOwned, Owns
<1> QED  BY <1>1, <1>2, <1>3, <1>4

\* No row runs at first.
LEMMA OwnerInit == Init => RunningHasOwner
  BY DEF Init, RunningHasOwner, RowOwned

\* The ownership of running rows is kept by every step.
LEMMA OwnerNext ==
    TypeOK /\ PollsQuiet /\ RunningHasOwner /\ [Next]_vars => RunningHasOwner'
  BY ApiOwner, LoopOwner, DispatchOwner, PollOwner, RestOwner DEF Next

\* While the server is up every running row has a stored handle or a goroutine
\* that will write its outcome, however dispatches, polls, the monitor, the API,
\* crashes and restarts interleave.
THEOREM NoRunForgotten == Spec => []RunningHasOwner
<1>1. Spec => [](TypeOK /\ PollsQuiet)
  BY TypeCorrect, InitType, NextType, QuietInit, QuietNext, PTL DEF Spec
<1> QED  BY <1>1, OwnerInit, OwnerNext, PTL DEF Spec

-----------------------------------------------------------------------------
(* max_attempts includes the first attempt                                 *)
(*                                                                         *)
(* AttemptsBounded alone is not inductive: a claim or a poll carries the   *)
(* attempt number of its row past later writes.  A row that may be claimed *)
(* has an attempt left, a claim that has not been written was taken from   *)
(* such a row, and no task works on an attempt beyond the last one.        *)
(* A queued row is the exception: dispatch queues whatever the row has     *)
(* become since it was claimed, so the theorem excludes on_overlap =       *)
(* 'queue' (under PromptDispatch the runs of TLC cover it).                *)

NeverQueues == ScheduleType = "cron" => "queue" \notin OnOverlap

Working == {"starting", "blocking", "accepted", "returned", "finish", "outcome",
            "terminal", "listed"}

RowAttempts ==
    \A r \in Runs :
      /\ attempt[r] <= MaxAttempts
      /\ state[r] \in {"absent", "pending", "paused", "retrying"} => attempt[r] < MaxAttempts
      /\ state[r] # "queued"

TaskAttempts ==
    \A t \in Tasks :
      /\ pc[t] \in Undecided => local[t].attempt < MaxAttempts
      /\ pc[t] \in Working => local[t].attempt <= MaxAttempts
      /\ pc[t] # "queue"

\* Rows start with attempt 0, below any maximum.
LEMMA AttemptsInit == Init => RowAttempts /\ TaskAttempts
  BY ProcessAssumption DEF Init, RowAttempts, TaskAttempts, Undecided, Working

\* Rows whose attempt does not change and that do not become claimable.
LEMMA RowAttemptsKept ==
    ASSUME RowAttempts, attempt' = attempt,
           \A r \in Runs :
             state'[r] # state[r] =>
               \/ state'[r] \notin {"absent", "pending", "paused", "retrying", "queued"}
               \/ state[r] \in {"absent", "pending", "paused"} /\ state'[r] # "queued"
    PROVE  RowAttempts'
  BY DEF RowAttempts

\* Steps that touch no goroutine.
LEMMA TaskAttemptsKept ==
    ASSUME TaskAttempts, pc' = pc, local' = local
    PROVE  TaskAttempts'
  BY DEF TaskAttempts

\* One task goes on, with an attempt number that fits its place.
LEMMA TaskAttemptsStep ==
    ASSUME TaskAttempts, NEW t \in Tasks,
           \A u \in Tasks \ {t} : pc'[u] = pc[u] /\ local'[u] = local[u],
           pc'[t] \in Undecided => local'[t].attempt < MaxAttempts,
           pc'[t] \in Working => local'[t].attempt <= MaxAttempts,
           pc'[t] # "queue"
    PROVE  TaskAttempts'
  BY DEF TaskAttempts

\* A task that returns carries no attempt any more.
LEMMA TaskAttemptsEnd ==
    ASSUME TypeOK, TaskAttempts, NEW t \in Tasks,
           Return(t) \/ (t \in Dispatches /\ ReturnEarly(t))
    PROVE  TaskAttempts'
<1>1. /\ \A u \in Tasks \ {t} : pc'[u] = pc[u] /\ local'[u] = local[u]
      /\ pc'[t] \in {"idle", "done"}
  BY TaskFrame DEF Return, ReturnEarly
<1> QED  BY <1>1, TaskAttemptsStep DEF Undecided, Working

\* Requests make a row claimable only if it was one that had an attempt left.
LEMMA ApiAttempts ==
    ASSUME TypeOK, RowAttempts, TaskAttempts, ApiStep
    PROVE  RowAttempts' /\ TaskAttempts'
<1>1. pc' = pc /\ local' = local /\ attempt' = attempt
  BY DEF ApiStep, PlanRun, TriggerProcess, ReplayRun, CancelRead, CancelWrite, KillRun,
         SetProcessEnabled, BulkWrite, CreateRun, tasks, rows
<1>2. \A r \in Runs :
        state'[r] # state[r] =>
          \/ state'[r] \notin {"absent", "pending", "paused", "retrying", "queued"}
          \/ state[r] \in {"absent", "pending", "paused"} /\ state'[r] # "queued"
  <2>1. ASSUME NEW c \in Clients, CancelWrite(c)
        PROVE  todo[c].to \in {"cancelled", "kill_requested"}
    BY <2>1, TodoOfOneRow DEF CancelWrite, OfOneRow
  <2> QED  BY <2>1 DEF ApiStep, PlanRun, TriggerProcess, ReplayRun, CancelRead, CancelWrite,
                KillRun, SetProcessEnabled, BulkWrite, OfAllRows, CreateRun, rows, TypeOK,
                RowsOK
<1> QED  BY <1>1, <1>2, RowAttemptsKept, TaskAttemptsKept

\* A claim is taken from a claimable row, a poll from a running one.
LEMMA LoopAttempts ==
    ASSUME TypeOK, RowAttempts, TaskAttempts, LoopStep
    PROVE  RowAttempts' /\ TaskAttempts'
<1>0. state' = state /\ attempt' = attempt
  BY DEF LoopStep, Tick, TickClaims, ListKillRequested, KillOne, ListActiveAsync, rows
<1>1. RowAttempts'  BY <1>0, RowAttemptsKept
<1>2. ASSUME NEW S \in SUBSET Claimable, TickClaims(S) PROVE TaskAttempts'
  <2>1. PICK id \in [S -> {d \in Dispatches : Idle(d)}] :
          /\ pc' = [t \in Tasks |->
                      IF \E r \in S : id[r] = t THEN "claimed" ELSE pc[t]]
          /\ local' = [t \in Tasks |->
                      IF \E r \in S : id[r] = t
                      THEN LET r == CHOOSE r \in S : id[r] = t
                           IN  [Blank EXCEPT !.run = r, !.attempt = attempt[r],
                                             !.exec = t]
                      ELSE local[t]]
    BY <1>2 DEF TickClaims
  <2>2. \A r \in S : attempt[r] < MaxAttempts
    BY DEF Claimable, RowAttempts
  <2>3. ASSUME NEW t \in Tasks
        PROVE  /\ pc'[t] \in Undecided => local'[t].attempt < MaxAttempts
               /\ pc'[t] \in Working => local'[t].attempt <= MaxAttempts
               /\ pc'[t] # "queue"
    <3>1. CASE \E r \in S : id[r] = t
      <4> DEFINE q == CHOOSE r \in S : id[r] = t
      <4>1. q \in S  BY <3>1
      <4>2. local'[t] = [Blank EXCEPT !.run = q, !.attempt = attempt[q], !.exec = t]
        BY <2>1, <3>1
      <4>3. pc'[t] = "claimed"  BY <2>1, <3>1
      <4> HIDE DEF q
      <4>4. local'[t].attempt = attempt[q]  BY <4>2 DEF Blank
      <4> QED  BY <2>2, <4>1, <4>3, <4>4 DEF Working
    <3>2. CASE ~ \E r \in S : id[r] = t
      BY <2>1, <3>2 DEF TaskAttempts
    <3> QED  BY <3>1, <3>2
  <2> QED  BY <2>3 DEF TaskAttempts
<1>3. ASSUME ListActiveAsync PROVE TaskAttempts'
  <2>1. \A t \in Tasks :
          \/ pc'[t] = pc[t] /\ local'[t] = local[t]
          \/ t \in Runs /\ pc'[t] = "listed" /\ local'[t].attempt = attempt[t]
    BY <1>3 DEF ListActiveAsync
  <2> QED  BY <2>1 DEF TaskAttempts, RowAttempts, Undecided, Working
<1>4. ASSUME pc' = pc, local' = local PROVE TaskAttempts'
  BY <1>4, TaskAttemptsKept
<1> QED  BY <1>1, <1>2, <1>3, <1>4 DEF LoopStep, Tick, ListKillRequested, KillOne, tasks

\* A retry is granted only while the attempt worked on is not the last.
LEMMA FinalizeAttempts ==
    ASSUME TypeOK, RowAttempts, TaskAttempts, NEW t \in Tasks, FinalizeStep(t)
    PROVE  RowAttempts' /\ TaskAttempts'
<1>0. local[t].run \in Runs /\ pc[t] \in Working /\ local[t].attempt <= MaxAttempts
  BY DEF FinalizeStep, ClearHandle, WriteOutcome, ContinueChain, EndTerminal, At, TypeOK,
         TasksOK, TaskAttempts, Working
<1>1. CASE ClearHandle(t)
  <2>1. state' = state /\ attempt' = attempt /\ local' = local
    BY <1>1 DEF ClearHandle
  <2>2. pc'[t] = "outcome" /\ \A u \in Tasks \ {t} : pc'[u] = pc[u]
    BY <1>1, TaskFrame DEF ClearHandle
  <2> QED  BY <1>0, <2>1, <2>2, RowAttemptsKept, TaskAttemptsStep DEF Undecided
<1>2. CASE WriteOutcome(t)
  <2>1. CASE Outcome(local[t]) = "retrying"
    <3>1. local[t].attempt < MaxAttempts  BY <2>1 DEF Outcome, MayRetry
    <3>2. /\ state' = [state EXCEPT ![local[t].run] = "retrying"]
          /\ attempt' = [attempt EXCEPT ![local[t].run] = local[t].attempt]
          /\ Return(t)
      BY <1>2, <2>1 DEF WriteOutcome
    <3>3. RowAttempts'
      BY <1>0, <3>1, <3>2 DEF RowAttempts, TypeOK, RowsOK
    <3> QED  BY <3>2, <3>3, TaskAttemptsEnd
  <2>2. CASE Outcome(local[t]) # "retrying"
    <3>1. Outcome(local[t]) \in {"completed", "killed", "failed"}
      BY <2>2 DEF Outcome
    <3>2. /\ state' = [state EXCEPT ![local[t].run] = Outcome(local[t])]
          /\ attempt' = attempt /\ local' = local /\ Goto(t, "terminal")
      BY <1>2, <2>2 DEF WriteOutcome
    <3>3. RowAttempts'
      BY <1>0, <3>1, <3>2, RowAttemptsKept DEF TypeOK, RowsOK
    <3>4. pc'[t] = "terminal" /\ \A u \in Tasks \ {t} : pc'[u] = pc[u]
      BY <3>2, TaskFrame
    <3> QED  BY <1>0, <3>2, <3>3, <3>4, TaskAttemptsStep DEF Undecided
  <2> QED  BY <2>1, <2>2
<1>3. ASSUME NEW r \in Runs, ContinueChain(t, r) PROVE RowAttempts' /\ TaskAttempts'
  <2>1. RowAttempts'
    BY <1>3, RowAttemptsKept DEF ContinueChain, CreateRun, TypeOK, RowsOK
  <2> QED  BY <1>3, <2>1, TaskAttemptsEnd DEF ContinueChain
<1>4. CASE EndTerminal(t)
  BY <1>4, RowAttemptsKept, TaskAttemptsEnd DEF EndTerminal, rows
<1> QED  BY <1>1, <1>2, <1>3, <1>4 DEF FinalizeStep

\* Writing running adds one to an attempt number that was below the maximum.
LEMMA DispatchAttempts ==
    ASSUME NeverQueues, TypeOK, RowAttempts, TaskAttempts, NEW d \in Dispatches,
           DispatchStep(d) \/ GiveUp(d)
    PROVE  RowAttempts' /\ TaskAttempts'
<1>0. d \in Tasks  BY DEF Tasks
<1>r. \A l \in DispatchPC \ {"idle", "done"} : At(d, l) => local[d].run \in Runs /\ pc[d] = l
  BY <1>0 DEF At, TypeOK, TasksOK
<1>1. CASE DispatchAbort(d)
  BY <1>0, <1>1, RowAttemptsKept, TaskAttemptsEnd DEF DispatchAbort, rows
<1>2. CASE CheckOverlap(d)
  <2>1. PICK l \in {"skip", "start"} : Goto(d, l)
    BY <1>2, ProcessAssumption DEF CheckOverlap, Overlaps, NeverQueues
  <2>2. pc'[d] = l /\ \A u \in Tasks \ {d} : pc'[u] = pc[u]
    BY <1>0, <2>1, TaskFrame
  <2>3. local' = local /\ state' = state /\ attempt' = attempt
    BY <1>2 DEF CheckOverlap, rows
  <2>4. local[d].attempt < MaxAttempts
    BY <1>0, <1>2 DEF CheckOverlap, At, TaskAttempts, Undecided
  <2> QED  BY <1>0, <2>2, <2>3, <2>4, RowAttemptsKept, TaskAttemptsStep DEF Working
<1>3. ASSUME NEW to \in {"skipped", "failed"}, local[d].run \in Runs,
             state' = [state EXCEPT ![local[d].run] = to], attempt' = attempt,
             ReturnEarly(d) \/ Return(d)
      PROVE  RowAttempts' /\ TaskAttempts'
  BY <1>0, <1>3, RowAttemptsKept, TaskAttemptsEnd DEF TypeOK, RowsOK
<1>4. CASE WriteSkipped(d) \/ FailStart(d) \/ SaveHandleFails(d)
  BY <1>3, <1>4, <1>r DEF WriteSkipped, FailStart, SaveHandleFails, DispatchPC
<1>5. CASE WriteQueued(d)
  BY <1>0, <1>5 DEF WriteQueued, At, TaskAttempts
<1>6. CASE WriteRunning(d)
  <2>1. /\ local[d].run \in Runs /\ local[d].attempt \in Nat
        /\ local[d].attempt < MaxAttempts
    BY <1>0, <1>6, <1>r DEF WriteRunning, At, TaskAttempts, Undecided, DispatchPC, TypeOK,
       TasksOK, Locals
  <2>2. local[d].attempt + 1 <= MaxAttempts
    BY <2>1, ProcessAssumption
  <2>3. /\ state' = [state EXCEPT ![local[d].run] = "running"]
        /\ attempt' = [attempt EXCEPT ![local[d].run] = local[d].attempt + 1]
        /\ local' = [local EXCEPT ![d].attempt = local[d].attempt + 1]
        /\ Goto(d, "starting")
    BY <1>6 DEF WriteRunning
  <2>4. RowAttempts'
    BY <2>1, <2>2, <2>3 DEF RowAttempts, TypeOK, RowsOK
  <2>5. /\ local'[d].attempt = local[d].attempt + 1
        /\ \A u \in Tasks \ {d} : local'[u] = local[u]
    BY <1>0, <2>3 DEF TypeOK, TasksOK, Locals
  <2>6. pc'[d] = "starting" /\ \A u \in Tasks \ {d} : pc'[u] = pc[u]
    BY <1>0, <2>3, TaskFrame
  <2> QED  BY <1>0, <2>2, <2>4, <2>5, <2>6, TaskAttemptsStep DEF Undecided
\* From one place of work to another, the attempt number stays.
<1>7. ASSUME NEW l \in Working, pc[d] \in Working, Goto(d, l), state' = state,
             attempt' = attempt,
             \/ local' = local
             \/ \E res : local' = [local EXCEPT ![d].result = res]
      PROVE  RowAttempts' /\ TaskAttempts'
  <2>1. pc'[d] = l /\ \A u \in Tasks \ {d} : pc'[u] = pc[u]
    BY <1>0, <1>7, TaskFrame
  <2>2. /\ local'[d].attempt = local[d].attempt
        /\ \A u \in Tasks \ {d} : local'[u] = local[u]
    BY <1>0, <1>7 DEF TypeOK, TasksOK, Locals
  <2>3. local[d].attempt <= MaxAttempts  BY <1>0, <1>7 DEF TaskAttempts
  <2> QED  BY <1>0, <1>7, <2>1, <2>2, <2>3, RowAttemptsKept, TaskAttemptsStep
             DEF Undecided, Working
<1>8. CASE StartAccepted(d) \/ StartBlocking(d)
  BY <1>7, <1>8 DEF StartAccepted, StartBlocking, At, Working, rows
<1>9. CASE StartRejected(d) \/ StartReturned(d) \/ GiveUp(d)
  BY <1>7, <1>9 DEF StartRejected, StartReturned, GiveUp, At, Working, rows
<1>10. CASE ReadCurrent(d)
  BY <1>7, <1>10 DEF ReadCurrent, At, Working, rows
<1>11. CASE SaveHandle(d)
  BY <1>0, <1>11, RowAttemptsKept, TaskAttemptsEnd DEF SaveHandle
<1>12. CASE FinalizeStep(d)
  BY <1>0, <1>12, FinalizeAttempts
<1> QED
  BY <1>1, <1>2, <1>4, <1>5, <1>6, <1>8, <1>9, <1>10, <1>11, <1>12 DEF DispatchStep

\* A poll writes retrying only with an attempt below the maximum.
LEMMA PollAttempts ==
    ASSUME TypeOK, RowAttempts, TaskAttempts, NEW r \in Runs, PollStep(r)
    PROVE  RowAttempts' /\ TaskAttempts'
<1>0. r \in Tasks  BY DEF Tasks
<1>1. CASE PollNothing(r)
  BY <1>0, <1>1, RowAttemptsKept, TaskAttemptsEnd DEF PollNothing, rows
<1>2. CASE PollTerminal(r) \/ PollMistaken(r)
  <2>1. pc'[r] = "finish" /\ \A u \in Tasks \ {r} : pc'[u] = pc[u]
    BY <1>0, <1>2, TaskFrame DEF PollTerminal, PollMistaken
  <2>2. /\ local'[r].attempt = local[r].attempt
        /\ \A u \in Tasks \ {r} : local'[u] = local[u]
    BY <1>0, <1>2 DEF PollTerminal, PollMistaken, TypeOK, TasksOK, Locals
  <2>3. local[r].attempt <= MaxAttempts
    BY <1>0, <1>2 DEF PollTerminal, PollMistaken, At, TaskAttempts, Working
  <2>4. RowAttempts'  BY <1>2, RowAttemptsKept DEF PollTerminal, PollMistaken, rows
  <2> QED  BY <1>0, <2>1, <2>2, <2>3, <2>4, TaskAttemptsStep DEF Undecided
<1>3. CASE FinalizeStep(r)
  BY <1>0, <1>3, FinalizeAttempts
<1> QED  BY <1>1, <1>2, <1>3 DEF PollStep

\* The monitor, the executions, crashes and recovery grant no attempt.
LEMMA RestAttempts ==
    ASSUME TypeOK, RowAttempts, TaskAttempts,
           \/ MonitorStep \/ Crash \/ Restart \/ UNCHANGED vars
           \/ \E d \in Dispatches : ExecEnds(d)
    PROVE  RowAttempts' /\ TaskAttempts'
<1>1. CASE MonitorStep
  <2>1. pc' = pc /\ local' = local /\ attempt' = attempt
        /\ \A r \in Runs : state'[r] # state[r] => state'[r] = "hung"
    BY <1>1 DEF MonitorStep, MonitorList, MonitorMark, MonitorKill, rows, tasks, TypeOK, RowsOK
  <2> QED  BY <2>1, RowAttemptsKept, TaskAttemptsKept
<1>2. CASE Crash
  <2>1. \A t \in Tasks : pc'[t] \in {"idle", "done"}  BY <1>2 DEF Crash
  <2>2. TaskAttempts'  BY <2>1 DEF TaskAttempts, Undecided, Working
  <2> QED  BY <1>2, <2>2, RowAttemptsKept DEF Crash, rows
<1>3. CASE Restart
  <2>1. pc' = pc /\ local' = local /\ attempt' = attempt
    BY <1>3 DEF Restart, tasks
  <2>2. PICK S \in Recovered :
          state' = [r \in Runs |-> IF r \in S THEN "pending" ELSE OrphansHung[r]]
    BY <1>3 DEF Restart
  <2>3. \A r \in S : state[r] = "absent"  BY DEF Recovered
  <2>4. \A r \in Runs : state'[r] # state[r] =>
          state'[r] = "hung" \/ (state[r] = "absent" /\ state'[r] = "pending")
    BY <2>2, <2>3 DEF OrphansHung
  <2> QED  BY <2>1, <2>4, RowAttemptsKept, TaskAttemptsKept
<1>4. CASE UNCHANGED vars \/ \E d \in Dispatches : ExecEnds(d)
  <2>1. pc' = pc /\ local' = local /\ attempt' = attempt /\ state' = state
    BY <1>4 DEF ExecEnds, vars, rows, tasks
  <2> QED  BY <2>1, RowAttemptsKept, TaskAttemptsKept
<1> QED  BY <1>1, <1>2, <1>3, <1>4

\* The attempts of rows and tasks stay in bounds in every step.
LEMMA AttemptsNext ==
    NeverQueues /\ TypeOK /\ RowAttempts /\ TaskAttempts /\ [Next]_vars
      => RowAttempts' /\ TaskAttempts'
  BY ApiAttempts, LoopAttempts, DispatchAttempts, PollAttempts, RestAttempts DEF Next

\* No row is ever given an attempt number beyond max_attempts, even when a tick
\* claims a row twice before its first dispatch has written it.
THEOREM AttemptsStayBounded == NeverQueues => (Spec => []AttemptsBounded)
<1> SUFFICES ASSUME NeverQueues PROVE Spec => []AttemptsBounded  OBVIOUS
<1>1. TypeOK /\ RowAttempts /\ TaskAttempts /\ [Next]_vars => RowAttempts' /\ TaskAttempts'
  BY AttemptsNext
<1>2. RowAttempts => AttemptsBounded  BY DEF RowAttempts, AttemptsBounded
<1> QED  BY <1>1, <1>2, TypeCorrect, AttemptsInit, PTL DEF Spec

=============================================================================
