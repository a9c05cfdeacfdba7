---------------------------- MODULE Workers_proofs ----------------------------
(***************************************************************************)
(* Proofs about Workers, for any sets of tasks, workers and deliveries and *)
(* any number of requests and faults.                                      *)
(***************************************************************************)
EXTENDS Workers, TLAPS

-----------------------------------------------------------------------------
(* Types                                                                   *)

Dispatching == [at : {"idle", "selected", "queued", "none"},
                worker : Workers \cup {NoOne}, attempt : Nat]

Entries == [at : Phases, task : Tasks \cup {NoOne}, worker : Workers \cup {NoOne},
            told : BOOLEAN, result : {"none", "success", "failure"}, killing : BOOLEAN,
            number : Nat]

RowsOK ==
    /\ state \in [Tasks -> States] /\ attempt \in [Tasks -> Nat]
    /\ worker \in [Tasks -> Workers \cup {NoOne}]

MembersOK ==
    /\ status \in [Workers -> {"online", "offline"}]
    /\ credential \in [Workers -> {"none", "token", "issued", "deleted", "revoked"}]
    /\ enabled \in [Workers -> BOOLEAN] /\ maxConcurrency \in [Workers -> 1 .. MaxConcurrency]
    /\ labels \in [Workers -> Range(Labels)]
    /\ stale \subseteq Workers /\ marked \in Workers \cup {NoOne}

ChannelsOK ==
    /\ channel \in [Workers -> Seq(Tasks)]
    /\ \A w \in Workers : Len(channel[w]) <= ChannelSize

\* A goroutine that has selected a worker has one.
DispatchingOK ==
    /\ dispatching \in [Tasks -> Dispatching]
    /\ \A t \in Tasks : dispatching[t].at \in {"selected", "queued"} =>
                          dispatching[t].worker \in Workers

\* A delivery that is in use has a task and the worker it went to.
DeliveriesOK ==
    /\ delivery \in [Deliveries -> Entries]
    /\ \A d \in Deliveries : delivery[d] = Free \/ delivery[d].at # "free"
    /\ \A d \in Deliveries : delivery[d].at # "free" => delivery[d].task \in Tasks
    /\ registered \subseteq Deliveries

RequestsOK ==
    /\ todo \in [task : Tasks \cup {NoOne}, to : States]
    /\ todo = NothingToDo \/ todo.to \in {"kill_requested", "cancelled"}
    /\ requests \in Nat /\ faults \in Nat /\ requests + faults <= MaxEvents

TypeInv == RowsOK /\ MembersOK /\ ChannelsOK /\ DispatchingOK /\ DeliveriesOK /\ RequestsOK

\* The parts make up the types.
LEMMA TypeParts == TypeInv => TypeOK
  BY DEF TypeInv, TypeOK, RowsOK, MembersOK, ChannelsOK, DispatchingOK, DeliveriesOK, RequestsOK,
         Dispatching, Entries

\* The empty tables are well typed.
LEMMA InitType == Init => TypeInv
<1> SUFFICES ASSUME Init PROVE TypeInv  OBVIOUS
<1>1. RowsOK  BY DEF Init, RowsOK, States
<1>2. MembersOK  BY WorkersAssumption DEF Init, MembersOK
<1>3. ChannelsOK  BY WorkersAssumption DEF Init, ChannelsOK
<1>4. DispatchingOK  BY DEF Init, DispatchingOK, Dispatching, Idle
<1>5. DeliveriesOK  BY DEF Init, DeliveriesOK, Entries, Free, Phases
<1>6. RequestsOK  BY WorkersAssumption DEF Init, RequestsOK, NothingToDo, States
<1> QED  BY <1>1, <1>2, <1>3, <1>4, <1>5, <1>6 DEF TypeInv

\* The statements on rows keep the columns typed.
LEMMA WriteType ==
    ASSUME RowsOK, NEW t \in Tasks, NEW s \in States, NEW w \in Workers \cup {NoOne},
           UpdateRunState(t, s, w) \/ (\E n \in Nat : UpdateJobState(t, s, n, w)) \/ Write(t, s, w)
    PROVE  /\ RowsOK'
           /\ state' = [state EXCEPT ![t] = s]
  BY DEF RowsOK, UpdateRunState, UpdateJobState, Write

\* Dispatch.
LEMMA DispatchType ==
    ASSUME TypeInv, NEW t \in Tasks, DispatchStep(t)
    PROVE  TypeInv'
<1> USE DEF TypeInv
<1>1. CASE Select(t)
  <2>1. \A w \in selectWorker(t) : w \in Workers  BY DEF selectWorker, Suitable, ListOnlineWorkers
  <2>2. DispatchingOK'
    BY <1>1, <2>1 DEF Select, DispatchingOK, Dispatching, Idle, RowsOK
  <2> QED  BY <1>1, <2>2 DEF Select, RowsOK, MembersOK, ChannelsOK, DeliveriesOK, RequestsOK,
                             rows, members, config, agents, bounds
<1>2. CASE Enqueue(t)
  <2>1. dispatching[t].worker \in Workers  BY <1>2 DEF Enqueue, DispatchingOK
  <2>2. DispatchingOK'
    <3> DEFINE queued == [dispatching[t] EXCEPT !.at = "queued"]
               none == [Idle EXCEPT !.at = "none"]
    <3>1. queued \in Dispatching /\ queued.at = "queued" /\ queued.worker \in Workers
      BY <2>1 DEF DispatchingOK, Dispatching
    <3>2. none \in Dispatching /\ none.at = "none"  BY DEF Dispatching, Idle
    <3>3. dispatching' = [dispatching EXCEPT ![t] = queued] \/ dispatching' = [dispatching EXCEPT ![t] = none]
      BY <1>2 DEF Enqueue
    <3> HIDE DEF queued, none
    <3> QED  BY <3>1, <3>2, <3>3 DEF DispatchingOK
  <2>3. ChannelsOK'
    <3> DEFINE w == dispatching[t].worker
    <3>1. CASE UNCHANGED channel  BY <3>1 DEF ChannelsOK
    <3>2. CASE /\ Len(channel[w]) < ChannelSize
               /\ channel' = [channel EXCEPT ![w] = Append(@, t)]
      <4>1. channel[w] \in Seq(Tasks)  BY <2>1 DEF ChannelsOK
      <4>2. /\ Append(channel[w], t) \in Seq(Tasks)
            /\ Len(Append(channel[w], t)) = Len(channel[w]) + 1
        BY <4>1
      <4>3. Len(channel[w]) \in Nat  BY <4>1
      <4>4. Len(Append(channel[w], t)) <= ChannelSize  BY <3>2, <4>2, <4>3, WorkersAssumption
      <4> QED  BY <2>1, <3>2, <4>2, <4>4 DEF ChannelsOK
    <3> QED  BY <1>2, <3>1, <3>2 DEF Enqueue
  <2> QED  BY <1>2, <2>2, <2>3 DEF Enqueue, RowsOK, MembersOK, DeliveriesOK, RequestsOK,
                             rows, members, config, agents, bounds
<1>3. CASE WriteAssigned(t)
  <2>1. dispatching[t].worker \in Workers /\ dispatching[t].attempt + 1 \in Nat
    BY <1>3 DEF WriteAssigned, DispatchingOK, Dispatching
  <2>2. RowsOK'
    BY <1>3, <2>1, WriteType DEF WriteAssigned, States
  <2>3. DispatchingOK'  BY <1>3 DEF WriteAssigned, DispatchingOK, Dispatching, Idle
  <2> QED  BY <1>3, <2>2, <2>3 DEF WriteAssigned, MembersOK, ChannelsOK, DeliveriesOK, RequestsOK,
                             members, config, agents, bounds
<1>4. CASE WriteWaiting(t)
  <2>2. RowsOK'
    BY <1>4, WriteType DEF WriteWaiting, States
  <2>3. DispatchingOK'  BY <1>4 DEF WriteWaiting, DispatchingOK, Dispatching, Idle
  <2> QED  BY <1>4, <2>2, <2>3 DEF WriteWaiting, MembersOK, ChannelsOK, DeliveriesOK, RequestsOK,
                             members, config, agents, bounds
<1>5. CASE AssignFails(t)
  <2>1. DispatchingOK'  BY <1>5 DEF AssignFails, DispatchingOK, Dispatching, Idle
  <2> QED  BY <1>5, <2>1 DEF AssignFails, RowsOK, MembersOK, ChannelsOK, DeliveriesOK, RequestsOK,
                             rows, members, config, agents, bounds
<1> QED  BY <1>1, <1>2, <1>3, <1>4, <1>5 DEF DispatchStep

\* A poll takes the first task of the channel.
LEMMA PollTaskType ==
    ASSUME ChannelsOK, NEW w \in Workers, PollTask(w)
    PROVE  Head(channel[w]) \in Tasks /\ ChannelsOK'
<1>1. channel[w] \in Seq(Tasks) /\ channel[w] # <<>>  BY DEF ChannelsOK, PollTask
<1>2. /\ Head(channel[w]) \in Tasks /\ Tail(channel[w]) \in Seq(Tasks)
      /\ Len(Tail(channel[w])) = Len(channel[w]) - 1
  BY <1>1
<1>3. Len(channel[w]) \in Nat  BY <1>1
<1> QED  BY <1>2, <1>3, WorkersAssumption DEF ChannelsOK, PollTask

\* The worker endpoints.
LEMMA EndpointType ==
    ASSUME TypeInv, NEW w \in Workers, EndpointStep(w)
    PROVE  TypeInv'
<1> USE DEF TypeInv
<1>1. ASSUME NEW d \in Deliveries, WorkerPoll(w, d) \/ AnswerLost(w, d) PROVE TypeInv'
  <2>1. Head(channel[w]) \in Tasks /\ ChannelsOK'
    BY <1>1, PollTaskType DEF WorkerPoll, AnswerLost
  <2>2. PICK at \in {"running", "over"} : Deliver(w, d, [Free EXCEPT !.at = at])
    BY <1>1 DEF WorkerPoll, AnswerLost
  <2>3. RowsOK'
    <3>1. CASE Write(Head(channel[w]), "running", w)  BY <2>1, <3>1, WriteType DEF States
    <3>2. CASE UNCHANGED rows  BY <3>2 DEF RowsOK, rows
    <3> QED  BY <2>2, <3>1, <3>2 DEF Deliver
  <2>4. registered' \subseteq Deliveries
    BY <1>1 DEF WorkerPoll, AnswerLost, DeliveriesOK
  <2>5. DeliveriesOK'
    BY <2>1, <2>2, <2>4 DEF Deliver, DeliveriesOK, Entries, Free, Phases
  <2>6. RequestsOK'
    BY <1>1, <2>2, WorkersAssumption
    DEF WorkerPoll, AnswerLost, Deliver, Fault, RequestsOK, bounds
  <2> QED  BY <2>1, <2>2, <2>3, <2>5, <2>6 DEF Deliver, MembersOK, DispatchingOK, members, config
<1>2. CASE PollAbandoned(w)
  <2>1. ChannelsOK'  BY <1>2, PollTaskType DEF PollAbandoned
  <2>2. RequestsOK'
    BY <1>2, WorkersAssumption DEF PollAbandoned, Fault, RequestsOK
  <2> QED  BY <1>2, <2>1, <2>2 DEF PollAbandoned, RowsOK, MembersOK, DispatchingOK, DeliveriesOK,
                             rows, members, config, agents
<1>3. CASE ControlPoll(w)
  <2>1. \A d \in KillCommands(w) : d \in Deliveries /\ delivery[d].at # "free"
    BY WorkersAssumption DEF KillCommands, DeliveriesOK, Free
  <2>a. ASSUME NEW d \in Deliveries
        PROVE  LET told == [delivery[d] EXCEPT !.told = TRUE]
               IN  told \in Entries /\ told.at = delivery[d].at /\ told.task = delivery[d].task
    BY DEF DeliveriesOK, Entries
  <2>2. DeliveriesOK'
    BY <1>3, <2>1, <2>a DEF ControlPoll, DeliveriesOK
  <2> QED  BY <1>3, <2>2 DEF ControlPoll, RowsOK, MembersOK, ChannelsOK, DispatchingOK, RequestsOK,
                             rows, members, config, server, bounds
<1>4. CASE WorkerHeartbeat(w)
  <2>1. MembersOK'  BY <1>4 DEF WorkerHeartbeat, UpdateWorkerHeartbeat, MembersOK, server, config
  <2> QED  BY <1>4, <2>1 DEF WorkerHeartbeat, RowsOK, ChannelsOK, DispatchingOK, DeliveriesOK,
                             RequestsOK, rows, server, agents, bounds
<1>5. CASE PollRefused(w)
  <2>1. ChannelsOK'  BY <1>5, PollTaskType DEF PollRefused
  <2> QED  BY <1>5, <2>1 DEF PollRefused, RowsOK, MembersOK, DispatchingOK, DeliveriesOK, RequestsOK,
                             rows, members, config, agents, bounds
<1> QED  BY <1>1, <1>2, <1>3, <1>4, <1>5 DEF EndpointStep

\* A delivery that is done with keeps its task.
LEMMA OverType ==
    ASSUME NEW e \in Entries
    PROVE  /\ Over(e) \in Entries
           /\ Over(e).task = e.task /\ Over(e).worker = e.worker /\ Over(e).result = e.result
           /\ Over(e).at = "over" /\ Over(e).told = FALSE
  BY DEF Over, Entries, Phases

\* An execution ends: its entry has a result and nothing else is touched.
LEMMA EndTaskEntry ==
    ASSUME DeliveriesOK, NEW d \in Deliveries, EndTask(d)
    PROVE  /\ delivery' \in [Deliveries -> Entries]
           /\ delivery[d].at = "running" /\ delivery'[d].at = "ended"
           /\ delivery'[d].result \in {"success", "failure"} /\ delivery'[d].told = FALSE
           /\ delivery'[d].task = delivery[d].task /\ delivery'[d].worker = delivery[d].worker
           /\ \A e \in Deliveries \ {d} : delivery'[e] = delivery[e]
<1>1. PICK r \in {"success", "failure"} :
        delivery' = [delivery EXCEPT ![d].at = "ended", ![d].result = r, ![d].told = FALSE]
  BY DEF EndTask
<1> DEFINE new == [delivery[d] EXCEPT !.at = "ended", !.result = r, !.told = FALSE]
<1>2. delivery[d] \in Entries /\ delivery[d].at = "running"  BY DEF DeliveriesOK, EndTask
<1>3. /\ new \in Entries /\ new.at = "ended" /\ new.result = r /\ new.told = FALSE
      /\ new.task = delivery[d].task /\ new.worker = delivery[d].worker
  BY <1>2 DEF Entries, Phases
<1>4. delivery' = [delivery EXCEPT ![d] = new]  BY <1>1, <1>2 DEF DeliveriesOK, Entries
<1> HIDE DEF new
<1> QED  BY <1>2, <1>3, <1>4 DEF DeliveriesOK

\* ProcessResult reads the row: only its own locals change.
LEMMA ResultReadEntry ==
    ASSUME DeliveriesOK, RowsOK, NEW d \in Deliveries, ResultRead(d)
    PROVE  /\ delivery' \in [Deliveries -> Entries]
           /\ delivery[d].at = "ended" /\ delivery'[d].at = "read"
           /\ delivery'[d].result = delivery[d].result /\ delivery'[d].told = delivery[d].told
           /\ delivery'[d].task = delivery[d].task /\ delivery'[d].worker = delivery[d].worker
           /\ \A e \in Deliveries \ {d} : delivery'[e] = delivery[e]
<1> DEFINE read == GetJobWithQueue(delivery[d].task)
           new == [delivery[d] EXCEPT !.at = "read", !.killing = read.killing,
                                      !.number = read.number]
<1>1. delivery[d] \in Entries /\ delivery[d].at = "ended" /\ delivery[d].task \in Tasks
  BY DEF DeliveriesOK, ResultRead
<1>2. read.killing \in BOOLEAN /\ read.number \in Nat  BY <1>1 DEF GetJobWithQueue, RowsOK
<1>3. delivery' = [delivery EXCEPT ![d].at = "read", ![d].killing = read.killing,
                                   ![d].number = read.number]
  BY DEF ResultRead
<1> HIDE DEF read
<1>4. /\ new \in Entries /\ new.at = "read" /\ new.result = delivery[d].result
      /\ new.told = delivery[d].told
      /\ new.task = delivery[d].task /\ new.worker = delivery[d].worker
  BY <1>1, <1>2 DEF Entries, Phases
<1>5. delivery' = [delivery EXCEPT ![d] = new]  BY <1>1, <1>3 DEF DeliveriesOK, Entries
<1> HIDE DEF new
<1> QED  BY <1>1, <1>4, <1>5 DEF DeliveriesOK

\* The agent and its report.
LEMMA AgentType ==
    ASSUME TypeInv, NEW d \in Deliveries, AgentStep(d)
    PROVE  TypeInv'
<1> USE DEF TypeInv
<1>1. CASE EndTask(d)
  <2>1. DeliveriesOK'
    BY <1>1, EndTaskEntry DEF EndTask, DeliveriesOK
  <2> QED  BY <1>1, <2>1 DEF EndTask, RowsOK, MembersOK, ChannelsOK, DispatchingOK, RequestsOK,
                             rows, members, config, server, bounds
<1>2. CASE ReportLost(d)
  <2>1. delivery[d] \in Entries /\ delivery[d].at = "ended"  BY <1>2 DEF ReportLost, DeliveriesOK
  <2>2. DeliveriesOK'
    BY <1>2, <2>1, OverType DEF ReportLost, DeliveriesOK
  <2>3. RequestsOK'
    BY <1>2, WorkersAssumption DEF ReportLost, Fault, RequestsOK, server
  <2> QED  BY <1>2, <2>2, <2>3 DEF ReportLost, RowsOK, MembersOK, ChannelsOK, DispatchingOK,
                             rows, members, config, server
<1>3. CASE ReportRefused(d)
  <2>1. DeliveriesOK'
    BY <1>3 DEF ReportRefused, DeliveriesOK, Entries, Phases
  <2> QED  BY <1>3, <2>1 DEF ReportRefused, RowsOK, MembersOK, ChannelsOK, DispatchingOK,
                             RequestsOK, rows, members, config, server, bounds
<1>4. CASE ResultRead(d)
  <2>1. DeliveriesOK'
    BY <1>4, ResultReadEntry DEF ResultRead, DeliveriesOK
  <2> QED  BY <1>4, <2>1 DEF ResultRead, RowsOK, MembersOK, ChannelsOK, DispatchingOK,
                             RequestsOK, rows, members, config, server, bounds
<1>5. CASE ResultWrite(d)
  <2>1. /\ delivery[d] \in Entries /\ delivery[d].at = "read" /\ delivery[d].task \in Tasks
        /\ attempt[delivery[d].task] \in Nat
    BY <1>5 DEF ResultWrite, DeliveriesOK, RowsOK
  <2>2. DeliveriesOK'
    BY <1>5, <2>1, OverType DEF ResultWrite, DeliveriesOK
  <2>3. RowsOK'
    <3>1. CASE UpdateRunState(delivery[d].task, RunResult(delivery[d]), NoOne)
      BY <2>1, <3>1, WriteType DEF RunResult, States, Terminal
    <3>2. CASE JobResult(delivery[d])
      <4>1. delivery[d].number + 1 \in Nat  BY <2>1 DEF Entries
      <4> QED  BY <2>1, <3>2, <4>1, WriteType DEF JobResult, States, Terminal
    <3> QED  BY <1>5, <3>1, <3>2 DEF ResultWrite
  <2> QED  BY <1>5, <2>2, <2>3 DEF ResultWrite, MembersOK, ChannelsOK, DispatchingOK, RequestsOK,
                             members, config, server, bounds
<1> QED  BY <1>1, <1>2, <1>3, <1>4, <1>5 DEF AgentStep

\* The status of the workers.
LEMMA StatusType ==
    ASSUME TypeInv, checkStaleWorkers \/ \E w \in Workers : StaleStep(w)
    PROVE  TypeInv'
<1> USE DEF TypeInv
<1>1. CASE checkStaleWorkers
  <2>1. MembersOK'
    BY <1>1 DEF checkStaleWorkers, ListStaleWorkers, MembersOK, members, config
  <2> QED  BY <1>1, <2>1 DEF checkStaleWorkers, RowsOK, ChannelsOK, DispatchingOK, DeliveriesOK,
                             RequestsOK, rows, agents, bounds
<1>2. ASSUME NEW w \in Workers, MarkStale(w) PROVE TypeInv'
  <2>1. MembersOK'
    BY <1>2 DEF MarkStale, SetWorkerStatus, FailedStatement, MembersOK, config
  <2>2. RequestsOK'
    BY <1>2, WorkersAssumption DEF MarkStale, FailedStatement, Request, RequestsOK
  <2> QED  BY <1>2, <2>1, <2>2 DEF MarkStale, RowsOK, ChannelsOK, DispatchingOK, DeliveriesOK,
                             rows, agents
<1>3. ASSUME NEW w \in Workers, Reassign(w) PROVE TypeInv'
  <2>1. MembersOK'  BY <1>3 DEF Reassign, MembersOK, members, config
  <2>2. RowsOK'
    BY <1>3 DEF Reassign, reassignWorkerRuns, FailedStatement, RowsOK, States, rows
  <2>3. RequestsOK'
    BY <1>3, WorkersAssumption DEF Reassign, FailedStatement, Request, RequestsOK
  <2> QED  BY <1>3, <2>1, <2>2, <2>3 DEF Reassign, ChannelsOK, DispatchingOK, DeliveriesOK, agents
<1> QED  BY <1>1, <1>2, <1>3 DEF StaleStep

\* The requests of the API and the monitor.
LEMMA ApiType ==
    ASSUME TypeInv, ApiStep \/ \E t \in Runs : MonitorHung(t)
    PROVE  TypeInv'
<1> USE DEF TypeInv
<1>1. ASSUME NEW w \in Workers, CreateWorker(w) \/ EnrollWorker(w) \/ UpdateWorker(w)
      PROVE  TypeInv'
  <2>1. MembersOK'
    BY <1>1 DEF CreateWorker, EnrollWorker, UpdateWorker, SetWorkerEnrollmentToken,
                UpdateWorkerCredentialHash, MembersOK, server, config
  <2>2. RequestsOK'
    BY <1>1, WorkersAssumption DEF CreateWorker, EnrollWorker, UpdateWorker, Request, RequestsOK,
                server, bounds
  <2> QED  BY <1>1, <2>1, <2>2 DEF CreateWorker, EnrollWorker, UpdateWorker, RowsOK, ChannelsOK,
                DispatchingOK, DeliveriesOK, rows, server, agents
<1>2. ASSUME NEW w \in Workers, DeleteWorker(w) PROVE TypeInv'
  <2>1. MembersOK' /\ RowsOK'  BY <1>2 DEF DeleteWorker, MembersOK, RowsOK, server, config
  <2>2. RequestsOK'
    BY <1>2, WorkersAssumption DEF DeleteWorker, Request, RequestsOK, server
  <2> QED  BY <1>2, <2>1, <2>2 DEF DeleteWorker, ChannelsOK, DispatchingOK, DeliveriesOK,
                server, agents
<1>3. ASSUME NEW t \in Tasks, CancelRead(t) PROVE TypeInv'
  <2>1. RequestsOK'
    BY <1>3, WorkersAssumption DEF CancelRead, Request, RequestsOK, NothingToDo, States,
                                   Terminal
  <2> QED  BY <1>3, <2>1 DEF CancelRead, RowsOK, MembersOK, ChannelsOK, DispatchingOK,
                DeliveriesOK, rows, members, config, agents
<1>4. CASE CancelWrite
  <2>1. RequestsOK'  BY <1>4 DEF CancelWrite, RequestsOK, NothingToDo, States, bounds
  <2>2. RowsOK'
    <3>1. todo.to \in States  BY DEF RequestsOK
    <3>2. CASE /\ todo.task \in Jobs /\ todo.to = "cancelled"
               /\ state' = [state EXCEPT ![todo.task] = "cancelled"]
               /\ UNCHANGED <<attempt, worker>>
      BY <3>2 DEF RowsOK, States, Terminal
    <3>3. CASE Write(todo.task, todo.to, NoOne)
      <4>1. todo.task \in Tasks  BY <3>3 DEF Write, Tasks
      <4> QED  BY <3>1, <3>3, <4>1, WriteType
    <3> QED  BY <1>4, <3>2, <3>3 DEF CancelWrite
  <2> QED  BY <1>4, <2>1, <2>2 DEF CancelWrite, MembersOK, ChannelsOK, DispatchingOK,
                DeliveriesOK, members, config, agents
<1>5. ASSUME NEW t \in Runs, KillRun(t) PROVE TypeInv'
  <2>1. t \in Tasks  BY DEF Tasks
  <2>2. RowsOK'  BY <1>5, <2>1, WriteType DEF KillRun, States
  <2>3. RequestsOK'
    BY <1>5, WorkersAssumption DEF KillRun, Request, RequestsOK, server
  <2> QED  BY <1>5, <2>2, <2>3 DEF KillRun, MembersOK, ChannelsOK, DispatchingOK,
                DeliveriesOK, members, config, agents, server
<1>6. ASSUME NEW t \in Runs, MonitorHung(t) PROVE TypeInv'
  <2>1. t \in Tasks  BY DEF Tasks
  <2>2. RowsOK'  BY <1>6, <2>1, WriteType DEF MonitorHung, States, Terminal
  <2> QED  BY <1>6, <2>2 DEF MonitorHung, MembersOK, ChannelsOK, DispatchingOK,
                DeliveriesOK, RequestsOK, members, config, agents, server, bounds
<1> QED  BY <1>1, <1>2, <1>3, <1>4, <1>5, <1>6 DEF ApiStep

\* An agent or the server stops.
LEMMA StopType ==
    ASSUME TypeInv, Crash \/ \E w \in Workers : WorkerStops(w)
    PROVE  TypeInv'
<1> USE DEF TypeInv
<1>1. ASSUME NEW w \in Workers, WorkerStops(w) PROVE TypeInv'
  <2>1. \A d \in Deliveries : delivery[d] \in Entries  BY DEF DeliveriesOK
  <2>2. DeliveriesOK'  BY <1>1, <2>1, OverType DEF WorkerStops, DeliveriesOK
  <2>3. RequestsOK'
    BY <1>1, WorkersAssumption DEF WorkerStops, Fault, RequestsOK, server
  <2> QED  BY <1>1, <2>2, <2>3 DEF WorkerStops, RowsOK, MembersOK, ChannelsOK, DispatchingOK,
                rows, members, config, server
<1>2. CASE Crash
  <2>1. \A d \in Deliveries : delivery[d] \in Entries  BY DEF DeliveriesOK
  <2>2. DeliveriesOK'  BY <1>2, <2>1, OverType DEF Crash, DeliveriesOK
  <2>3. RequestsOK'
    BY <1>2, WorkersAssumption DEF Crash, Fault, RequestsOK, NothingToDo, States
  <2>4. RowsOK'  BY <1>2 DEF Crash, RowsOK, States, Terminal
  <2>5. ChannelsOK'  BY <1>2, WorkersAssumption DEF Crash, ChannelsOK
  <2>6. DispatchingOK'  BY <1>2 DEF Crash, DispatchingOK, Dispatching, Idle
  <2>7. MembersOK'  BY <1>2 DEF Crash, MembersOK, members, config
  <2> QED  BY <2>2, <2>3, <2>4, <2>5, <2>6, <2>7
<1> QED  BY <1>1, <1>2

\* Every step keeps the types.
LEMMA NextType == TypeInv /\ [Next]_vars => TypeInv'
<1> SUFFICES ASSUME TypeInv, [Next]_vars PROVE TypeInv'  OBVIOUS
<1>1. CASE UNCHANGED vars
  BY <1>1 DEF TypeInv, RowsOK, MembersOK, ChannelsOK, DispatchingOK, DeliveriesOK, RequestsOK,
              vars, rows, members, config, server, agents, bounds
<1>2. CASE \E t \in Tasks : DispatchStep(t)  BY <1>2, DispatchType
<1>3. CASE \E w \in Workers : EndpointStep(w)  BY <1>3, EndpointType
<1>4. CASE \E d \in Deliveries : AgentStep(d)  BY <1>4, AgentType
<1>5. CASE checkStaleWorkers \/ \E w \in Workers : StaleStep(w)  BY <1>5, StatusType
<1>6. CASE ApiStep \/ \E t \in Runs : MonitorHung(t)  BY <1>6, ApiType
<1>7. CASE Crash \/ \E w \in Workers : WorkerStops(w)  BY <1>7, StopType
<1> QED  BY <1>1, <1>2, <1>3, <1>4, <1>5, <1>6, <1>7 DEF Next

\* The types hold in every reachable state.
LEMMA TypesAlways == Spec => []TypeInv
  BY InitType, NextType, PTL DEF Spec

-----------------------------------------------------------------------------
(* What the groups of steps leave alone                                    *)

\* A dispatch touches its row, the channel and its own locals.
LEMMA DispatchFrame ==
    ASSUME NEW t \in Tasks, DispatchStep(t)
    PROVE  UNCHANGED <<members, stale, marked, todo, agents, bounds>>
  BY DEF DispatchStep, Select, Enqueue, WriteAssigned, AssignFails, WriteWaiting

\* The agents write neither the tables of the workers nor the memory of the server, and,
\* ProcessResult apart, no row.
LEMMA AgentFrame ==
    ASSUME NEW d \in Deliveries, AgentStep(d)
    PROVE  /\ UNCHANGED <<members, server, requests>>
           /\ ~ResultWrite(d) => UNCHANGED rows
           /\ ~ReportLost(d) => UNCHANGED faults
  BY DEF AgentStep, EndTask, ReportLost, ReportRefused, ResultRead, ResultWrite, bounds

\* Requests of the API touch no channel, no goroutine and no agent.
LEMMA ApiFrame ==
    ASSUME ApiStep \/ \E t \in Runs : MonitorHung(t)
    PROVE  UNCHANGED <<status, channel, dispatching, stale, marked, agents, faults>>
  BY DEF ApiStep, CreateWorker, EnrollWorker, UpdateWorker, DeleteWorker, CancelRead, CancelWrite,
         KillRun, MonitorHung, members, config, server, bounds

\* The endpoints touch no goroutine of the server.
LEMMA EndpointFrame ==
    ASSUME NEW w \in Workers, EndpointStep(w)
    PROVE  /\ UNCHANGED <<config, credential, dispatching, stale, marked, todo, requests>>
           /\ WorkerHeartbeat(w) \/ UNCHANGED members
  BY DEF EndpointStep, WorkerPoll, AnswerLost, PollAbandoned, PollRefused, ControlPoll,
         WorkerHeartbeat, Deliver,
         members, config, server, bounds

\* The steps that write rows.
LEMMA RowsNext ==
    ASSUME [Next]_vars
    PROVE  \/ UNCHANGED rows
           \/ \E t \in Tasks : WriteAssigned(t) \/ WriteWaiting(t)
           \/ \E w \in Workers, d \in Deliveries : WorkerPoll(w, d) \/ AnswerLost(w, d)
           \/ \E d \in Deliveries : ResultWrite(d)
           \/ \E w \in Workers : Reassign(w) \/ DeleteWorker(w)
           \/ CancelWrite
           \/ \E t \in Runs : KillRun(t) \/ MonitorHung(t)
           \/ Crash
<1> DEFINE writes ==
      \/ \E t \in Tasks : WriteAssigned(t) \/ WriteWaiting(t)
      \/ \E w \in Workers, d \in Deliveries : WorkerPoll(w, d) \/ AnswerLost(w, d)
      \/ \E d \in Deliveries : ResultWrite(d)
      \/ \E w \in Workers : Reassign(w) \/ DeleteWorker(w)
      \/ CancelWrite
      \/ \E t \in Runs : KillRun(t) \/ MonitorHung(t)
      \/ Crash
<1>1. CASE \E t \in Tasks : DispatchStep(t)  BY <1>1 DEF DispatchStep, Select, Enqueue, AssignFails
<1>2. CASE \E w \in Workers : EndpointStep(w)
  BY <1>2 DEF EndpointStep, PollAbandoned, PollRefused, ControlPoll, WorkerHeartbeat
<1>3. CASE \E d \in Deliveries : AgentStep(d)  BY <1>3, AgentFrame
<1>4. CASE checkStaleWorkers \/ \E w \in Workers : WorkerStops(w) \/ StaleStep(w)
  BY <1>4 DEF checkStaleWorkers, WorkerStops, StaleStep, MarkStale
<1>5. CASE ApiStep
  BY <1>5 DEF ApiStep, CreateWorker, EnrollWorker, UpdateWorker, CancelRead
<1>6. CASE UNCHANGED vars  BY <1>6 DEF vars
<1> HIDE DEF writes
<1>7. UNCHANGED rows \/ writes
  BY <1>1, <1>2, <1>3, <1>4, <1>5, <1>6 DEF Next, writes
<1> QED  BY <1>7 DEF writes

\* An execution has a result from its end on.
ResultOK(d) ==
    /\ delivery[d].at \in {"free", "running"} => delivery[d].result = "none"
    /\ delivery[d].at \in {"ended", "read"} => delivery[d].result # "none"

\* What a step does to a delivery: its task and worker stay, a result stays, and while
\* nothing is lost only ProcessResult lets go of it.
DeliveryStep(d) ==
    /\ delivery[d].at # "free" =>
         /\ delivery'[d].at # "free"
         /\ delivery'[d].task = delivery[d].task /\ delivery'[d].worker = delivery[d].worker
    /\ delivery[d].at \notin {"free", "running"} => delivery'[d].result = delivery[d].result
    /\ delivery'[d].told => /\ delivery[d].at # "free"
                            /\ delivery[d].told \/ \E w \in Workers : d \in KillCommands(w)
    /\ delivery[d].at \in Live \cup {"refused"} =>
         delivery'[d].at \in Live \cup {"refused"} \/ faults' > 0 \/ ResultWrite(d)
    /\ ResultOK(d) => ResultOK(d)'

\* Every step treats every delivery so.
LEMMA DeliveriesNext ==
    ASSUME TypeInv, [Next]_vars, NEW d \in Deliveries
    PROVE  DeliveryStep(d)
<1> USE DEF TypeInv, ResultOK
<1>0. delivery[d] \in Entries  BY DEF DeliveriesOK
<1>1. CASE delivery'[d] = delivery[d]
  BY <1>1, <1>0 DEF DeliveryStep, Entries, DeliveriesOK, Free
<1>2. ASSUME NEW w \in Workers, NEW e \in Deliveries, WorkerPoll(w, e) \/ AnswerLost(w, e)
      PROVE  DeliveryStep(d)
  <2>1. PICK at \in {"running", "over"} : Deliver(w, e, [Free EXCEPT !.at = at])
    BY <1>2 DEF WorkerPoll, AnswerLost
  <2>2. CASE d = e
    <3>1. delivery[d].at = "free"  BY <2>1, <2>2 DEF Deliver, Free
    <3>2. delivery'[d].told = FALSE /\ delivery'[d].result = "none" /\ delivery'[d].at = at
      BY <2>1, <2>2 DEF Deliver, Free, DeliveriesOK
    <3> QED  BY <3>1, <3>2 DEF DeliveryStep, Live
  <2>3. CASE d # e  BY <1>1, <2>1, <2>3 DEF Deliver, DeliveriesOK
  <2> QED  BY <2>2, <2>3
<1>3. ASSUME NEW w \in Workers, ControlPoll(w) PROVE DeliveryStep(d)
  <2>1. CASE d \notin KillCommands(w)  BY <1>1, <1>3, <2>1 DEF ControlPoll
  <2>2. CASE d \in KillCommands(w)
    <3>1. delivery[d].at # "free"
      BY <2>2, WorkersAssumption DEF KillCommands, DeliveriesOK, Free
    <3>2. delivery'[d] = [delivery[d] EXCEPT !.told = TRUE]  BY <1>3, <2>2 DEF ControlPoll
    <3> QED  BY <1>0, <2>2, <3>1, <3>2 DEF DeliveryStep, Entries
  <2> QED  BY <2>1, <2>2
<1>4. ASSUME NEW e \in Deliveries, AgentStep(e) PROVE DeliveryStep(d)
  <2>1. CASE d # e
    BY <1>1, <1>4, <2>1 DEF AgentStep, EndTask, ReportLost, ReportRefused, ResultRead, ResultWrite,
                            DeliveriesOK
  <2>2. CASE d = e
    <3>1. CASE EndTask(d)  BY <3>1, EndTaskEntry DEF DeliveryStep, Live
    <3>2. CASE ReportLost(d)
      <4>1. delivery'[d] = Over(delivery[d]) /\ delivery[d].at = "ended" /\ faults' > 0
        BY <3>2 DEF ReportLost, Fault, DeliveriesOK, RequestsOK
      <4> QED  BY <1>0, <4>1, OverType DEF DeliveryStep
    <3>3. CASE ReportRefused(d)
      <4>1. /\ delivery'[d] = [delivery[d] EXCEPT !.at = "refused"] /\ delivery[d].at = "ended"
        BY <3>3 DEF ReportRefused, DeliveriesOK, Entries
      <4> QED  BY <1>0, <4>1 DEF DeliveryStep, Entries
    <3>4. CASE ResultRead(d)  BY <3>4, ResultReadEntry DEF DeliveryStep, Live
    <3>5. CASE ResultWrite(d)
      <4>1. delivery'[d] = Over(delivery[d]) /\ delivery[d].at = "read"
        BY <3>5 DEF ResultWrite, DeliveriesOK
      <4> QED  BY <1>0, <3>5, <4>1, OverType DEF DeliveryStep
    <3> QED  BY <1>4, <2>2, <3>1, <3>2, <3>3, <3>4, <3>5 DEF AgentStep
  <2> QED  BY <2>1, <2>2
<1>5. CASE Crash \/ \E w \in Workers : WorkerStops(w)
  <2>1. faults' > 0  BY <1>5 DEF Crash, WorkerStops, Fault, RequestsOK
  <2>2. \/ delivery'[d] = delivery[d]
        \/ delivery'[d] = Over(delivery[d]) /\ delivery[d].at \in Live
    BY <1>5 DEF Crash, WorkerStops, Live
  <2> QED  BY <1>0, <1>1, <2>1, <2>2, OverType DEF DeliveryStep, Live
<1>6. CASE UNCHANGED delivery  BY <1>1, <1>6
<1>7. CASE \E t \in Tasks : DispatchStep(t)  BY <1>6, <1>7, DispatchFrame DEF agents
<1>8. ASSUME NEW w \in Workers, EndpointStep(w) PROVE DeliveryStep(d)
  BY <1>2, <1>3, <1>6, <1>8 DEF EndpointStep, PollAbandoned, PollRefused, WorkerHeartbeat, agents
<1>9. CASE ApiStep \/ \E t \in Runs : MonitorHung(t)  BY <1>6, <1>9, ApiFrame DEF agents
<1>10. CASE checkStaleWorkers \/ \E w \in Workers : StaleStep(w)
  BY <1>6, <1>10 DEF checkStaleWorkers, StaleStep, MarkStale, Reassign, agents
<1>11. CASE UNCHANGED vars  BY <1>6, <1>11 DEF vars, agents
<1> QED  BY <1>4, <1>5, <1>7, <1>8, <1>9, <1>10, <1>11 DEF Next

-----------------------------------------------------------------------------
(* States of rows                                                          *)

\* What ProcessResult writes follows from the result.
LEMMA ResultWriteState ==
    ASSUME TypeInv, NEW d \in Deliveries, ResultWrite(d)
    PROVE  /\ delivery[d].at = "read" /\ delivery[d].task \in Tasks
           /\ delivery[d].result = "success" => state'[delivery[d].task] = "completed"
           /\ delivery[d].result # "success" =>
                state'[delivery[d].task] \in {"failed", "killed", "retrying"}
           /\ \A t \in Tasks : t # delivery[d].task => state'[t] = state[t]
<1> DEFINE t == delivery[d].task
<1>1. delivery[d].at = "read" /\ t \in Tasks  BY DEF ResultWrite, TypeInv, DeliveriesOK
<1>2. PICK s \in States : /\ state' = [state EXCEPT ![t] = s]
                          /\ IF delivery[d].result = "success" THEN s = "completed"
                             ELSE s \in {"failed", "killed", "retrying"}
  <2>1. CASE UpdateRunState(t, RunResult(delivery[d]), NoOne)
    BY <2>1 DEF UpdateRunState, RunResult, States, Terminal
  <2>2. CASE JobResult(delivery[d])
    BY <2>2 DEF JobResult, UpdateJobState, States, Terminal
  <2> QED  BY <2>1, <2>2 DEF ResultWrite
<1> QED  BY <1>1, <1>2 DEF TypeInv, RowsOK

\* Where the state of a row comes from.
StateStep(t) ==
    \/ state'[t] = state[t]
    \/ state'[t] \in {"waiting_for_worker", "pending", "kill_requested", "cancelled", "hung"}
    \/ /\ state'[t] = "running"
       /\ \E w \in Workers, d \in Deliveries :
            (WorkerPoll(w, d) \/ AnswerLost(w, d)) /\ Head(channel[w]) = t
    \/ \E d \in Deliveries : ResultWrite(d) /\ delivery[d].task = t

\* Only a poll makes a row run, and only ProcessResult ends it with an outcome.
LEMMA StateNext ==
    ASSUME TypeInv, [Next]_vars, NEW t \in Tasks
    PROVE  StateStep(t)
<1> USE DEF TypeInv, StateStep
<1>a. \A r \in Runs : r \in Tasks  BY DEF Tasks
<1>1. CASE UNCHANGED rows  BY <1>1 DEF rows
<1>2. ASSUME NEW u \in Tasks, WriteAssigned(u) \/ WriteWaiting(u) PROVE StateStep(t)
  <2>1. state' = [state EXCEPT ![u] = "waiting_for_worker"]
    BY <1>2 DEF WriteAssigned, WriteWaiting, Write, UpdateRunState, UpdateJobState
  <2> QED  BY <2>1 DEF RowsOK
<1>3. ASSUME NEW w \in Workers, NEW d \in Deliveries, WorkerPoll(w, d) \/ AnswerLost(w, d)
      PROVE  StateStep(t)
  <2>1. Head(channel[w]) \in Tasks  BY <1>3, PollTaskType DEF WorkerPoll, AnswerLost
  <2>2. UNCHANGED state \/ state' = [state EXCEPT ![Head(channel[w])] = "running"]
    BY <1>3 DEF WorkerPoll, AnswerLost, Deliver, Write, UpdateRunState, UpdateJobState, rows
  <2>3. CASE t = Head(channel[w])  BY <1>3, <2>1, <2>2, <2>3 DEF RowsOK
  <2>4. CASE t # Head(channel[w])  BY <2>1, <2>2, <2>4 DEF RowsOK
  <2> QED  BY <2>3, <2>4
<1>4. ASSUME NEW d \in Deliveries, ResultWrite(d) PROVE StateStep(t)
  BY <1>4, ResultWriteState
<1>5. ASSUME NEW w \in Workers, Reassign(w) \/ DeleteWorker(w) PROVE StateStep(t)
  BY <1>5 DEF Reassign, reassignWorkerRuns, FailedStatement, DeleteWorker, rows
<1>6. CASE CancelWrite
  <2>1. todo.to \in {"kill_requested", "cancelled"}  BY <1>6 DEF CancelWrite, RequestsOK
  <2>2. PICK s \in {"kill_requested", "cancelled"} : state' = [state EXCEPT ![todo.task] = s]
    BY <1>6, <2>1 DEF CancelWrite, Write, UpdateRunState, UpdateJobState
  <2> QED  BY <2>2 DEF RowsOK
<1>7. ASSUME NEW r \in Runs, KillRun(r) \/ MonitorHung(r) PROVE StateStep(t)
  BY <1>7, <1>a DEF KillRun, MonitorHung, UpdateRunState, RowsOK
<1>8. CASE Crash  BY <1>8 DEF Crash
<1> QED  BY <1>1, <1>2, <1>3, <1>4, <1>5, <1>6, <1>7, <1>8, RowsNext

-----------------------------------------------------------------------------
(* Outcomes                                                                *)

Backed(t, s) ==
    /\ s = "completed" => \E d \in Of(t) : delivery[d].result = "success"
    /\ s \in {"failed", "killed", "retrying"} => \E d \in Of(t) : delivery[d].result = "failure"

OutcomesInv ==
    /\ \A d \in Deliveries : ResultOK(d)
    /\ \A t \in Tasks : Backed(t, state[t])

\* The deliveries that had a result keep it, so an outcome stays backed.
LEMMA OutcomesNext == TypeInv /\ OutcomesInv /\ [Next]_vars => OutcomesInv'
<1> SUFFICES ASSUME TypeInv, OutcomesInv, [Next]_vars PROVE OutcomesInv'  OBVIOUS
<1> USE DEF TypeInv
<1>1. \A d \in Deliveries : ResultOK(d)'
  BY DeliveriesNext DEF OutcomesInv, DeliveryStep
<1>2. ASSUME NEW t \in Tasks, NEW d \in Of(t), delivery[d].result # "none"
      PROVE  d \in Of(t)' /\ delivery'[d].result = delivery[d].result
  <2>1. d \in Deliveries /\ delivery[d].task = t  BY DEF Of
  <2>2. delivery[d].at \notin {"free", "running"}  BY <1>2, <2>1 DEF OutcomesInv, ResultOK
  <2> QED  BY <2>1, <2>2, DeliveriesNext DEF DeliveryStep, Of
<1>3. ASSUME NEW t \in Tasks PROVE Backed(t, state[t])'
  <2>1. CASE state'[t] = state[t]
    <3>1. Backed(t, state[t])  BY DEF OutcomesInv
    <3> QED  BY <1>2, <2>1, <3>1 DEF Backed
  <2>2. CASE state'[t] \notin {"completed", "failed", "killed", "retrying"}  BY <2>2 DEF Backed
  <2>3. ASSUME NEW d \in Deliveries, ResultWrite(d), delivery[d].task = t
        PROVE  Backed(t, state[t])'
    <3>1. /\ delivery[d].at = "read" /\ d \in Of(t)
          /\ delivery[d].result = "success" => state'[t] = "completed"
          /\ delivery[d].result # "success" => state'[t] \in {"failed", "killed", "retrying"}
      BY <2>3, ResultWriteState DEF Of
    <3>2. delivery[d].result \in {"success", "failure"}
      BY <3>1 DEF OutcomesInv, ResultOK, DeliveriesOK, Entries
    <3>3. d \in Of(t)' /\ delivery'[d].result = delivery[d].result  BY <1>2, <3>1, <3>2
    <3> QED  BY <3>1, <3>2, <3>3 DEF Backed
  <2> QED  BY <2>1, <2>2, <2>3, StateNext DEF StateStep
<1> QED  BY <1>1, <1>3 DEF OutcomesInv

-----------------------------------------------------------------------------
(* Running rows                                                            *)

\* A fault is not forgotten.
LEMMA FaultsGrow ==
    ASSUME TypeInv, [Next]_vars, faults' = 0
    PROVE  faults = 0
<1>1. CASE UNCHANGED faults  BY <1>1
<1>2. CASE Fault  BY <1>2 DEF Fault, TypeInv, RequestsOK
<1>3. CASE \E t \in Tasks : DispatchStep(t)  BY <1>1, <1>3, DispatchFrame DEF bounds
<1>4. CASE \E w \in Workers : EndpointStep(w)
  BY <1>1, <1>2, <1>4 DEF EndpointStep, WorkerPoll, AnswerLost, PollAbandoned, PollRefused,
                          ControlPoll, WorkerHeartbeat, bounds
<1>5. CASE \E d \in Deliveries : AgentStep(d)  BY <1>1, <1>2, <1>5, AgentFrame DEF ReportLost
<1>6. CASE ApiStep \/ \E t \in Runs : MonitorHung(t)  BY <1>1, <1>6, ApiFrame
<1>7. CASE checkStaleWorkers \/ Crash \/ \E w \in Workers : StaleStep(w) \/ WorkerStops(w)
  BY <1>1, <1>2, <1>7 DEF checkStaleWorkers, Crash, StaleStep, MarkStale, Reassign, WorkerStops,
                          bounds
<1>8. CASE UNCHANGED vars  BY <1>1, <1>8 DEF vars, bounds
<1> QED  BY <1>3, <1>4, <1>5, <1>6, <1>7, <1>8 DEF Next

\* Losing an answer is a fault.
LEMMA AnswerLostFault ==
    ASSUME TypeInv, NEW w \in Workers, NEW d \in Deliveries, AnswerLost(w, d)
    PROVE  faults' # 0
  BY DEF AnswerLost, Fault, TypeInv, RequestsOK

\* A poll whose answer arrives is a delivery of the first task of the channel.
LEMMA WorkerPollEntry ==
    ASSUME TypeInv, NEW w \in Workers, NEW d \in Deliveries, WorkerPoll(w, d)
    PROVE  /\ delivery'[d].at = "running" /\ delivery'[d].task = Head(channel[w])
           /\ delivery'[d].worker = w
  BY DEF WorkerPoll, Deliver, Free, TypeInv, DeliveriesOK

\* The execution of a running row stays, or the row is written when it goes.
LEMMA RunningNext == TypeInv /\ RunningIsDelivered /\ [Next]_vars => RunningIsDelivered'
<1> SUFFICES ASSUME TypeInv, RunningIsDelivered, [Next]_vars, faults' = 0,
                    NEW t \in Tasks, state'[t] = "running"
             PROVE  \E d \in Of(t)' : delivery'[d].at \in Live \cup {"refused"}
  BY DEF RunningIsDelivered, Live
<1>1. faults = 0  BY FaultsGrow
<1>2. ASSUME NEW d \in Deliveries, delivery[d].task = t PROVE ~ResultWrite(d)
  BY <1>2, ResultWriteState
<1>3. CASE state[t] = "running"
  <2>1. PICK d \in Of(t) : delivery[d].at \in Live \cup {"refused"}
    BY <1>1, <1>3 DEF RunningIsDelivered
  <2>2. d \in Deliveries /\ delivery[d].task = t /\ delivery[d].at # "free"
    BY <2>1 DEF Of, Live
  <2>3. ~ResultWrite(d)  BY <1>2, <2>2
  <2>4. delivery'[d].task = t /\ delivery'[d].at \in Live \cup {"refused"}
    BY <2>1, <2>2, <2>3, DeliveriesNext DEF DeliveryStep
  <2> QED  BY <2>2, <2>4 DEF Of
<1>4. CASE \E w \in Workers, d \in Deliveries :
              (WorkerPoll(w, d) \/ AnswerLost(w, d)) /\ Head(channel[w]) = t
  <2>1. PICK w \in Workers, d \in Deliveries : WorkerPoll(w, d) /\ Head(channel[w]) = t
    BY <1>4, AnswerLostFault
  <2>2. delivery'[d].at = "running" /\ delivery'[d].task = t  BY <2>1, WorkerPollEntry
  <2> QED  BY <2>2 DEF Of, Live
<1> QED  BY <1>2, <1>3, <1>4, StateNext DEF StateStep

-----------------------------------------------------------------------------
(* Assigned rows                                                           *)

\* The task is in the channel of the worker, or the worker was given it.
Handled(t, w) ==
    \/ \E i \in DOMAIN channel[w] : channel[w][i] = t
    \/ \E d \in Of(t) : delivery[d].worker = w

\* A goroutine has put the task into the channel and not yet written the row.
QueuedFor(t, w) == dispatching[t].at = "queued" /\ dispatching[t].worker = w

\* The foreign key: a row refers to no worker that is deleted.
References == \A t \in Tasks, w \in Workers : worker[t] = w => ~Deleted(w)

\* Whatever the state of the row: a worker is written only for a task that it will get
\* or has got, and nothing but a fault or its deletion takes a task away.
AssignedInv ==
    /\ References
    /\ faults = 0 =>
         \A t \in Tasks, w \in Workers :
           (worker[t] = w \/ QueuedFor(t, w)) => Deleted(w) \/ Handled(t, w)

\* A worker is deleted by DeleteWorker alone, and for ever.
LEMMA DeletedNext ==
    ASSUME TypeInv, [Next]_vars, NEW w \in Workers
    PROVE  (Deleted(w)' <=> Deleted(w)) \/ DeleteWorker(w)
<1> USE DEF TypeInv, Deleted
<1>1. CASE UNCHANGED credential  BY <1>1
<1>2. ASSUME NEW v \in Workers, CreateWorker(v) \/ EnrollWorker(v) \/ UpdateWorker(v) \/ DeleteWorker(v)
      PROVE  (Deleted(w)' <=> Deleted(w)) \/ DeleteWorker(w)
  <2>1. CASE v = w
    BY <1>2, <2>1 DEF CreateWorker, EnrollWorker, UpdateWorker, SetWorkerEnrollmentToken,
       UpdateWorkerCredentialHash, GetWorkerByEnrollmentToken, MembersOK
  <2>2. CASE v # w
    BY <1>2, <2>2 DEF CreateWorker, EnrollWorker, UpdateWorker, DeleteWorker,
       SetWorkerEnrollmentToken, UpdateWorkerCredentialHash, MembersOK
  <2> QED  BY <2>1, <2>2
<1>3. CASE \E t \in Tasks : DispatchStep(t)  BY <1>1, <1>3, DispatchFrame DEF members
<1>4. CASE \E v \in Workers : EndpointStep(v)  BY <1>1, <1>4, EndpointFrame
<1>5. CASE \E d \in Deliveries : AgentStep(d)  BY <1>1, <1>5, AgentFrame DEF members
<1>6. CASE checkStaleWorkers \/ Crash \/ \E v \in Workers : StaleStep(v) \/ WorkerStops(v)
  BY <1>1, <1>6 DEF checkStaleWorkers, Crash, StaleStep, MarkStale, Reassign, WorkerStops, members
<1>7. CASE \E t \in Runs : MonitorHung(t)  BY <1>1, <1>7 DEF MonitorHung, members
<1>8. CASE ApiStep
  BY <1>1, <1>2, <1>8 DEF ApiStep, CancelRead, CancelWrite, KillRun, members
<1>9. CASE UNCHANGED vars  BY <1>1, <1>9 DEF vars, members
<1> QED  BY <1>3, <1>4, <1>5, <1>6, <1>7, <1>8, <1>9 DEF Next

\* How the channels change.
LEMMA ChannelsNext ==
    ASSUME TypeInv, [Next]_vars, faults' = 0
    PROVE  \/ UNCHANGED channel
           \/ \E t \in Tasks : Enqueue(t)
           \/ \E w \in Workers, d \in Deliveries : WorkerPoll(w, d)
           \/ \E w \in Workers : PollRefused(w)
<1> DEFINE moves == \/ \E t \in Tasks : Enqueue(t)
                    \/ \E w \in Workers, d \in Deliveries : WorkerPoll(w, d)
                    \/ \E w \in Workers : PollRefused(w)
<1>1. ~Fault  BY DEF Fault, TypeInv, RequestsOK
<1>2. CASE \E t \in Tasks : DispatchStep(t)
  BY <1>2 DEF DispatchStep, Select, WriteAssigned, AssignFails, WriteWaiting
<1>3. CASE \E w \in Workers : EndpointStep(w)
  BY <1>1, <1>3 DEF EndpointStep, AnswerLost, PollAbandoned, ControlPoll, WorkerHeartbeat, server
<1>4. CASE \E d \in Deliveries : AgentStep(d)  BY <1>4, AgentFrame DEF server
<1>5. CASE ApiStep \/ \E t \in Runs : MonitorHung(t)  BY <1>5, ApiFrame
<1>6. CASE checkStaleWorkers \/ Crash \/ \E w \in Workers : StaleStep(w) \/ WorkerStops(w)
  BY <1>1, <1>6 DEF checkStaleWorkers, Crash, StaleStep, MarkStale, Reassign, WorkerStops, server
<1>7. CASE UNCHANGED vars  BY <1>7 DEF vars, server
<1> HIDE DEF moves
<1>8. UNCHANGED channel \/ moves
  BY <1>2, <1>3, <1>4, <1>5, <1>6, <1>7 DEF Next, moves
<1> QED  BY <1>8 DEF moves

\* A task that was given to a worker stays given to it.
LEMMA GivenStays ==
    ASSUME TypeInv, [Next]_vars, NEW t \in Tasks, NEW d \in Of(t)
    PROVE  d \in Of(t)' /\ delivery'[d].worker = delivery[d].worker
<1>1. d \in Deliveries /\ delivery[d].task = t  BY DEF Of
<1>2. delivery[d].at # "free"
  BY <1>1, WorkersAssumption DEF TypeInv, DeliveriesOK, Free
<1> QED  BY <1>1, <1>2, DeliveriesNext DEF DeliveryStep, Of

\* The task at a place of a channel is at the place before once the first one is gone.
LEMMA TailKeeps ==
    ASSUME NEW S, NEW q \in Seq(S), q # <<>>, NEW i \in DOMAIN q, i # 1
    PROVE  \E j \in DOMAIN Tail(q) : Tail(q)[j] = q[i]
<1>1. /\ i \in Nat /\ i - 1 \in Nat /\ i - 1 >= 1 /\ i <= Len(q) /\ Len(q) \in Nat
      /\ (i - 1) + 1 = i
  OBVIOUS
<1>2. Len(Tail(q)) = Len(q) - 1 /\ Tail(q) \in Seq(S)  OBVIOUS
<1>3. i - 1 \in 1 .. Len(Tail(q))  BY <1>1, <1>2
<1>4. Tail(q)[i - 1] = q[i]  BY <1>1, <1>2, <1>3
<1> QED  BY <1>2, <1>3, <1>4

\* While nothing is lost and the worker is not deleted, a task that is handled stays so.
LEMMA HandledStays ==
    ASSUME TypeInv, [Next]_vars, faults' = 0, NEW t \in Tasks, NEW w \in Workers, Handled(t, w),
           ~Deleted(w)
    PROVE  Handled(t, w)'
<1>1. CASE \E d \in Of(t) : delivery[d].worker = w
  BY <1>1, GivenStays DEF Handled
<1>2. ASSUME NEW i \in DOMAIN channel[w], channel[w][i] = t PROVE Handled(t, w)'
  <2>a. channel[w] \in Seq(Tasks)  BY DEF TypeInv, ChannelsOK
  <2>1. CASE channel'[w] = channel[w]  BY <1>2, <2>1 DEF Handled
  <2>2. ASSUME NEW u \in Tasks, channel'[w] = Append(channel[w], u) PROVE Handled(t, w)'
    <3>1. i \in DOMAIN channel'[w] /\ channel'[w][i] = t  BY <1>2, <2>a, <2>2
    <3> QED  BY <3>1 DEF Handled
  <2>3. ASSUME NEW u \in Tasks, Enqueue(u) PROVE Handled(t, w)'
    <3>1. dispatching[u].worker \in Workers  BY <2>3 DEF Enqueue, TypeInv, DispatchingOK
    <3>2. channel'[w] = channel[w] \/ channel'[w] = Append(channel[w], u)
      BY <2>3, <3>1 DEF Enqueue, TypeInv, ChannelsOK
    <3> QED  BY <2>1, <2>2, <3>2
  <2>4. ASSUME NEW v \in Workers, NEW d \in Deliveries, WorkerPoll(v, d) PROVE Handled(t, w)'
    <3>1. CASE v # w  BY <2>1, <2>4, <3>1 DEF WorkerPoll, PollTask, TypeInv, ChannelsOK
    <3>2. CASE v = w
      <4>1. channel[w] # <<>> /\ channel'[w] = Tail(channel[w])
        BY <2>4, <3>2 DEF WorkerPoll, PollTask, TypeInv, ChannelsOK
      <4>2. CASE i = 1
        <5>1. Head(channel[w]) = t  BY <1>2, <2>a, <4>1, <4>2
        <5>2. delivery'[d].task = t /\ delivery'[d].worker = w
          BY <2>4, <3>2, <5>1, WorkerPollEntry
        <5> QED  BY <5>2 DEF Handled, Of
      <4>3. CASE i # 1
        <5>1. \E j \in DOMAIN Tail(channel[w]) : Tail(channel[w])[j] = t
          BY <1>2, <2>a, <4>1, <4>3, TailKeeps
        <5> QED  BY <4>1, <5>1 DEF Handled
      <4> QED  BY <4>2, <4>3
    <3> QED  BY <3>1, <3>2
  <2>5. ASSUME NEW v \in Workers, PollRefused(v) PROVE Handled(t, w)'
    <3>1. v # w  BY <2>5 DEF PollRefused
    <3> QED  BY <2>1, <2>5, <3>1 DEF PollRefused, PollTask, TypeInv, ChannelsOK
  <2> QED  BY <2>1, <2>3, <2>4, <2>5, ChannelsNext
<1> QED  BY <1>1, <1>2 DEF Handled

\* A worker is written by the goroutine that has queued the task, or by the poll, and
\* only while it exists.
LEMMA WorkerNext ==
    ASSUME TypeInv, [Next]_vars, NEW t \in Tasks, NEW w \in Workers, worker'[t] = w
    PROVE  \/ worker[t] = w /\ ~DeleteWorker(w)
           \/ WriteAssigned(t) /\ QueuedFor(t, w) /\ ~Deleted(w)
           \/ /\ ~Deleted(w)
              /\ \E d \in Deliveries : (WorkerPoll(w, d) \/ AnswerLost(w, d)) /\ Head(channel[w]) = t
<1> USE DEF TypeInv
<1> DEFINE kept == worker[t] = w /\ ~DeleteWorker(w)
           polled == /\ ~Deleted(w)
                     /\ \E d \in Deliveries :
                          (WorkerPoll(w, d) \/ AnswerLost(w, d)) /\ Head(channel[w]) = t
<1>a. w # NoOne  BY WorkersAssumption
<1>b. \A r \in Runs : r \in Tasks  BY DEF Tasks
<1>c. ~DeleteWorker(w)  BY <1>a DEF DeleteWorker
<1>1. CASE UNCHANGED worker  BY <1>1, <1>c
<1>2. ASSUME NEW u \in Tasks, WriteAssigned(u)
      PROVE  worker[t] = w \/ (WriteAssigned(t) /\ QueuedFor(t, w) /\ ~Deleted(w))
  <2>1. dispatching[u].at = "queued" /\ ~Deleted(dispatching[u].worker)  BY <1>2 DEF WriteAssigned
  <2>2. \/ worker' = [worker EXCEPT ![u] = dispatching[u].worker]
        \/ UNCHANGED worker
    BY <1>2 DEF WriteAssigned, UpdateRunState, UpdateJobState, RowsOK
  <2> QED  BY <1>2, <2>1, <2>2 DEF QueuedFor, RowsOK
<1>3. ASSUME NEW u \in Tasks, WriteWaiting(u) PROVE worker[t] = w
  BY <1>3, <1>a DEF WriteWaiting, Write, UpdateRunState, UpdateJobState, RowsOK
<1>4. ASSUME NEW v \in Workers, NEW d \in Deliveries, WorkerPoll(v, d) \/ AnswerLost(v, d)
      PROVE  worker[t] = w \/ polled
  <2>1. Head(channel[v]) \in Tasks  BY <1>4, PollTaskType DEF WorkerPoll, AnswerLost
  <2>2. \/ worker' = [worker EXCEPT ![Head(channel[v])] = v] /\ ~Deleted(v)
        \/ UNCHANGED worker
    BY <1>4 DEF WorkerPoll, AnswerLost, Deliver, Write, UpdateRunState, UpdateJobState, RowsOK, rows
  <2>3. CASE t = Head(channel[v]) /\ v = w  BY <1>4, <2>1, <2>2, <2>3 DEF RowsOK
  <2>4. CASE ~(t = Head(channel[v]) /\ v = w)  BY <2>1, <2>2, <2>4 DEF RowsOK
  <2> QED  BY <2>3, <2>4
<1>5. ASSUME NEW d \in Deliveries, ResultWrite(d) PROVE worker[t] = w
  <2>1. delivery[d].task \in Tasks  BY <1>5 DEF ResultWrite, DeliveriesOK
  <2>2. \/ worker' = [worker EXCEPT ![delivery[d].task] = NoOne]
        \/ UNCHANGED worker
    BY <1>5, <2>1 DEF ResultWrite, JobResult, UpdateRunState, UpdateJobState, RowsOK
  <2> QED  BY <2>1, <2>2, <1>a DEF RowsOK
<1>6. ASSUME NEW v \in Workers, Reassign(v) \/ DeleteWorker(v) PROVE worker[t] = w
  BY <1>6, <1>a DEF Reassign, reassignWorkerRuns, FailedStatement, DeleteWorker, rows
<1>7. CASE CancelWrite
  <2>1. \/ worker' = [worker EXCEPT ![todo.task] = NoOne]
        \/ UNCHANGED worker
    BY <1>7 DEF CancelWrite, Write, UpdateRunState, UpdateJobState, RowsOK
  <2> QED  BY <2>1, <1>a, <1>c DEF RowsOK
<1>8. ASSUME NEW r \in Runs, KillRun(r) \/ MonitorHung(r) PROVE UNCHANGED worker
  BY <1>8, <1>b DEF KillRun, MonitorHung, UpdateRunState, RowsOK
<1>9. CASE Crash  BY <1>1, <1>9 DEF Crash
<1>10. CASE UNCHANGED rows  BY <1>1, <1>10 DEF rows
<1> HIDE DEF polled
<1>11. worker[t] = w \/ (WriteAssigned(t) /\ QueuedFor(t, w) /\ ~Deleted(w)) \/ polled
  BY <1>1, <1>2, <1>3, <1>4, <1>5, <1>6, <1>7, <1>8, <1>9, <1>10, RowsNext
<1> QED  BY <1>c, <1>11 DEF polled

\* A goroutine becomes queued when the task is in the channel.
LEMMA QueuedNext ==
    ASSUME TypeInv, [Next]_vars, NEW t \in Tasks, NEW w \in Workers, QueuedFor(t, w)'
    PROVE  QueuedFor(t, w) \/ Handled(t, w)'
<1> USE DEF TypeInv
<1>1. CASE UNCHANGED dispatching  BY <1>1 DEF QueuedFor
<1>2. ASSUME NEW u \in Tasks, DispatchStep(u) PROVE QueuedFor(t, w) \/ Handled(t, w)'
  <2>1. CASE u # t
    BY <1>2, <2>1 DEF DispatchStep, Select, Enqueue, WriteAssigned, AssignFails, WriteWaiting, QueuedFor,
                      DispatchingOK
  <2>2. CASE u = t
    <3>1. CASE Select(t)
      <4>1. dispatching'[t].at # "queued"  BY <3>1 DEF Select, Idle, DispatchingOK
      <4> QED  BY <4>1 DEF QueuedFor
    <3>2. CASE WriteAssigned(t) \/ AssignFails(t) \/ WriteWaiting(t)
      BY <3>2 DEF WriteAssigned, AssignFails, WriteWaiting, Idle, QueuedFor, DispatchingOK
    <3>3. CASE Enqueue(t)
      <4>1. CASE dispatching' = [dispatching EXCEPT ![t] = [Idle EXCEPT !.at = "none"]]
        BY <4>1 DEF QueuedFor, Idle, DispatchingOK
      <4>2. CASE /\ channel' = [channel EXCEPT ![dispatching[t].worker] = Append(@, t)]
                 /\ dispatching' = [dispatching EXCEPT ![t].at = "queued"]
        <5>1. dispatching[t].worker = w
          BY <4>2 DEF QueuedFor, DispatchingOK, Dispatching
        <5>2. channel[w] \in Seq(Tasks) /\ channel'[w] = Append(channel[w], t)
          BY <4>2, <5>1 DEF ChannelsOK
        <5>3. Len(channel[w]) + 1 \in DOMAIN channel'[w] /\ channel'[w][Len(channel[w]) + 1] = t
          BY <5>2
        <5> QED  BY <5>3 DEF Handled
      <4> QED  BY <3>3, <4>1, <4>2 DEF Enqueue
    <3> QED  BY <1>2, <2>2, <3>1, <3>2, <3>3 DEF DispatchStep
  <2> QED  BY <2>1, <2>2
<1>3. CASE Crash  BY <1>3 DEF Crash, Idle, QueuedFor
<1>4. CASE \E v \in Workers : EndpointStep(v)  BY <1>1, <1>4, EndpointFrame
<1>5. CASE \E d \in Deliveries : AgentStep(d)  BY <1>1, <1>5, AgentFrame DEF server
<1>6. CASE ApiStep \/ \E r \in Runs : MonitorHung(r)  BY <1>1, <1>6, ApiFrame
<1>7. CASE checkStaleWorkers \/ \E v \in Workers : StaleStep(v) \/ WorkerStops(v)
  BY <1>1, <1>7 DEF checkStaleWorkers, StaleStep, MarkStale, Reassign, WorkerStops, server
<1>8. CASE UNCHANGED vars  BY <1>1, <1>8 DEF vars, server
<1> QED  BY <1>2, <1>3, <1>4, <1>5, <1>6, <1>7, <1>8 DEF Next

\* So every worker that is written, or about to be, has the task or will get it.
LEMMA AssignedNext == TypeInv /\ AssignedInv /\ [Next]_vars => AssignedInv'
<1> SUFFICES ASSUME TypeInv, AssignedInv, [Next]_vars PROVE AssignedInv'  OBVIOUS
<1>1. ASSUME NEW t \in Tasks, NEW w \in Workers, worker'[t] = w PROVE ~Deleted(w)'
  <2>1. CASE worker[t] = w /\ ~DeleteWorker(w)
    BY <2>1, DeletedNext DEF AssignedInv, References
  <2>2. CASE ~Deleted(w) /\ ~DeleteWorker(w)  BY <2>2, DeletedNext
  <2>3. ~DeleteWorker(w)  BY <1>1, WorkersAssumption DEF DeleteWorker, TypeInv, RowsOK
  <2> QED  BY <1>1, <2>1, <2>2, <2>3, WorkerNext
<1>2. ASSUME faults' = 0, NEW t \in Tasks, NEW w \in Workers, worker'[t] = w \/ QueuedFor(t, w)',
             ~Deleted(w)'
      PROVE  Handled(t, w)'
  <2>1. ~Deleted(w)
    BY <1>2, DeletedNext DEF DeleteWorker, Deleted, TypeInv, MembersOK
  <2>2. CASE worker[t] = w \/ QueuedFor(t, w)
    <3>1. Handled(t, w)  BY <1>2, <2>1, <2>2, FaultsGrow DEF AssignedInv
    <3> QED  BY <1>2, <2>1, <3>1, HandledStays
  <2>3. ASSUME NEW d \in Deliveries, WorkerPoll(w, d) \/ AnswerLost(w, d), Head(channel[w]) = t
        PROVE  Handled(t, w)'
    <3>1. WorkerPoll(w, d)  BY <1>2, <2>3, AnswerLostFault
    <3>2. delivery'[d].task = t /\ delivery'[d].worker = w  BY <2>3, <3>1, WorkerPollEntry
    <3> QED  BY <3>2 DEF Handled, Of
  <2> QED  BY <1>2, <2>2, <2>3, WorkerNext, QueuedNext
<1> QED  BY <1>1, <1>2 DEF AssignedInv, References

-----------------------------------------------------------------------------
(* The theorems                                                            *)

\* The columns, channels and locals stay within their types, no channel overflows its
\* capacity, and every delivery in use has a task.
THEOREM TypeCorrect == Spec => []TypeOK
  BY TypesAlways, TypeParts, PTL

\* An outcome in a row is the outcome of an execution, for any number of deliveries of
\* the task and of requests in between.
THEOREM OutcomesAreBacked == Spec => []WorkerOutcomeIsBacked
<1>1. Init => OutcomesInv
  BY DEF Init, OutcomesInv, ResultOK, Backed, Free
<1>2. OutcomesInv => WorkerOutcomeIsBacked  BY DEF OutcomesInv, Backed, WorkerOutcomeIsBacked
<1> QED  BY <1>1, <1>2, OutcomesNext, TypesAlways, PTL DEF Spec

\* Without faults a running row has an execution that will report or was refused.
THEOREM RunningHasDelivery == Spec => []RunningIsDelivered
<1>1. Init => RunningIsDelivered  BY DEF Init, RunningIsDelivered
<1> QED  BY <1>1, RunningNext, TypesAlways, PTL DEF Spec

\* Without faults no assigned row is forgotten by its worker, however polls, heartbeats,
\* reassignments and the two writes of a dispatch interleave.
THEOREM AssignedHasHandler == Spec => []AssignedIsHandled
<1>1. Init => AssignedInv
  BY WorkersAssumption DEF Init, AssignedInv, References, QueuedFor, Idle
<1>2. AssignedInv => AssignedIsHandled  BY DEF AssignedInv, References, Handled, AssignedIsHandled
<1> QED  BY <1>1, <1>2, AssignedNext, TypesAlways, PTL DEF Spec

=============================================================================
