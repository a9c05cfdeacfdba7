-------------------------- MODULE RemoteJobs_proofs --------------------------
(***************************************************************************)
(* Proofs about RemoteJobs, for every method and any number of attempts.   *)
(***************************************************************************)
EXTENDS RemoteJobs, TLAPS

-----------------------------------------------------------------------------
(* The inductive invariant                                                 *)

\* The row follows the loop: a row that waits for a start has an attempt left, and
\* everything after a start is about an attempt that was made.
RowFollows ==
    /\ pc = "start" => row \in {"pending", "retrying"} /\ attempt < MaxAttempts
    /\ pc # "start" => attempt \in Attempts
    /\ pc \in {"wait", "return", "loop", "listed", "finish"} => row \in {"running", "kill_requested"}
    /\ pc = "over" => row \in {"completed", "failed", "killed"}

\* A service that is polled has been given the job.
PolledWasLaunched ==
    mode = "http_tracked" /\ pc \in {"loop", "listed"} => job[attempt] # "none"

\* What SuccessIsReal asks of a completed run.
Backed ==
    \E a \in Attempts :
      \/ job[a] = "succeeded"
      \/ answer[a] = "untracked"
      \/ mode = "http_blind" /\ answer[a] = "accepted"

\* A verdict that will complete the run is backed already.
VerdictBacked ==
    (pc \in {"return", "finish"} /\ verdict = "completed") \/ row = "completed" => Backed

\* In a cluster a job runs as long as its object is there.
RunningHasObject ==
    mode = "k8s" => \A a \in Attempts : job[a] = "running" => a \in exists

\* A start that returns a result has not been accepted, and a poll that says killed has
\* found no object, whichever attempt created it.
VerdictGone ==
    mode = "k8s" =>
      /\ pc # "wait"
      /\ pc = "return" => answer[attempt] # "accepted"
      /\ pc = "finish" /\ verdict = "killed" => \A a \in Attempts : job[a] # "running"
      /\ row = "killed" /\ answer[attempt] = "accepted" => \A a \in Attempts : job[a] # "running"

IInv == TypeOK /\ RowFollows /\ PolledWasLaunched /\ VerdictBacked /\ RunningHasObject /\ VerdictGone

-----------------------------------------------------------------------------
(* The starts                                                              *)

\* A new attempt is within max_attempts.
LEMMA NextAttempt ==
    ASSUME TypeOK, RowFollows, pc = "start"
    PROVE  attempt + 1 \in Attempts
  BY RemoteJobsAssumption DEF TypeOK, RowFollows, Attempts

\* A new run has no job and no answer.
LEMMA InitInv == Init => IInv
  BY RemoteJobsAssumption
  DEF Init, IInv, TypeOK, RowFollows, PolledWasLaunched, VerdictBacked, RunningHasObject,
      VerdictGone, Modes, Attempts, Answers

StartStep ==
    \/ doSync
    \/ \E told \in Answers \ {"none"} :
         sshExecute(told) \/ ssmExecute(told) \/ dispatchAsync(told) \/ dispatchTracked(told)

\* A start outside the cluster.
LEMMA StartInv == IInv /\ StartStep => IInv'
<1> SUFFICES ASSUME IInv, StartStep PROVE IInv'  OBVIOUS
<1> USE DEF IInv
<1>1. PICK told \in Answers :
         \/ doSync /\ told = "accepted"
         \/ sshExecute(told) \/ ssmExecute(told) \/ dispatchAsync(told) \/ dispatchTracked(told)
  BY DEF StartStep, Answers
<1>2. /\ mode \notin {"k8s", "k8s_wait"} /\ UNCHANGED <<mode, exists, deleting, seen>>
      /\ NewAttempt(told) /\ (Launched \/ UNCHANGED job)
      /\ \/ pc' \in {"wait", "loop"} /\ UNCHANGED verdict
         \/ pc' = "return" /\ verdict' \in {"completed", "failed"}
      /\ pc' = "loop" => mode = "http_tracked" /\ Launched
      /\ pc' = "return" /\ verdict' = "completed" =>
           told = "untracked" \/ (told = "accepted" /\ mode = "http_blind")
  <2>1. CASE doSync /\ told = "accepted"  BY <2>1 DEF doSync, report
  <2>2. CASE sshExecute(told)  BY <2>2 DEF sshExecute, Ends
  <2>3. CASE ssmExecute(told)  BY <2>3 DEF ssmExecute, Ends, Served
  <2>4. CASE dispatchAsync(told)  BY <2>4 DEF dispatchAsync, Ends, Served, DispatchResult
  <2>5. CASE dispatchTracked(told)  BY <2>5 DEF dispatchTracked, Ends, Served, DispatchResult
  <2> QED  BY <1>1, <2>1, <2>2, <2>3, <2>4, <2>5
<1>3. /\ attempt + 1 \in Attempts /\ row' = "running" /\ attempt' = attempt + 1
      /\ answer' = [answer EXCEPT ![attempt + 1] = told]
  BY <1>2, NextAttempt DEF NewAttempt
<1>4. job' \in [Attempts -> {"none", "running", "succeeded", "failed", "stopped"}]
      /\ (pc' = "loop" => job'[attempt'] = "running")
  BY <1>2, <1>3 DEF TypeOK, Launched
<1>5. TypeOK'  BY <1>2, <1>3, <1>4 DEF TypeOK, Attempts
<1>6. RowFollows'  BY <1>2, <1>3 DEF RowFollows
<1>7. PolledWasLaunched'  BY <1>2, <1>4 DEF PolledWasLaunched
<1>8. VerdictBacked'
  <2>1. answer'[attempt'] = told  BY <1>3 DEF TypeOK
  <2> QED  BY <1>2, <1>3, <2>1 DEF VerdictBacked, Backed
<1>9. RunningHasObject' /\ VerdictGone'  BY <1>2 DEF RunningHasObject, VerdictGone
<1> QED  BY <1>5, <1>6, <1>7, <1>8, <1>9

\* A start in the cluster: a job that is launched has its object.
LEMMA CreateInv ==
    ASSUME IInv, NEW told \in Answers, createJob(told)
    PROVE  IInv'
<1> USE DEF IInv
<1>1. /\ mode \in {"k8s", "k8s_wait"} /\ UNCHANGED <<mode, deleting, seen>>
      /\ NewAttempt(told)
      /\ \/ Launched /\ exists' = exists \cup {attempt + 1}
         \/ UNCHANGED <<job, exists>>
      /\ \/ told = "accepted" /\ pc' \in {"wait", "loop"} /\ UNCHANGED verdict
            /\ (mode = "k8s" => pc' = "loop")
         \/ told # "accepted" /\ pc' = "return" /\ verdict' = "failed"
  BY DEF createJob, Ends
<1>2. /\ attempt + 1 \in Attempts /\ row' = "running" /\ attempt' = attempt + 1
      /\ answer' = [answer EXCEPT ![attempt + 1] = told]
  BY <1>1, NextAttempt DEF NewAttempt
<1>3. answer'[attempt'] = told  BY <1>2 DEF TypeOK
<1>4. /\ job' \in [Attempts -> {"none", "running", "succeeded", "failed", "stopped"}]
      /\ exists' \subseteq Attempts /\ deleting' \subseteq exists'
  BY <1>1, <1>2 DEF TypeOK, Launched
<1>5. TypeOK'  BY <1>1, <1>2, <1>4 DEF TypeOK, Attempts
<1>6. RowFollows'  BY <1>1, <1>2 DEF RowFollows
<1>7. PolledWasLaunched' /\ VerdictBacked'
  BY <1>1, <1>2 DEF PolledWasLaunched, VerdictBacked
<1>8. RunningHasObject'  BY <1>1, <1>2 DEF RunningHasObject, TypeOK, Launched
<1>9. VerdictGone'  BY <1>1, <1>2, <1>3 DEF VerdictGone
<1> QED  BY <1>5, <1>6, <1>7, <1>8, <1>9

-----------------------------------------------------------------------------
(* What becomes of an attempt                                              *)

FollowStep ==
    \/ Answered \/ ConnectionLost \/ pollCommandResult \/ waitForBlockingResult
    \/ List \/ HttpPoll \/ K8sPoll

\* An answer, or its absence, makes a verdict.
LEMMA FollowInv == IInv /\ FollowStep => IInv'
<1> SUFFICES ASSUME IInv, FollowStep PROVE IInv'  OBVIOUS
<1> USE DEF IInv
<1>1. CASE Answered \/ pollCommandResult
  <2>1. /\ mode \in {"http_sync", "ssh", "ssm"} /\ pc = "wait"
        /\ UNCHANGED <<mode, job, exists, deleting, answer, row, attempt, seen>>
        /\ pc' = "return" /\ verdict' \in {"completed", "failed"}
        /\ verdict' = "completed" => job[attempt] = "succeeded"
    BY <1>1 DEF Answered, pollCommandResult, Ends, remote, record
  <2>2. attempt \in Attempts /\ row \in {"running", "kill_requested"}  BY <2>1 DEF RowFollows
  <2> QED  BY <2>1, <2>2 DEF TypeOK, RowFollows, PolledWasLaunched, VerdictBacked, Backed,
                             RunningHasObject, VerdictGone
<1>2. CASE ConnectionLost
  <2>1. /\ mode \in {"http_sync", "ssh"} /\ pc = "wait"
        /\ UNCHANGED <<mode, job, exists, deleting, row, attempt, seen>>
        /\ pc' = "return" /\ verdict' = "failed"
        /\ answer' = [answer EXCEPT ![attempt] = "lost"]
    BY <1>2 DEF ConnectionLost, Ends, remote, record
  <2>2. attempt \in Attempts /\ row \in {"running", "kill_requested"}  BY <2>1 DEF RowFollows
  <2> QED  BY <2>1, <2>2 DEF TypeOK, RowFollows, PolledWasLaunched, VerdictBacked,
                             RunningHasObject, VerdictGone, Answers
<1>3. CASE waitForBlockingResult
  <2>1. /\ mode = "k8s_wait" /\ pc = "wait"
        /\ UNCHANGED <<mode, job, exists, deleting, answer, row, attempt, seen>>
        /\ pc' = "return" /\ verdict' \in {"completed", "failed"}
        /\ verdict' = "completed" => "succeeded" \in JobStatus(JobName(attempt))
    BY <1>3 DEF waitForBlockingResult, Ends, remote, record
  <2>2. attempt \in Attempts /\ row \in {"running", "kill_requested"}  BY <2>1 DEF RowFollows
  <2>3. verdict' = "completed" => Backed'
    BY <2>1 DEF JobStatus, Named, Backed, TypeOK
  <2> QED  BY <2>1, <2>2, <2>3 DEF TypeOK, RowFollows, PolledWasLaunched, VerdictBacked,
                             RunningHasObject, VerdictGone
<1>4. CASE List
  <2>1. /\ pc = "loop" /\ pc' = "listed" /\ seen' = row
        /\ UNCHANGED <<mode, job, exists, deleting, answer, row, attempt, verdict>>
    BY <1>4 DEF List, remote, record
  <2> QED  BY <2>1 DEF TypeOK, RowFollows, PolledWasLaunched, VerdictBacked, Backed,
                       RunningHasObject, VerdictGone
<1>5. CASE HttpPoll
  <2>1. PICK v \in HttpVerdicts : Verdict(v)  BY <1>5 DEF HttpPoll
  <2>2. /\ mode = "http_tracked" /\ pc = "listed"
        /\ UNCHANGED <<mode, job, exists, deleting, answer, row, attempt, seen>>
        /\ verdict' = v /\ pc' = IF v = "running" THEN "loop" ELSE "finish"
    BY <1>5, <2>1 DEF HttpPoll, Verdict, remote, record
  <2>3. attempt \in Attempts /\ row \in {"running", "kill_requested"}  BY <2>2 DEF RowFollows
  <2>4. job[attempt] \in {"running", "succeeded", "failed", "stopped"}
    BY <2>2, <2>3 DEF TypeOK, PolledWasLaunched
  <2>5. /\ v \in {"running", "completed", "failed"}
        /\ v = "completed" => job[attempt] = "succeeded"
    BY <2>1, <2>4 DEF HttpVerdicts
  <2> QED  BY <2>2, <2>3, <2>4, <2>5 DEF TypeOK, RowFollows, PolledWasLaunched, VerdictBacked,
                       Backed, RunningHasObject, VerdictGone
<1>6. CASE K8sPoll
  <2>1. /\ mode = "k8s" /\ pc = "listed"
        /\ UNCHANGED <<mode, job, exists, deleting, answer, row, attempt, seen>>
        /\ verdict' \in {"running", "completed", "failed", "killed"}
        /\ pc' = IF verdict' = "running" THEN "loop" ELSE "finish"
        /\ verdict' = "killed" => JobStatus(JobName(attempt)) = {}
        /\ verdict' = "completed" => "succeeded" \in JobStatus(JobName(attempt))
    BY <1>6 DEF K8sPoll, Verdict, remote, record
  <2>2. attempt \in Attempts /\ row \in {"running", "kill_requested"}  BY <2>1 DEF RowFollows
  <2>3. verdict' = "completed" => Backed'
    BY <2>1 DEF JobStatus, Named, Backed, TypeOK
  <2>4. verdict' = "killed" => \A a \in Attempts : job[a] # "running"
    BY <2>1 DEF JobStatus, Named, JobName, RunningHasObject
  <2> QED  BY <2>1, <2>2, <2>3, <2>4 DEF TypeOK, RowFollows, PolledWasLaunched, VerdictBacked,
                       RunningHasObject, VerdictGone
<1> QED  BY <1>1, <1>2, <1>3, <1>4, <1>5, <1>6 DEF FollowStep

\* The orchestrator writes what the verdict says.
LEMMA WriteInv == IInv /\ (Return \/ Finish) => IInv'
<1> SUFFICES ASSUME IInv, Return \/ Finish PROVE IInv'  OBVIOUS
<1> USE DEF IInv
<1>1. PICK killed \in BOOLEAN :
        /\ Outcome(killed)
        /\ pc = "finish" => killed = (verdict = "killed" /\ seen = "kill_requested")
  BY DEF Return, Finish
<1>2. /\ pc \in {"return", "finish"}
      /\ UNCHANGED <<mode, job, exists, deleting, answer, attempt, seen, verdict>>
  BY DEF Return, Finish, remote, report
<1>3. attempt \in Attempts  BY <1>2 DEF RowFollows
<1>4. \/ row' \in {"completed", "failed", "killed"} /\ pc' = "over"
      \/ row' = "retrying" /\ pc' = "start" /\ attempt < MaxAttempts
  BY <1>1 DEF Outcome, Failed
<1>5. /\ row' = "completed" => verdict = "completed"
      /\ row' = "killed" /\ pc = "finish" => verdict = "killed"
  BY <1>1 DEF Outcome, Failed
<1>6. Backed' = Backed  BY <1>2 DEF Backed
<1>7. TypeOK' /\ RowFollows'  BY <1>2, <1>3, <1>4 DEF TypeOK, RowFollows, Attempts
<1>8. PolledWasLaunched' /\ VerdictBacked' /\ RunningHasObject'
  BY <1>2, <1>4, <1>5, <1>6 DEF PolledWasLaunched, VerdictBacked, RunningHasObject
<1>9. VerdictGone'  BY <1>2, <1>4, <1>5 DEF VerdictGone
<1> QED  BY <1>7, <1>8, <1>9

EnvironmentStep ==
    \/ KillRequested \/ HttpKill \/ deleteJob
    \/ \E a \in Attempts : JobEnds(a) \/ ObjectGone(a)

\* Kills, and what happens on the remote side meanwhile.
LEMMA EnvironmentInv == IInv /\ EnvironmentStep => IInv'
<1> SUFFICES ASSUME IInv, EnvironmentStep PROVE IInv'  OBVIOUS
<1> USE DEF IInv
<1>1. CASE KillRequested
  <2>1. /\ row = "running" /\ row' = "kill_requested"
        /\ UNCHANGED <<mode, job, exists, deleting, answer, attempt, pc, seen, verdict>>
    BY <1>1 DEF KillRequested, remote, report
  <2>2. pc \in {"wait", "return", "loop", "listed", "finish"}  BY <2>1 DEF RowFollows, TypeOK
  <2>3. Backed' = Backed  BY <2>1 DEF Backed
  <2> QED  BY <2>1, <2>2, <2>3 DEF TypeOK, RowFollows, PolledWasLaunched, VerdictBacked,
                             RunningHasObject, VerdictGone
<1>2. CASE HttpKill
  <2>1. /\ mode = "http_tracked" /\ pc = "loop"
        /\ job' = [job EXCEPT ![attempt] = "stopped"]
        /\ UNCHANGED <<mode, exists, deleting, answer, row, attempt, pc, seen, verdict>>
    BY <1>2 DEF HttpKill, record, report
  <2>2. attempt \in Attempts /\ row \in {"running", "kill_requested"}  BY <2>1 DEF RowFollows
  <2> QED  BY <2>1, <2>2 DEF TypeOK, RowFollows, PolledWasLaunched, VerdictBacked,
                             RunningHasObject, VerdictGone
<1>3. CASE deleteJob
  <2>1. /\ deleting' = deleting \cup Named(JobName(attempt))
        /\ UNCHANGED <<mode, job, exists, answer, row, attempt, pc, seen, verdict>>
    BY <1>3 DEF deleteJob, record, report
  <2>2. Named(JobName(attempt)) \subseteq exists  BY DEF Named
  <2>3. Backed' = Backed  BY <2>1 DEF Backed
  <2> QED  BY <2>1, <2>2, <2>3 DEF TypeOK, RowFollows, PolledWasLaunched, VerdictBacked,
                             RunningHasObject, VerdictGone
<1>4. ASSUME NEW a \in Attempts, JobEnds(a) \/ ObjectGone(a)
      PROVE  IInv'
  <2>1. PICK s \in {"none", "succeeded", "failed", "stopped"} :
          /\ job' = [job EXCEPT ![a] = s]
          /\ job[a] # "running" => s = job[a]
          /\ job[a] = "running" => s # "none"
    <3>1. CASE JobEnds(a)  BY <3>1 DEF JobEnds
    <3>2. CASE ObjectGone(a)
      <4> DEFINE s == IF job[a] = "running" THEN "stopped" ELSE job[a]
      <4>1. s \in {"none", "succeeded", "failed", "stopped"}  BY DEF TypeOK
      <4>2. job' = [job EXCEPT ![a] = s]  BY <3>2 DEF ObjectGone
      <4> QED  BY <4>1, <4>2
    <3> QED  BY <1>4, <3>1, <3>2
  <2>2. /\ exists' \subseteq exists /\ deleting' \subseteq exists'
        /\ \A b \in exists : b \in exists' \/ b = a
        /\ UNCHANGED <<mode, answer, row, attempt, pc, seen, verdict>>
    BY <1>4 DEF JobEnds, ObjectGone, record, report, TypeOK
  <2>3. /\ job' \in [Attempts -> {"none", "running", "succeeded", "failed", "stopped"}]
        /\ job'[a] # "running"
        /\ \A b \in Attempts :
             /\ b # a => job'[b] = job[b]
             /\ job[b] = "succeeded" => job'[b] = "succeeded"
             /\ job[b] # "none" => job'[b] # "none"
             /\ job'[b] = "running" => job[b] = "running"
    BY <2>1 DEF TypeOK
  <2>4. ASSUME Backed PROVE Backed'
    <3>1. PICK b \in Attempts :
            \/ job[b] = "succeeded"
            \/ answer[b] = "untracked"
            \/ mode = "http_blind" /\ answer[b] = "accepted"
      BY <2>4 DEF Backed
    <3>2. answer'[b] = answer[b] /\ mode' = mode  BY <2>2
    <3>3. job[b] = "succeeded" => job'[b] = "succeeded"  BY <2>3
    <3> QED  BY <3>1, <3>2, <3>3 DEF Backed
  <2>5. TypeOK' /\ RowFollows'  BY <2>2, <2>3 DEF TypeOK, RowFollows
  <2>6. PolledWasLaunched'  BY <2>2, <2>3 DEF PolledWasLaunched, RowFollows
  <2>7. VerdictBacked'  BY <2>2, <2>4 DEF VerdictBacked
  <2>8. RunningHasObject'  BY <2>2, <2>3 DEF RunningHasObject
  <2>9. VerdictGone'  BY <2>2, <2>3 DEF VerdictGone
  <2> QED  BY <2>5, <2>6, <2>7, <2>8, <2>9
<1> QED  BY <1>1, <1>2, <1>3, <1>4 DEF EnvironmentStep

\* A stuttering step changes none of it.
LEMMA StutterInv == IInv /\ UNCHANGED vars => IInv'
  BY DEF IInv, TypeOK, RowFollows, PolledWasLaunched, VerdictBacked, Backed, RunningHasObject,
         VerdictGone, vars, remote, record, report

\* Every step keeps the invariant.
LEMMA NextInv == IInv /\ [Next]_vars => IInv'
<1> SUFFICES ASSUME IInv, [Next]_vars PROVE IInv'  OBVIOUS
<1>1. CASE StartStep  BY <1>1, StartInv
<1>2. CASE \E told \in Answers : createJob(told)  BY <1>2, CreateInv
<1>3. CASE FollowStep  BY <1>3, FollowInv
<1>4. CASE Return \/ Finish  BY <1>4, WriteInv
<1>5. CASE EnvironmentStep  BY <1>5, EnvironmentInv
<1>6. CASE UNCHANGED vars  BY <1>6, StutterInv
<1> QED  BY <1>1, <1>2, <1>3, <1>4, <1>5, <1>6 DEF Next, StartStep, FollowStep, EnvironmentStep

\* The invariant holds in every reachable state.
LEMMA Inductive == Spec => []IInv
  BY InitInv, NextInv, PTL DEF Spec

-----------------------------------------------------------------------------
(* The theorems                                                            *)

\* Attempts are numbered up to max_attempts, verdicts are results the orchestrator
\* knows, and only objects that exist are being deleted.
THEOREM TypeCorrect == Spec => []TypeOK
  BY Inductive, PTL DEF IInv

\* A run is completed only when a job of one of its attempts has succeeded, or was
\* accepted where acceptance is all the configuration asks for, whichever answers of the
\* remote side are lost.
THEOREM SuccessOnlyWhenReal == Spec => []SuccessIsReal
<1>1. IInv => SuccessIsReal  BY DEF IInv, VerdictBacked, Backed, SuccessIsReal
<1> QED  BY <1>1, Inductive, PTL

\* A k8s run whose kill a poll has confirmed has left no job running, for any number of
\* attempts and of creations whose answer was lost.
THEOREM KilledLeavesNothing == Spec => []KilledIsGone
<1>1. IInv => KilledIsGone  BY DEF IInv, VerdictGone, KilledIsGone
<1> QED  BY <1>1, Inductive, PTL

=============================================================================
