----------------------------- MODULE RemoteJobs -----------------------------
(***************************************************************************)
(* The http and k8s methods, and ssh and ssm in the foreground: the jobs   *)
(* that the attempts of one run leave on a service, on a host or in a      *)
(* cluster, and what the orchestrator makes of the answers it gets, or     *)
(* does not get, about them.  (DetachedRemote has ssh and ssm detached.)   *)
(*                                                                         *)
(* An attempt's request for a job, the poll and the cancellation are one   *)
(* request each; any of them can be lost on the way there or back.  The    *)
(* configuration of a tracked http process is assumed to list every status *)
(* its service gives.  The races on the row are RunLifecycle's.            *)
(***************************************************************************)
EXTENDS Naturals

CONSTANT MaxAttempts   \* processes.max_attempts

ASSUME RemoteJobsAssumption == MaxAttempts \in Nat \ {0}

Attempts == 1 .. MaxAttempts

\* dispatch_mode of http; k8s detached or, with wait, blocking; ssh and ssm blocking.
Modes == {"http_sync", "http_blind", "http_tracked", "k8s", "k8s_wait", "ssh", "ssm"}

VARIABLES
    mode,      \* the method and its configuration
    job,       \* job[a]: the job that attempt a has started
    exists,    \* the attempts whose job objects are in the cluster
    deleting,  \* those of them that are being deleted
    answer,    \* answer[a]: what the start of attempt a was told (history)
    row,       \* runs.state
    attempt,   \* runs.attempt
    pc,        \* where the dispatch or the loop is
    seen,      \* the state of the row when it was listed
    verdict    \* what Start or Poll says

remote == <<job, exists, deleting>>
record == <<row, attempt>>
report == <<seen, verdict>>
vars   == <<mode, remote, answer, record, pc, report>>

Answers == {"none", "accepted", "untracked", "refused", "lost"}

\* Attempts are numbered up to max_attempts, and objects are deleted that exist.
TypeOK ==
    /\ mode \in Modes
    /\ job \in [Attempts -> {"none", "running", "succeeded", "failed", "stopped"}]
    /\ exists \subseteq Attempts /\ deleting \subseteq exists
    /\ answer \in [Attempts -> Answers]
    /\ row \in {"pending", "running", "kill_requested", "retrying", "completed", "failed",
                "killed"}
    /\ attempt \in 0 .. MaxAttempts
    /\ pc \in {"start", "wait", "return", "loop", "listed", "finish", "over"}
    /\ seen \in {"running", "kill_requested"}
    /\ verdict \in {"running", "completed", "failed", "killed"}

Init ==
    /\ mode \in Modes
    /\ job = [a \in Attempts |-> "none"]
    /\ exists = {} /\ deleting = {}
    /\ answer = [a \in Attempts |-> "none"]
    /\ row = "pending" /\ attempt = 0
    /\ pc = "start"
    /\ seen = "running" /\ verdict = "running"

-----------------------------------------------------------------------------
(* Starting an attempt                                                     *)

NewAttempt(told) ==
    /\ pc = "start"
    /\ row' = "running"
    /\ attempt' = attempt + 1
    /\ answer' = [answer EXCEPT ![attempt + 1] = told]

Launched == job' = [job EXCEPT ![attempt + 1] = "running"]

\* Start returns a result.
Ends(v) == pc' = "return" /\ verdict' = v

\* A service that refuses starts nothing; whether one that does not answer has
\* started the job is not known.
Served(told) ==
    \/ told # "refused" /\ Launched
    \/ told \in {"refused", "lost"} /\ UNCHANGED job

\* Sync: the request lasts as long as the job.
doSync ==
    /\ mode = "http_sync"
    /\ NewAttempt("accepted") /\ Launched
    /\ pc' = "wait"
    /\ UNCHANGED <<mode, exists, deleting, report>>

\* So does a session, once there is a connection.
sshExecute(told) ==
    /\ mode = "ssh"
    /\ NewAttempt(told)
    /\ \/ told = "accepted" /\ Launched /\ pc' = "wait" /\ UNCHANGED verdict
       \/ told = "refused" /\ Ends("failed") /\ UNCHANGED job
    /\ UNCHANGED <<mode, exists, deleting, seen>>

\* A command is sent, and its invocation asked for until it has ended.
ssmExecute(told) ==
    /\ mode = "ssm"
    /\ NewAttempt(told) /\ told # "untracked" /\ Served(told)
    /\ \/ told = "accepted" /\ pc' = "wait" /\ UNCHANGED verdict
       \/ told # "accepted" /\ Ends("failed")
    /\ UNCHANGED <<mode, exists, deleting, seen>>

\* The response or the exit status arrives.
Answered ==
    /\ mode \in {"http_sync", "ssh"} /\ pc = "wait"
    /\ \/ job[attempt] = "succeeded" /\ Ends("completed")
       \/ job[attempt] = "failed" /\ Ends("failed")
    /\ UNCHANGED <<mode, remote, answer, record, seen>>

\* The connection breaks: a result with an error, while the job goes on.
ConnectionLost ==
    /\ mode \in {"http_sync", "ssh"} /\ pc = "wait"
    /\ answer' = [answer EXCEPT ![attempt] = "lost"]
    /\ Ends("failed")
    /\ UNCHANGED <<mode, remote, record, seen>>

\* A request that fails is the end, unless the invocation is not there yet.
pollCommandResult ==
    /\ mode = "ssm" /\ pc = "wait"
    /\ \/ job[attempt] = "succeeded" /\ Ends("completed")
       \/ Ends("failed")
    /\ UNCHANGED <<mode, remote, answer, record, seen>>

\* Result.IsSuccess looks at the response code before the error: an answer 2xx is a
\* success, also when it is none of the accepted codes or has no status URL, which
\* "untracked" stands for.
DispatchResult(told) == IF told \in {"accepted", "untracked"} THEN "completed" ELSE "failed"

dispatchAsync(told) ==
    /\ mode = "http_blind"
    /\ NewAttempt(told) /\ Served(told)
    /\ Ends(DispatchResult(told))
    /\ UNCHANGED <<mode, exists, deleting, seen>>

\* An accepted job has a status URL, and the handle is stored.
dispatchTracked(told) ==
    /\ mode = "http_tracked"
    /\ NewAttempt(told) /\ Served(told)
    /\ \/ told = "accepted" /\ pc' = "loop" /\ UNCHANGED verdict
       \/ told # "accepted" /\ Ends(DispatchResult(told))
    /\ UNCHANGED <<mode, exists, deleting, seen>>

\* Mutant: a name of its own for every attempt.
JobNamePerAttempt(a) == a

\* The job is named after the run.
JobName(a) == 0

Named(n) == {a \in exists : JobName(a) = n}

\* The cluster takes a name once.  A creation whose answer is lost may have happened.
createJob(told) ==
    /\ mode \in {"k8s", "k8s_wait"}
    /\ NewAttempt(told)
    /\ \/ /\ told \in {"accepted", "lost"} /\ Named(JobName(attempt + 1)) = {}
          /\ Launched
          /\ exists' = exists \cup {attempt + 1}
       \/ /\ told \in {"refused", "lost"}
          /\ UNCHANGED <<job, exists>>
    /\ \/ told = "accepted" /\ pc' = (IF mode = "k8s" THEN "loop" ELSE "wait") /\ UNCHANGED verdict
       \/ told # "accepted" /\ Ends("failed")
    /\ UNCHANGED <<mode, deleting, seen>>

\* The state of the attempt's job as its object shows it.
JobStatus(n) == {job[a] : a \in Named(n)}

\* One request of the waiting loop: that it fails, or finds no object, is the end.
waitForBlockingResult ==
    /\ mode = "k8s_wait" /\ pc = "wait"
    /\ \/ JobStatus(JobName(attempt)) = {"succeeded"} /\ Ends("completed")
       \/ JobStatus(JobName(attempt)) = {"failed"} /\ Ends("failed")
       \/ Ends("failed")
    /\ UNCHANGED <<mode, remote, answer, record, seen>>

-----------------------------------------------------------------------------
(* What the orchestrator writes                                            *)

\* Mutant: one attempt too many.
FailedInclusive(n) ==
    IF n <= MaxAttempts THEN row' = "retrying" /\ pc' = "start"
                        ELSE row' = "failed" /\ pc' = "over"

\* A failed attempt of number n: another one, if any is left.
Failed(n) ==
    IF n < MaxAttempts THEN row' = "retrying" /\ pc' = "start"
                       ELSE row' = "failed" /\ pc' = "over"

Outcome(killed) ==
    \/ verdict = "completed" /\ row' = "completed" /\ pc' = "over"
    \/ verdict # "completed" /\ killed /\ row' = "killed" /\ pc' = "over"
    \/ verdict # "completed" /\ ~killed /\ Failed(attempt)

\* Start has returned a result: the row is read again.
Return ==
    /\ pc = "return"
    /\ Outcome(row = "kill_requested")
    /\ UNCHANGED <<mode, remote, answer, attempt, report>>

\* A poll has: the state that counts is the one that was listed.
Finish ==
    /\ pc = "finish"
    /\ Outcome(verdict = "killed" /\ seen = "kill_requested")
    /\ UNCHANGED <<mode, remote, answer, attempt, report>>

-----------------------------------------------------------------------------
(* Kills and polls                                                         *)

KillRequested ==
    /\ row = "running"
    /\ row' = "kill_requested"
    /\ UNCHANGED <<mode, remote, answer, attempt, pc, report>>

\* Only a run with a stored handle is sent a kill; one that gets lost, or that the
\* service refuses, changes nothing.
HttpKill ==
    /\ mode = "http_tracked" /\ pc = "loop" /\ row = "kill_requested"
    /\ job[attempt] = "running"
    /\ job' = [job EXCEPT ![attempt] = "stopped"]
    /\ UNCHANGED <<mode, exists, deleting, answer, record, pc, report>>

\* Foreground deletion: the object stays until its pods are gone.
deleteJob ==
    /\ mode = "k8s" /\ pc = "loop" /\ row = "kill_requested"
    /\ Named(JobName(attempt)) # {}
    /\ deleting' = deleting \cup Named(JobName(attempt))
    /\ UNCHANGED <<mode, job, exists, answer, record, pc, report>>

List ==
    /\ pc = "loop"
    /\ seen' = row
    /\ pc' = "listed"
    /\ UNCHANGED <<mode, remote, answer, record, verdict>>

Verdict(v) == verdict' = v /\ pc' = IF v = "running" THEN "loop" ELSE "finish"

\* Mutant: the code 0 of a request that failed is taken for a success.
HttpVerdictsLenient ==
    {"completed", CASE job[attempt] = "succeeded" -> "completed"
                    [] job[attempt] = "stopped" -> "failed"
                    [] OTHER -> job[attempt]}

\* What the service says, or "failed" when it cannot be reached or has an error.
HttpVerdicts ==
    {"failed", CASE job[attempt] = "succeeded" -> "completed"
                 [] job[attempt] = "stopped" -> "failed"
                 [] OTHER -> job[attempt]}

\* No answer of an http service means that the job was killed.
HttpPoll ==
    /\ mode = "http_tracked" /\ pc = "listed"
    /\ \E v \in HttpVerdicts : Verdict(v)
    /\ UNCHANGED <<mode, remote, answer, record, seen>>

\* An object that is not there means that the job was killed; a poll that fails says
\* nothing.
K8sPoll ==
    /\ mode = "k8s" /\ pc = "listed"
    /\ \/ JobStatus(JobName(attempt)) = {} /\ Verdict("killed")
       \/ "succeeded" \in JobStatus(JobName(attempt)) /\ Verdict("completed")
       \/ "failed" \in JobStatus(JobName(attempt)) /\ Verdict("failed")
       \/ Verdict("running")
    /\ UNCHANGED <<mode, remote, answer, record, seen>>

-----------------------------------------------------------------------------
(* The remote side                                                         *)

JobEnds(a) ==
    /\ job[a] = "running"
    /\ \E s \in {"succeeded", "failed"} : job' = [job EXCEPT ![a] = s]
    /\ UNCHANGED <<mode, exists, deleting, answer, record, pc, report>>

\* Deleted, or, once finished, after its time to live.
ObjectGone(a) ==
    /\ a \in exists
    /\ a \in deleting \/ job[a] # "running"
    /\ exists' = exists \ {a} /\ deleting' = deleting \ {a}
    /\ job' = [job EXCEPT ![a] = IF @ = "running" THEN "stopped" ELSE @]
    /\ UNCHANGED <<mode, answer, record, pc, report>>

-----------------------------------------------------------------------------
Next ==
    \/ doSync \/ Answered \/ ConnectionLost \/ pollCommandResult
    \/ \E told \in Answers \ {"none"} :
         \/ sshExecute(told) \/ ssmExecute(told)
         \/ dispatchAsync(told) \/ dispatchTracked(told) \/ createJob(told)
    \/ waitForBlockingResult
    \/ Return \/ Finish
    \/ KillRequested \/ HttpKill \/ deleteJob \/ List \/ HttpPoll \/ K8sPoll
    \/ \E a \in Attempts : JobEnds(a) \/ ObjectGone(a)

Spec == Init /\ [][Next]_vars

-----------------------------------------------------------------------------
(* Properties                                                              *)

\* A run is completed only when the job of one of its attempts has succeeded, though
\* answers are lost, attempts are repeated beside jobs that go on, and objects expire.
\* Two exceptions: async_blind asks for acceptance only, and a 2xx answer without a
\* usable status URL completes the run at once (DispatchResult).
SuccessIsReal ==
    row = "completed" =>
      \E a \in Attempts :
        \/ job[a] = "succeeded"
        \/ answer[a] = "untracked"
        \/ mode = "http_blind" /\ answer[a] = "accepted"

\* When a poll confirms that a k8s run is killed, no job of any of its attempts is
\* running, not even one whose creation was never confirmed: they share a name.  (A
\* kill that falls into a start without an answer is confirmed by nobody.)
KilledIsGone ==
    mode = "k8s" /\ row = "killed" /\ answer[attempt] = "accepted" =>
      \A a \in Attempts : job[a] # "running"

=============================================================================
