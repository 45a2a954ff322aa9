-------------------------------- MODULE Grove --------------------------------
(***************************************************************************)
(* The whole control plane: the Controller and the worker processes that   *)
(* drive it (cli/runtime.py run_worker and execute_claimed_step,           *)
(* worker/agent.py, HttpWorkerTransport).                                  *)
(*                                                                         *)
(* A worker process is one sequential loop: it makes one request at a time *)
(* and waits for it.  When it stops waiting (timeout_seconds) the request  *)
(* is not withdrawn: its handler goes on in the Controller, next to the    *)
(* handlers of what the worker does then.  Several processes may run under *)
(* one node id, one after the other or at the same time.                   *)
(***************************************************************************)
EXTENDS Controller, FiniteSets

CONSTANTS
    Workers,    \* worker processes
    NodeOf,     \* the node id each of them was started with
    NoThread,   \* no request outstanding
    PollOnce,   \* the processes started with --once
    Mortal      \* the processes that can be killed

\* "reboot": a process that died is started again.
WorkerFaults == { "timeout", "reboot" }

ASSUME WorkersAssumption == /\ NodeOf \in [Workers -> Nodes]
                             /\ PollOnce \subseteq Workers /\ Mortal \subseteq Workers
ASSUME ThreadAssumption == NoThread \notin Threads
ASSUME FaultsAssumption == Faults \subseteq ControllerFaults \cup WorkerFaults

VARIABLES
    worker,   \* the worker processes
    runs      \* history: how often the pipeline was started for a step

workerVars == << worker, runs >>
groveVars == << vars, workerVars >>
-----------------------------------------------------------------------------
\* Where the process is in run_worker and execute_claimed_step.  "rescue" is
\* the fail_step of the except clause, "fail" the one inside the try.
RequestOf ==
    [ register |-> "register", heartbeat |-> "heartbeat", claim |-> "claim_next",
      start |-> "start", complete |-> "complete", fail |-> "fail", rescue |-> "fail" ]

WorkerPc == DOMAIN RequestOf \cup { "off", "run", "sleep", "exited", "dead" }

Process ==
    [ pc : WorkerPc, thread : Threads \cup {NoThread},
      job : Jobs \cup {NoJob}, epoch : Nat ]   \* the claimed step it executes

NotStarted == [ pc |-> "off", thread |-> NoThread, job |-> NoJob, epoch |-> 0 ]

\* The process is between a claim and the end of execute_claimed_step.
Executing(pc) == pc \in { "start", "run", "complete", "fail", "rescue" }

WorkersTypeOK ==
    /\ worker \in [Workers -> Process]
    /\ runs \in [Jobs -> Nat]
    /\ \A w \in Workers :
         /\ worker[w].thread # NoThread => worker[w].pc \in DOMAIN RequestOf
         /\ Executing(worker[w].pc) <=> worker[w].job # NoJob

GroveInit ==
    /\ Init
    /\ worker = [w \in Workers |-> NotStarted]
    /\ runs = [j \in Jobs |-> 0]
-----------------------------------------------------------------------------
\* Mutant: the last claim outlives its poll.
BecomeRemembering(p, pc) == [p EXCEPT !.pc = pc, !.thread = NoThread]

\* `claimed` is a local of one turn of the loop.
Become(p, pc) ==
    [ pc |-> pc, thread |-> NoThread,
      job   |-> IF Executing(pc) THEN p.job ELSE NoJob,
      epoch |-> IF Executing(pc) THEN p.epoch ELSE 0 ]

\* Mutant: a failed start is ignored.
AfterErrorIgnoringStart(pc) ==
    IF pc = "start" THEN "run" ELSE IF pc \in {"complete", "fail"} THEN "rescue" ELSE "dead"

\* Mutant: a failed completion makes the worker execute the step again.
AfterErrorRetrying(pc) ==
    IF pc = "complete" THEN "run" ELSE IF pc \in {"start", "fail"} THEN "rescue" ELSE "dead"

\* Every request but those made for a claimed step ends the process by an
\* exception when it fails; those lead to the except clause once.
AfterError(pc) == IF pc \in {"start", "complete", "fail"} THEN "rescue" ELSE "dead"

\* Mutant: claim_next is called before the loop, not in every turn of it.
AfterReplyClaimingOnce(pc, reply) ==
    CASE reply \in {"refused", "error"} -> AfterError(pc)
      [] reply = "empty"                -> "sleep"
      [] pc = "register"                -> "claim"
      [] pc = "heartbeat"               -> "sleep"
      [] pc = "claim" /\ reply = "ok"   -> "start"
      [] pc = "start" /\ reply = "ok"   -> "run"
      [] OTHER                          -> "sleep"

\* What the process does after a response.  "empty" is a 204, HTTPError and
\* broken connections are exceptions.
AfterReply(pc, reply) ==
    CASE reply \in {"refused", "error"}          -> AfterError(pc)
      [] reply = "empty"                         -> "sleep"
      [] pc = "register"                         -> "heartbeat"
      [] pc = "heartbeat"                        -> "claim"
      [] pc = "claim" /\ reply = "ok"            -> "start"
      [] pc = "start" /\ reply = "ok"            -> "run"
      [] OTHER                                   -> "sleep"

Waiting(w) == worker[w].thread # NoThread
-----------------------------------------------------------------------------
\* A process comes up: `mediaorchard worker start`.
Boot(w) ==
    /\ worker[w].pc = "off" \/ (worker[w].pc = "dead" /\ "reboot" \in Faults)
    /\ worker' = [worker EXCEPT ![w] = Become(@, "register")]
    /\ UNCHANGED << vars, runs >>

\* HttpWorkerTransport.post, up to the wait for the response.
Send(w, t) ==
    /\ worker[w].pc \in DOMAIN RequestOf
    /\ ~Waiting(w)
    /\ Receive(t, [ op |-> RequestOf[worker[w].pc], job |-> worker[w].job,
                    node |-> NodeOf[w], epoch |-> worker[w].epoch ])
    /\ worker' = [worker EXCEPT ![w].thread = t]
    /\ UNCHANGED runs

\* The response arrives.  claim_next's carries the step id and its epoch.
Return(w) ==
    LET t == worker[w].thread
        p == worker[w]
        q == IF p.pc = "claim" THEN [p EXCEPT !.job = thread[t].job, !.epoch = thread[t].epoch]
                               ELSE p
        next == AfterReply(p.pc, thread[t].reply)
    IN
    /\ Waiting(w)
    /\ Finish(t)
    /\ worker' = [worker EXCEPT ![w] = Become(q, next)]
    /\ runs' = IF next = "run" THEN [runs EXCEPT ![q.job] = @ + 1] ELSE runs

\* urlopen times out, whatever the handler does, has done or will do.
GiveUp(w) ==
    /\ "timeout" \in Faults
    /\ Waiting(w)
    /\ worker' = [worker EXCEPT ![w] = Become(@, AfterError(@.pc))]
    /\ UNCHANGED << vars, runs >>

\* The request never reaches the Controller (it is down, or unreachable).
Unreachable(w) ==
    /\ "timeout" \in Faults
    /\ worker[w].pc \in DOMAIN RequestOf
    /\ ~Waiting(w)
    /\ worker' = [worker EXCEPT ![w] = Become(@, AfterError(@.pc))]
    /\ UNCHANGED << vars, runs >>

\* step_runner ran to its end: a result, a failed result, or an exception
\* (module Pipeline's states "complete", "fail" and "rescue").
RunPipeline(w) ==
    /\ worker[w].pc = "run"
    /\ \E next \in {"complete", "fail", "rescue"} :
         worker' = [worker EXCEPT ![w] = Become(@, next)]
    /\ UNCHANGED << vars, runs >>

\* The end of the poll: one more, or the process was asked for just one.
Poll(w) ==
    /\ worker[w].pc = "sleep"
    /\ worker' = [worker EXCEPT ![w] =
                    Become(@, IF w \in PollOnce THEN "exited" ELSE "heartbeat")]
    /\ UNCHANGED << vars, runs >>

\* The process is killed: nothing is reported (report_interrupted has no caller).
Crash(w) ==
    /\ w \in Mortal
    /\ worker[w].pc \notin {"off", "exited", "dead"}
    /\ worker' = [worker EXCEPT ![w] = Become(@, "dead")]
    /\ UNCHANGED << vars, runs >>
-----------------------------------------------------------------------------
\* A handler nobody waits for ends by itself.
Orphaned(t) == \A w \in Workers : worker[w].thread # t

WorkerStep(w) ==
    \/ Boot(w) \/ (\E t \in Threads : Send(w, t)) \/ Return(w)
    \/ RunPipeline(w) \/ Poll(w)

ControllerStep(t) ==
    /\ Handle(t) \/ (Orphaned(t) /\ Finish(t))
    /\ UNCHANGED workerVars

Fault ==
    \/ \E w \in Workers : GiveUp(w) \/ Unreachable(w) \/ Crash(w)
    \/ (\E t \in Threads : StorageError(t)) /\ UNCHANGED workerVars
    \/ Restart /\ UNCHANGED workerVars

Environment ==
    /\ \/ \E j \in Jobs : CreateJob(j) \/ RecoverStep(j)
       \/ \E n \in Nodes : Expire(n)
    /\ UNCHANGED workerVars

GroveNext ==
    \/ \E w \in Workers : WorkerStep(w)
    \/ \E t \in Threads : ControllerStep(t)
    \/ Fault
    \/ Environment

GroveSpec == GroveInit /\ [][GroveNext]_groveVars

(***************************************************************************)
(* Fairness.  The operator starts every process once, and a process that   *)
(* is up goes on; nobody has to start a dead one again.  A handler in      *)
(* progress ends (its thread is scheduled, SQLite grants the lock), a      *)
(* request that waits for a thread of the pool gets one in its turn, and a *)
(* node whose heartbeats are handled again and again is, again and again,  *)
(* within the scheduler's limits: without that a queued job may wait for   *)
(* ever.  Nothing is said of faults, restarts of processes, job creation   *)
(* or expiry.                                                              *)
(***************************************************************************)
\* A step a process takes by itself: its first start counts, a restart does not.
GoesOn(w) == worker[w].pc # "dead" /\ WorkerStep(w)

HealthyHeartbeat(n) ==
    \E t \in Threads :
        /\ thread[t].node = n
        /\ Heartbeat(t) /\ node'[n].healthy
        /\ UNCHANGED workerVars

FairGroveSpec ==
    /\ GroveSpec
    /\ \A w \in Workers : WF_groveVars(GoesOn(w))
    /\ \A w \in Workers : SF_groveVars(\E t \in Threads : Send(w, t))
    /\ \A t \in Threads : WF_groveVars(ControllerStep(t))
    /\ \A n \in Nodes : SF_groveVars(HealthyHeartbeat(n))
-----------------------------------------------------------------------------
(***************************************************************************)
(* What the control plane promises as a whole.                             *)
(***************************************************************************)

\* While a process runs the pipeline for a step, the step's row says running,
\* under the process's node and the epoch it was claimed with: no request of
\* another process, of an earlier process of the node, or one given up long
\* ago fails or completes it behind the process's back.
ExecutionProtected ==
    \A w \in Workers : worker[w].pc = "run" =>
        LET s == step[worker[w].job]
        IN  s.status = "running" /\ s.node = NodeOf[w] /\ s.epoch = worker[w].epoch

\* The pipeline is started at most once for a step, with any number of processes
\* under one node id, crashes, timeouts and restarts of the Controller.
PipelineRunsOnce == \A j \in Jobs : runs[j] <= 1

\* A step is in the hands of at most one process at a time.
OneHolder ==
    \A v, w \in Workers : v # w /\ worker[v].job # NoJob => worker[v].job # worker[w].job

\* A job that was shown as completed stays so, whatever old requests still do.
CompletedJobFinal ==
    [][\A j \in Jobs : job[j].status = "completed" => job'[j] = job[j]]_groveVars

\* Nobody is about to say anything of job j.
Quiet(j) ==
    /\ \A t \in Threads : thread[t].job # j
    /\ \A w \in Workers : worker[w].job # j

\* ARCHITECTURE.md, runtime loop: the Controller updates step AND job status.
\* When no request and no process concerns a job any more, the job shows the
\* outcome of its step.
JobAgreesWithStep ==
    \A j \in Jobs : Quiet(j) /\ step[j].status \in {"completed", "failed"} =>
                       job[j].status = step[j].status

\* The process is up, or about to be started for the first time.
Lives(w) == worker[w].pc \notin {"exited", "dead"}

\* Steps are assigned to a node, and claimed by any of its processes.  If one
\* process of the node lives on from some time on, every step assigned to the
\* node is claimed, whatever becomes of the other processes: they may poll, leave
\* after --once, be killed right after their heartbeat got the step assigned, come
\* back, be refused at their registration or lose the race of two first ones
\* (heartbeat_node assigns, run_worker claims).
AssignmentsPickedUp ==
    \A w \in Workers : <>[]Lives(w) =>
        \A j \in Jobs :
            step[j].status = "assigned" /\ step[j].node = NodeOf[w] /\ ~step[j].claimed
              ~> step[j].claimed

\* Every submitted job comes to an outcome (plan.md Flow C: also when a worker
\* disappears).
JobsFinish ==
    \A j \in Jobs : job[j].status = "queued" ~> job[j].status \in {"completed", "failed"}
=============================================================================
