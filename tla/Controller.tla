----------------------------- MODULE Controller -----------------------------
(***************************************************************************)
(* The Grove Controller (controller/main.py): the node, job and step       *)
(* tables, and the request handlers that read and write them.              *)
(*                                                                         *)
(* FastAPI runs every handler in a thread of its own, with a Session of    *)
(* its own.  A handler is cut into the steps that are atomic for the       *)
(* database: a SELECT outside a write transaction is one step, a DML       *)
(* statement up to its commit is one step, and any other handler may run   *)
(* between two of them.  A handler's variables between two of its steps    *)
(* are the record thread[t].                                               *)
(*                                                                         *)
(* The clients are arbitrary here: any authenticated client sends any      *)
(* request, for any node id, step and epoch, at any time.  Grove.tla adds  *)
(* the worker processes that send the requests in practice.                *)
(*                                                                         *)
(* create_job makes exactly one Step per Job, so that a step is named by   *)
(* its job: step[j] is the step of job j.                                  *)
(***************************************************************************)
EXTENDS StepStateMachine

CONSTANTS
    Jobs,          \* ids of jobs, existing or not yet created
    NoJob,         \* a request that names no step
    Threads,       \* the handlers that can be in progress together
    ClientOps,     \* the requests clients make
    MaxEpoch,      \* bound: recovery raises no epoch past it
    RecoveryLoop,  \* TRUE: something calls recover_timed_out_step
    Faults         \* the faults that can happen

\* "unshared": a worker names a root that validate_shared_root refuses.
ControllerFaults == { "restart", "storage", "unshared" }

ASSUME JobsAssumption == NoJob \notin Jobs
ASSUME EpochAssumption == MaxEpoch \in Nat
ASSUME RecoveryAssumption == RecoveryLoop \in BOOLEAN

VARIABLES
    node,    \* the node table, as far as scheduling reads it
    job,     \* the job table
    step,    \* the step table
    thread,  \* the request handlers in progress
    grants   \* history: how many claim leases a step got, the last under which epoch

vars == << node, job, step, thread, grants >>
-----------------------------------------------------------------------------
(***************************************************************************)
(* Rows.  is_node_eligible reads a node's metrics and the age of its last  *)
(* heartbeat; of these the model keeps whether they pass the policy.       *)
(***************************************************************************)
NodeRow == [ registered : BOOLEAN, fresh : BOOLEAN, healthy : BOOLEAN ]

\* create_job inserts a job as "queued"; the controller writes no status but these.
JobRow ==
    [ status   : {"absent", "created", "queued", "running", "completed", "failed"},
      progress : {0, 1, 100} ]

NoJobRow == [ status |-> "absent", progress |-> 0 ]

(***************************************************************************)
(* Requests.  NodeOps name no step; StepOps carry a step id, the sender's  *)
(* node id (X-MediaOrchard-Node-Id) and an assignment epoch.               *)
(***************************************************************************)
NodeOps   == { "register", "heartbeat", "claim_next" }
ReportOps == { "start", "complete", "fail" }
StepOps   == ReportOps \cup { "progress", "claim" }

Requests ==
    [ op : NodeOps \cap ClientOps, job : {NoJob}, node : Nodes, epoch : {0} ]
      \cup [ op : StepOps \cap ClientOps, job : Jobs, node : Nodes, epoch : 0 .. MaxEpoch ]

HandlerPc ==
    { "idle", "read", "insert", "modify", "update", "reread",
      "jobread", "jobwrite", "replied" }

Replies == { "none", "ok", "empty", "refused", "error" }

Handler ==
    [ pc : HandlerPc, op : NodeOps \cup StepOps \cup {"none"},
      job : Jobs \cup {NoJob}, node : Nodes \cup {NoNode}, epoch : Nat,
      draft : JobRow,    \* the job values computed and not yet written
      reply : Replies ]

Idle ==
    [ pc |-> "idle", op |-> "none", job |-> NoJob, node |-> NoNode,
      epoch |-> 0, draft |-> NoJobRow, reply |-> "none" ]

TypeOK ==
    /\ node \in [Nodes -> NodeRow]
    /\ job \in [Jobs -> JobRow]
    /\ step \in [Jobs -> StepRow]
    /\ thread \in [Threads -> Handler]
    /\ grants \in [Jobs -> [count : Nat, epoch : Nat]]

Init ==
    /\ node = [n \in Nodes |-> [registered |-> FALSE, fresh |-> FALSE, healthy |-> FALSE]]
    /\ job = [j \in Jobs |-> NoJobRow]
    /\ step = [j \in Jobs |-> FreshStep("absent")]
    /\ thread = [t \in Threads |-> Idle]
    /\ grants = [j \in Jobs |-> [count |-> 0, epoch |-> 0]]
-----------------------------------------------------------------------------
(***************************************************************************)
(* The life of a handler.                                                  *)
(***************************************************************************)
Goto(t, pc) == thread' = [thread EXCEPT ![t].pc = pc]

ReplyWith(t, reply) ==
    thread' = [thread EXCEPT ![t].pc = "replied", ![t].reply = reply]

At(t, pc, ops) == thread[t].pc = pc /\ thread[t].op \in ops

\* A request passes require_worker_auth and the validation of its body, and gets a
\* thread and a Session.  What is turned away before a row is read (401, 422 of a
\* body, claim_next's 403 when body and header name two nodes) changes nothing.
Receive(t, r) ==
    /\ thread[t].pc = "idle"
    /\ thread' = [thread EXCEPT ![t] =
         [ pc |-> "read", op |-> r.op, job |-> r.job, node |-> r.node,
           epoch |-> r.epoch, draft |-> NoJobRow, reply |-> "none" ]]
    /\ UNCHANGED << node, job, step, grants >>

\* The response has left, or nobody waits for it any more.
Finish(t) ==
    /\ thread[t].pc = "replied"
    /\ thread' = [thread EXCEPT ![t] = Idle]
    /\ UNCHANGED << node, job, step, grants >>
-----------------------------------------------------------------------------
(***************************************************************************)
(* Nodes and the scheduler.                                                *)
(***************************************************************************)
EligibleNodes(nodes) ==
    { n \in Nodes : nodes[n].registered /\ nodes[n].fresh /\ nodes[n].healthy }

QueuedSteps == { j \in Jobs : step[j].status = "queued" }

\* schedule_queued_steps under the node rows given: the cheapest eligible node
\* for each queued step, which one depending on metrics the model leaves out.
\* The pipeline step is neither an ffmpeg nor a whisper step, and carries no
\* constraints: no other filter of is_node_eligible applies to it.
ScheduleQueuedSteps(nodes) ==
    IF EligibleNodes(nodes) = {}
    THEN UNCHANGED step
    ELSE \E target \in [QueuedSteps -> EligibleNodes(nodes)] :
           step' = [j \in Jobs |->
                      IF j \in QueuedSteps THEN AssignStep(step[j], target[j])
                                           ELSE step[j]]

\* register_node refuses a root that is not the Controller's (422; module Rollout
\* has the cases), looks the row up, and inserts or modifies it accordingly.
RegisterRead(t) ==
    /\ At(t, "read", {"register"})
    /\ \/ Goto(t, IF node[thread[t].node].registered THEN "modify" ELSE "insert")
       \/ "unshared" \in Faults /\ ReplyWith(t, "refused")
    /\ UNCHANGED << node, job, step, grants >>

\* The row's defaults have no heartbeat and no free disk: not schedulable yet.
\* Two handlers that both saw no row: the second violates the primary key.
RegisterInsert(t) ==
    LET n == thread[t].node IN
    /\ At(t, "insert", {"register"})
    /\ IF node[n].registered
       THEN ReplyWith(t, "error") /\ UNCHANGED node
       ELSE ReplyWith(t, "ok") /\ node' = [node EXCEPT ![n].registered = TRUE]
    /\ UNCHANGED << job, step, grants >>

\* An existing row keeps its metrics and its last heartbeat.
RegisterModify(t) ==
    /\ At(t, "modify", {"register"})
    /\ ReplyWith(t, "ok")
    /\ UNCHANGED << node, job, step, grants >>

\* heartbeat_node: the node's new metrics and the assignments they allow are
\* one write transaction (the first flush takes SQLite's write lock before the
\* queue is read).  "healthy" is what the body's metrics amount to.
Heartbeat(t) ==
    LET n == thread[t].node IN
    /\ At(t, "read", {"heartbeat"})
    /\ IF ~node[n].registered
       THEN ReplyWith(t, "refused") /\ UNCHANGED << node, step >>
       ELSE \E healthy \in BOOLEAN :
              /\ node' = [node EXCEPT ![n].fresh = TRUE, ![n].healthy = healthy]
              /\ ScheduleQueuedSteps(node')
              /\ ReplyWith(t, "ok")
    /\ UNCHANGED << job, grants >>

\* More than heartbeat_timeout_seconds have passed since the node's heartbeat.
Expire(n) ==
    /\ node[n].fresh
    /\ node' = [node EXCEPT ![n].fresh = FALSE]
    /\ UNCHANGED << job, step, thread, grants >>
-----------------------------------------------------------------------------
\* create_job: Job, Plan and Step in one commit.  A refused body changes nothing.
CreateJob(j) ==
    /\ job[j].status = "absent"
    /\ job' = [job EXCEPT ![j].status = "queued"]
    /\ step' = [step EXCEPT ![j] = FreshStep("queued")]
    /\ UNCHANGED << node, thread, grants >>
-----------------------------------------------------------------------------
(***************************************************************************)
(* claim_next: choose a row, lease it, read it again for the response.     *)
(* ORDER BY assigned_at is a choice: assignments of one pass have equal    *)
(* stamps, and those of two passes are stamped before they take the lock.  *)
(***************************************************************************)
\* Mutant: claimed_at is not looked at.
ClaimableAgain(j, n) == step[j].status = "assigned" /\ step[j].node = n

Claimable(j, n) ==
    step[j].status = "assigned" /\ step[j].node = n /\ ~step[j].claimed

ClaimSelect(t) ==
    LET candidates == { j \in Jobs : Claimable(j, thread[t].node) } IN
    /\ At(t, "read", {"claim_next"})
    /\ IF candidates = {}
       THEN ReplyWith(t, "empty")
       ELSE \E j \in candidates :
              thread' = [thread EXCEPT ![t].pc = "update", ![t].job = j]
    /\ UNCHANGED << node, job, step, grants >>

\* The lease is granted under the epoch the row has now.
GrantLease(j) ==
    /\ step' = [step EXCEPT ![j].claimed = TRUE]
    /\ grants' = [grants EXCEPT ![j] = [count |-> @.count + 1, epoch |-> step[j].epoch]]

\* Mutant: the UPDATE names the row by its id alone.
ClaimUpdateUnguarded(t) ==
    /\ At(t, "update", {"claim_next"})
    /\ GrantLease(thread[t].job)
    /\ Goto(t, "reread")
    /\ UNCHANGED << node, job >>

\* The UPDATE repeats the SELECT's conditions, and not the epoch.
ClaimUpdate(t) ==
    LET j == thread[t].job IN
    /\ At(t, "update", {"claim_next"})
    /\ IF Claimable(j, thread[t].node)
       THEN GrantLease(j) /\ Goto(t, "reread")
       ELSE ReplyWith(t, "empty") /\ UNCHANGED << step, grants >>
    /\ UNCHANGED << node, job >>

\* The response is the row as it is after the commit.
ClaimReread(t) ==
    /\ At(t, "reread", {"claim_next"})
    /\ thread' = [thread EXCEPT ![t].pc = "replied", ![t].reply = "ok",
                                ![t].epoch = step[thread[t].job].epoch]
    /\ UNCHANGED << node, job, step, grants >>
-----------------------------------------------------------------------------
(***************************************************************************)
(* The handlers that name a step: read the row and validate the request    *)
(* against it, then UPDATE under a guard that repeats what was validated.  *)
(***************************************************************************)
Target(op) ==
    CASE op = "start" -> "running" [] op = "complete" -> "completed" [] op = "fail" -> "failed"

\* from_statuses, as each handler passes it.
FromStatuses(op) ==
    CASE op \in {"start", "claim"}       -> {"assigned"}
      [] op \in {"complete", "progress"} -> {"running"}
      [] op = "fail"                     -> {"assigned", "running"}

\* get_step_or_404, validate_worker_ownership, validate_epoch_or_409, and
\* transition_or_409 or the status test of claim_step.
Valid(h, s) ==
    /\ s.status # "absent"
    /\ s.node = h.node
    /\ EpochMatches(s, h.epoch)
    /\ h.op \in ReportOps => CanTransition(s, Target(h.op))
    /\ h.op = "claim" => s.status = "assigned"

StepRead(t) ==
    /\ At(t, "read", StepOps)
    /\ IF Valid(thread[t], step[thread[t].job])
       THEN Goto(t, "update")
       ELSE ReplyWith(t, "refused")
    /\ UNCHANGED << node, job, step, grants >>

\* Mutant: the WHERE clause without Step.status.in_(from_statuses).
GuardHoldsAnyStatus(h, s) ==
    s.epoch = h.epoch /\ s.node = h.node /\ (h.op = "claim" => ~s.claimed)

\* Mutant: the WHERE clause without Step.assignment_epoch.
GuardHoldsAnyEpoch(h, s) ==
    s.node = h.node /\ s.status \in FromStatuses(h.op) /\ (h.op = "claim" => ~s.claimed)

\* The WHERE clause of persist_step_update_or_409.  The epoch it names is that
\* of the row read, which validation found equal to the request's.
GuardHolds(h, s) ==
    /\ s.epoch = h.epoch
    /\ s.node = h.node
    /\ s.status \in FromStatuses(h.op)
    /\ h.op = "claim" => ~s.claimed

\* The report's values, and what complete and progress put in output_json.
Reported(op, s) ==
    CASE op = "start"    -> [s EXCEPT !.status = "running"]
      [] op = "complete" -> [s EXCEPT !.status = "completed", !.output = "result"]
      [] op = "fail"     -> [s EXCEPT !.status = "failed"]
      [] op = "progress" -> [s EXCEPT !.output = "progress"]

\* Mutant: the rowcount is not looked at, and the handler goes on to the job.
StepUpdateUncounted(t) ==
    LET h == thread[t] IN
    /\ At(t, "update", StepOps)
    /\ IF ~GuardHolds(h, step[h.job])
       THEN UNCHANGED << step, grants >>
       ELSE IF h.op = "claim"
       THEN GrantLease(h.job)
       ELSE step' = [step EXCEPT ![h.job] = Reported(h.op, @)] /\ UNCHANGED grants
    /\ IF h.op \in ReportOps THEN Goto(t, "jobread") ELSE ReplyWith(t, "ok")
    /\ UNCHANGED << node, job >>

\* A report goes on to the job; progress and claim are done.
StepUpdate(t) ==
    LET h == thread[t] IN
    /\ At(t, "update", StepOps)
    /\ IF ~GuardHolds(h, step[h.job])
       THEN ReplyWith(t, "refused") /\ UNCHANGED << step, grants >>
       ELSE /\ IF h.op = "claim"
               THEN GrantLease(h.job)
               ELSE /\ step' = [step EXCEPT ![h.job] = Reported(h.op, @)]
                    /\ UNCHANGED grants
            /\ IF h.op \in ReportOps THEN Goto(t, "jobread") ELSE ReplyWith(t, "ok")
    /\ UNCHANGED << node, job >>
-----------------------------------------------------------------------------
(***************************************************************************)
(* After a report: mark_job_running, mark_job_after_step_completion or     *)
(* mark_job_failed, in a transaction of its own.  The row is read, and     *)
(* written by primary key later, whatever it has become in between.        *)
(***************************************************************************)
\* Mutant: completion adds its share to the progress there is.
DraftAdding(op, row, s) ==
    IF op = "complete"
    THEN [ status |-> "completed", progress |-> row.progress + 100 ]
    ELSE [ status   |-> IF op = "fail" THEN "failed" ELSE "running",
           progress |-> IF op = "fail" THEN row.progress ELSE 1 ]

\* Mutant: a failed step is not carried over to the job.
DraftWithoutFailure(op, row, s) ==
    [ status   |-> IF op = "complete" THEN "completed" ELSE "running",
      progress |-> IF op = "complete" THEN 100 ELSE 1 ]

Draft(op, row, s) ==
    CASE op = "start"    -> [ status   |-> "running",
                              progress |-> IF row.progress > 1 THEN row.progress ELSE 1 ]
      [] op = "complete" -> IF s.status = "completed"
                            THEN [ status |-> "completed", progress |-> 100 ]
                            ELSE [ status |-> "running", progress |-> 0 ]
      [] op = "fail"     -> [ row EXCEPT !.status = "failed" ]

JobRead(t) ==
    LET h == thread[t] IN
    /\ At(t, "jobread", ReportOps)
    /\ IF h.op = "start" /\ job[h.job].status \notin {"created", "queued"}
       THEN ReplyWith(t, "ok")
       ELSE thread' = [thread EXCEPT ![t].pc = "jobwrite",
                         ![t].draft = Draft(h.op, job[h.job], step[h.job])]
    /\ UNCHANGED << node, job, step, grants >>

\* The ORM writes the columns the handler changed: mark_job_failed leaves progress.
JobWrite(t) ==
    LET h == thread[t] IN
    /\ At(t, "jobwrite", ReportOps)
    /\ job' = [job EXCEPT ![h.job].status = h.draft.status,
                          ![h.job].progress = IF h.op = "fail" THEN @ ELSE h.draft.progress]
    /\ ReplyWith(t, "ok")
    /\ UNCHANGED << node, step, grants >>
-----------------------------------------------------------------------------
(***************************************************************************)
(* Faults, and recovery.                                                   *)
(***************************************************************************)
Working(t) == thread[t].pc \notin {"idle", "replied"}

\* The database refuses a statement (locked past its timeout, I/O error): the
\* Session rolls its open transaction back, the client gets a 500.
StorageError(t) ==
    /\ "storage" \in Faults
    /\ Working(t)
    /\ ReplyWith(t, "error")
    /\ UNCHANGED << node, job, step, grants >>

\* The Controller process dies and comes up again: the tables survive, the
\* handlers do not, and their clients see the connection break.
Restart ==
    /\ "restart" \in Faults
    /\ \E t \in Threads : Working(t)
    /\ thread' = [t \in Threads |->
                    IF thread[t].pc = "idle" THEN thread[t]
                    ELSE [thread[t] EXCEPT !.pc = "replied", !.reply = "error"]]
    /\ UNCHANGED << node, job, step, grants >>

\* recover_timed_out_step applied to a stored row and committed, as the tests
\* of the state machine do.  Nothing under mediaorchard/ calls it yet.
RecoverStep(j) ==
    /\ RecoveryLoop
    /\ Recoverable(step[j])
    /\ step[j].epoch < MaxEpoch
    /\ step' = [step EXCEPT ![j] = RecoverTimedOutStep(@)]
    /\ UNCHANGED << node, job, thread, grants >>
-----------------------------------------------------------------------------
Handle(t) ==
    \/ RegisterRead(t) \/ RegisterInsert(t) \/ RegisterModify(t)
    \/ Heartbeat(t)
    \/ ClaimSelect(t) \/ ClaimUpdate(t) \/ ClaimReread(t)
    \/ StepRead(t) \/ StepUpdate(t)
    \/ JobRead(t) \/ JobWrite(t)

Next ==
    \/ \E j \in Jobs : CreateJob(j) \/ RecoverStep(j)
    \/ \E n \in Nodes : Expire(n)
    \/ \E t \in Threads, r \in Requests : Receive(t, r)
    \/ \E t \in Threads : Handle(t) \/ Finish(t) \/ StorageError(t)
    \/ Restart

Spec == Init /\ [][Next]_vars
-----------------------------------------------------------------------------
(***************************************************************************)
(* What the handlers promise to any set of clients.                        *)
(***************************************************************************)

\* A step is leased once, however many claim requests of one node or of several
\* processes under one node id read it as claimable before the first of them
\* wrote (claim_next, claim_step).
ClaimLeaseExclusive == \A j \in Jobs : grants[j].count <= 1

\* The handler of a complete or fail report is past its commit.
Committed(t) ==
    /\ thread[t].op \in {"complete", "fail"}
    /\ \/ thread[t].pc \in {"jobread", "jobwrite"}
       \/ thread[t].pc = "replied" /\ thread[t].reply = "ok"

\* A report the Controller acknowledges (and one it has only committed) is and
\* stays what the step's row says: same outcome, same node, same assignment.
\* Of two reports that both passed validation, at most one is acknowledged.
AcknowledgedReportStands ==
    \A t \in Threads : Committed(t) =>
        LET h == thread[t]
            s == step[h.job]
        IN  s.status = Target(h.op) /\ s.node = h.node /\ s.epoch = h.epoch

\* A job shows an outcome only if its step really had that outcome, although
\* the job is written in a later transaction than the step.
JobOutcomeJustified ==
    \A j \in Jobs : job[j].status \in {"completed", "failed"} =>
                       step[j].status = job[j].status

\* output_json holds a pipeline result exactly on completed steps: a progress
\* report that read the step as running never overwrites the result.
ResultOnlyFromCompletion ==
    \A j \in Jobs : step[j].output = "result" <=> step[j].status = "completed"

\* recover_timed_out_step requeues a step at most MaxRetries times from running.
RetriesBounded ==
    \A j \in Jobs :
        /\ step[j].retries <= MaxRetries + 1
        /\ step[j].status \in {"queued"} \cup Active => step[j].retries <= MaxRetries

\* Once a step is completed or failed nothing changes its row any more.
TerminalStepFinal ==
    [][\A j \in Jobs : step[j].status \in Terminal => step'[j] = step[j]]_vars

\* A request that carries another epoch than the row's never changes the row,
\* not even when the epoch moved on between its validation and its UPDATE.
StaleReportHarmless ==
    [][\A t \in Threads :
         /\ thread[t].op \in StepOps
         /\ thread[t].pc = "update"
         /\ thread'[t] # thread[t]
         /\ thread[t].epoch # step[thread[t].job].epoch
         => step' = step]_vars

\* The steps as the entries of StepLedger, whose specification they follow.
LedgerState ==
    [ absent |-> "none", queued |-> "waiting", assigned |-> "given",
      running |-> "working", completed |-> "completed", failed |-> "failed" ]

LedgerView ==
    [j \in Jobs |-> [ state  |-> LedgerState[step[j].status], holder |-> step[j].node,
                      epoch  |-> step[j].epoch, leased |-> step[j].claimed ]]

Ledger == INSTANCE StepLedger WITH ledger <- LedgerView

\* Seen from outside, whatever handlers overlap, a step moves as if each
\* request were one atomic event (controller/main.py's guarded updates).
LedgerSpec == Ledger!Spec

\* plan.md's recovery (Flow C; runtime rules 1 and 5): a step that was released
\* and assigned again can be claimed under its new assignment.  A lease counts
\* only for the assignment it was given under.
ReassignedStepClaimable ==
    \A j \in Jobs : step[j].status = "assigned" /\ step[j].claimed =>
                       grants[j].epoch = step[j].epoch
=============================================================================
