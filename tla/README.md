# MediaOrchard: TLA+ models and proofs

MediaOrchard runs media jobs on a "grove" of Macs. One **Controller** (FastAPI
over SQLite) owns the tables of nodes, jobs and steps; a **Worker** process per
Mac registers, sends heartbeats, claims the steps assigned to its node, runs the
media pipeline for them and reports. Nothing pushes: every state change happens
in the handler of some HTTP request, in a thread and a database session of its
own.

All paths below are under `src/mediaorchard/` unless they say otherwise.

## 1. Inventory

| Part | Source | State | Operations |
|---|---|---|---|
| Step state machine | `controller/runtime/state_machine.py`, `shared/enums.py` | the Step row | `transition_step`, `assign_step`, `validate_assignment_epoch`, `recover_timed_out_step` |
| Controller API | `controller/main.py`, `controller/db/` | node, job, plan, step tables; the handlers in progress | register, heartbeat, create job, claim-next, start, progress, complete, fail, claim, and reads |
| Scheduler | `controller/scheduler/` | none of its own; reads and writes node and step rows inside a heartbeat | eligibility, cost, selection, assignment |
| Worker runtime | `cli/runtime.py`, `worker/agent.py` | position in the poll loop, the claimed step | register, then poll: heartbeat, claim, execute; report |
| Tool executor | `worker/executor.py` | log files | run a registered tool, time it out, write its logs |
| Pipelines | `worker/mock_pipeline.py`, `worker/real_media_smoke.py` | a job's output and work directories | deterministic, real and smoke pipeline: tools, outputs, quality check, reports |
| Bootstrap, preflight | `worker/bootstrap.py`, `worker/preflight.py` | the target machines: venv, packages, wheel, layout | `doctor worker-bootstrap --execute`, `doctor worker` |
| Configuration | `cli/main.py`, `cli/runtime.py`, `controller/scheduler/policies.py` | the process's environment | node priorities from the operator to the scheduler |
| Paths, keys | `shared/paths.py`, `shared/security.py` | none | shared-root validation, allow-listed path resolution, key hashing |
| Command line, scripts | `cli/main.py`, `src/scripts/` | none | argument parsing, printing, release checks |

How they interact. A Worker calls the Controller over HTTP with a timeout
(`HttpWorkerTransport`); a request it gives up is not withdrawn. Handlers share
nothing but the database. A heartbeat's handler calls the scheduler under its own
write transaction. A handler that reports on a step commits the step, and then the
job in a second transaction. Between a worker's start and its report a pipeline runs as
part of the worker's own loop, without heartbeats, over directories named after the job
on storage the machines share. The doctor commands prepare a machine before any of that.

What is hard here:

- handlers overlap, and each reads a row before it writes it (claim races, reports
  validated against a row that has since changed);
- step and job are written in two transactions, the second one unguarded;
- the Controller may die between them, the Worker anywhere;
- a request that timed out races with the requests that follow it;
- recovery exists only as a function on a row: nothing calls it;
- heartbeats set the active counts that scheduling passes raise;
- a tool may hang, may be killed, and may outlive the worker that waited for it;
- directories belong to the job, so that an attempt finds what earlier ones left, and what
  their tools, if they outlive them, go on writing;
- killing `ssh` does not stop the script it started at the other end, which may take away
  what the next one just put in place;
- whether the share is mounted is a fact of each machine that can change.

What makes each part correct:

- *state machine*: outcomes are final, epochs only grow, retries are bounded;
- *Controller*: one lease per step; an acknowledged report stands; a job never
  claims an outcome its step does not have, and eventually shows the one it has;
- *Worker*: the pipeline runs at most once per step, and only while the step is the
  Worker's; every job comes to an outcome;
- *scheduler*: between two heartbeats of a node limits hold; no step is left that a node could
  take, load is spread;
- *executor*: a completed result is a tool that ended with 0 and logs that are whole
  and its own; a refused call runs nothing; a call always comes back;
- *pipelines*: a completed attempt published all that was asked for, whole and of one
  attempt's media, its own unless something strayed under its hands; what is published stays
  until a later attempt begins; an attempt ends whatever its tools do; subtitles keep the
  times of the segments, and their order if there is one;
- *bootstrap, preflight*: PASS means a complete machine, unless an orphaned script does
  damage meanwhile; exit code 0 means that all targets passed; nothing half installed is
  taken for whole; results lie on the share;
- *configuration*: the scheduler uses the priorities the operator asked for.

The hazards, line by line and with the properties aimed at them, are in
`PROJECT.json` under `hazards`.

## 2. Modules

```
StepStateMachine        the Step row and the functions on it (pure operators)
   ^ EXTENDS
Controller              tables, request handlers, faults, recovery
   |  \--INSTANCE--> StepLedger      what the step table promises, atomically
   |  ^ EXTENDS
   |  Controller_proofs             invariants (TLAPS)
   |  ^ EXTENDS
   |  Ledger_proofs                 Controller implements StepLedger (TLAPS)
   ^ EXTENDS
Grove                   Controller + the worker processes that call it
   ^ EXTENDS (with Ledger_proofs)
Grove_proofs            theorems about both together (TLAPS)

Scheduler               policy, cost and the scheduling pass in detail
   |  \--INSTANCE--> StepLedger      for the steps that create_job makes
   |  ^ EXTENDS
   |  Scheduler_proofs              theorems (TLAPS)
   |     Configuration   node priorities, from the shell to the application (pure operators)
   ^ EXTENDS ^
Dispatch                Scheduler with the priorities that Configuration brought to it
   ^ EXTENDS
Configuration_proofs    theorems about both (TLAPS)

Subtitles               segments to SRT cues (pure operators)
   ^ EXTENDS
Pipeline                an attempt's stages over the directories of its job
   |  \--INSTANCE--> Publication     what a reader of the outputs is promised
   ^ EXTENDS
Pipeline_proofs         theorems about both and about Subtitles (TLAPS)

ToolExecutor            calls of ToolExecutor.execute
   ^ EXTENDS
ToolExecutor_proofs     theorems (TLAPS)

Doctor                  bootstrap and preflight of machines
   ^ EXTENDS
Rollout                 Doctor + registration's path check + the first jobs
   ^ EXTENDS
Rollout_proofs          theorems about both (TLAPS)

MC<module>              an instance for TLC, one .cfg per run; MCScheduler is one of Dispatch
```

**StepStateMachine.** `StepRow` keeps the columns a decision reads: status,
`assigned_node_id` (`node`), whether `claimed_at` is set (`claimed`),
`assignment_epoch`, `retry_count`, and which writer `output_json` had last. It has the
table `LegalStepTransitions` and one operator per function of `state_machine.py`.

**Controller.** `node`, `job`, `step` are the tables; `thread[t]` is a handler: its
program counter, its request, the job values it computed and has not written, and
its reply. `grants` is a history variable. A job has exactly one step (`create_job`),
so steps are named by their job. Handlers are cut where the database lets others in
(SQLite through SQLAlchemy: a SELECT outside a write transaction is its own atomic
step, a DML statement up to its commit is another):

| Code | Actions |
|---|---|
| `register_node` | `RegisterRead`, then `RegisterInsert` or `RegisterModify` |
| `heartbeat_node` with `schedule_queued_steps` | `Heartbeat` (one write transaction) |
| `create_job` | `CreateJob` |
| `claim_next` | `ClaimSelect`, `ClaimUpdate`, `ClaimReread` |
| start, progress, complete, fail, claim of a step | `StepRead` (validation), `StepUpdate` (`persist_step_update_or_409`) |
| `mark_job_running`, `..._after_step_completion`, `mark_job_failed` | `JobRead`, `JobWrite` |
| a thread and a session per request | `Receive`, `Finish` |
| heartbeat age | `Expire` |
| database errors, death of the Controller | `StorageError`, `Restart` |
| `recover_timed_out_step` | `RecoverStep`, only when `RecoveryLoop` is TRUE |

Clients are arbitrary here: any request, any node id, any epoch, any time.
Scheduling is abstracted to "each queued step goes to some eligible node", which
`Scheduler` justifies for the only kind of step `create_job` makes (no constraint,
no limit: `NoStepLeftBehind`).

**StepLedger.** The abstract specification: an entry waits, is given to a holder,
is leased at most once, works, and settles for good; only giving and revoking raise
the epoch. `Controller!LedgerView` is the refinement mapping and `LedgerSpec` the
property.

**Grove.** Adds `worker[w]`, the position of each process in `run_worker` and
`execute_claimed_step`, and `runs`, the history of pipeline executions. `Send` is a
`Receive` in the Controller, `Return` a `Finish`; `GiveUp` is urlopen's time-out, which
leaves the handler going; `AfterError` is the except clause (one `fail_step`, whose own
failure ends the process); `Crash` kills a process, `Boot` starts one, for the first time or
again: the first is what the operator does (`GoesOn`), the second something that may happen.

**Scheduler.** Full node metrics, `is_node_eligible`, `calculate_node_cost`,
`select_node_for_step` and the pass over the queue one step at a time, with the
detail `Controller` leaves out: the heartbeat's session holds its node's row since
before the write lock (`Load`, `View`), and its UPDATE writes only columns that differ
from the values loaded (`Flushed`). `LedgerView` shows its steps as entries of
StepLedger, an assignment from the commit of its pass on; `Plain` are the steps of
`create_job`.

**Pipeline.** The worker's work in `Grove.RunPipeline`, cut where a tool, a write or a kill
can come in. `attempt[a]` says which stage of the
function an attempt is at and what it holds in memory, `files` what lies in the job's
directories, `quality` what is in `quality_report.json`.

| Code | Actions |
|---|---|
| requested outputs and input of the two worker pipelines | `Check` |
| `_run_command` of `real_media_smoke.py` | `Spawn`, then `ToolExits` (which is `ToolSucceeds`, `ToolDoesNothing` or an error) or `Timeout` |
| `_read_json` of Whisper's result | `Load` |
| each `write_text` / `write_bytes` / `_write_json` | `Write` |
| `build_quality_report` and its file | `QualityGate` |
| the return, or the final `RuntimeError` | `Verdict` |
| death of the worker, alone or with a tool left behind | `Kill`, `OrphanWrites` |

A tool that outlived its worker (`orphan`) writes, once or again, next to whatever attempts begin
after it: nothing in the code waits for it. A tool may also end with 0 and write nothing, and what
lay under its product's name then counts as its product. `misled` is the history variable for both:
the attempts under whose tools' names another's content may have come. The code cannot tell, since
it looks at exit codes and sizes; the properties say what holds for such attempts and what does not.

An attempt's end is what Grove sees of it: `complete` is the report of completion, `fail`
a failed result (`fail_step`), `rescue` an exception (the except clause and its one
`fail_step`), `killed` is `Grove.Crash`. For an operator's smoke run the same ends are
exit codes.

**Publication.** The abstract specification of the same directories, for a reader who looks
only at a completed job: when an attempt begins nothing can be relied
on; with its completion all that was asked for is there at once, made of its media or, if something
strayed under its hands (`Stray`, which the mapping takes from `misled`), of one other attempt's, and
stays until a later attempt begins. The mapping (`LatestBegun`, `Completed`, `AuthorOf`) hides what
lies in the directories in between; an output that is missing, of no bytes or a part has no author.

**ToolExecutor.** One thread of control per call: `Build` (contract, path resolution, log
directory), `Run`, `Exit` or `Timeout`, two `WriteLog`. `exit` has the codes the code
gives: a tool's own, minus a signal's number, -1 for a time-out, -2 for log errors; they
overlap (SIGHUP and SIGINT), which is why completion is related to `told`, what really
became of the tool, and not to the code. A log that cannot be written adds to the errors;
text that cannot be encoded leaves `execute` as an exception.

**Doctor.** `host[h]` is a machine: what it has for the bootstrap script's PATH, for a login
shell's and for the system's python, its mount, a directory of its own at the share's path,
wheel, venv, packages. `WhisperPython` is the doctor's `--whisper-python`: the system's `python3`,
which is the default, or that of the environment bootstrap made. `cmd` is the command in progress, at a stage of a target.
`BootstrapStage` is a command of `build_bootstrap_script` or of the wheel copy, which the
shell's `set -e` or the failed copy ends at the first failure; `DoctorCheck` is one check
of `run_worker_preflight`, which makes them all. A stage that fails or is cut short may leave less
than it found (`Cut`): `venv` and `pip` an environment in pieces, `install` a package removed and
not put back, `scp` half a wheel. `Timeout` is `run_command`'s; the remote
script then goes on as `orphan[h]`, next to the commands that follow, and `harmed` notes the machines
it did such damage to while a command ran. `Mount` and `CopyByHand` are the operator.

**Rollout.** Adds `node` and `job`: `StartWorker` is `validate_shared_root` as
`register_node` calls it, in the Controller's process; `RunJob` is a whole job seen from
the disk. What the Controller and the pipeline do in detail is left to their modules;
here only *where* the results go matters.

**Subtitles.** `Timestamp` is `format_srt_timestamp` over exact times, with Python's
rounding of halves to even; `SegmentsToSrt` the cues of the stage `srt`.

**Configuration.** `ControllerStart` composes `ParseOptions` (`_parse_node_priorities`),
`RunController` (writes or removes the variable) and the parsing of the module-level
`create_app`; `Taken` is one turn of `parse_node_priorities`' loop.

**Dispatch.** Scheduler and Configuration together: `DispatchAssumption` says that the
application was imported and that the `Priority` of a node is what `node_priority_bonus` finds
in its dictionary, by id or by host.

## 3. Runs

| Run | Instance and bounds | Shows |
|---|---|---|
| `races` | 1 job, 2 nodes, 2 handlers, all requests, restarts, storage errors (3.4 million states) | `ClaimLeaseExclusive`, `JobOutcomeJustified`, `ResultOnlyFromCompletion`, `TerminalStepFinal`, `TypeOK` |
| `recovery` | 1 job, 1 node, 2 handlers, epochs to 4, `MaxRetries` 1, recovery at any time (400 000) | `AcknowledgedReportStands` under recovery, `RetriesBounded`, `StaleReportHarmless`, and that Controller implements StepLedger |
| `grove_faults` | 1 job, 2 processes of 1 node (one run with `--once`, one that can die), time-outs, reboots, restarts, storage errors (691 000) | `ExecutionProtected`, `PipelineRunsOnce`, `OneHolder`, `CompletedJobFinal`, `WorkersTypeOK` |
| `grove_live` | 2 jobs, 2 processes, no faults, fairness (107 000) | `JobsFinish`, `JobAgreesWithStep` |
| `grove_mortal` | 1 job, 2 processes of one node: one leaves after `--once`, both may be killed at any time and need not come back, be refused at their registration or lose the race of two first ones; fairness (331 000) | `AssignmentsPickedUp` |
| `scheduler` | 2 nodes, 4 steps (2 whisper, ffmpeg, pipeline), 3 heartbeat bodies at and beyond the limits (1.3 million); an option that overrides the shell's variable, and all lists of 2 entries in both | `CountsCover`, `LimitsHold`, `NoStepLeftBehind`, `NoCheaperNode`, `PrioritiesArrive`, `TypeOK` |
| `pipeline` | 2 workers one after the other, all three pipelines, 3 kinds of request, any tool or write failing, tools that do nothing, kills, the first one's tool at work next to the second; transcripts of 2 segments over 12 times (407 000) | `CompletedIsFresh`, `RequestedPublished`, `StaleAttemptPublishesNothing`, `SubtitlesReadable`, that Pipeline implements Publication (`OutputsPromised`), `AttemptEnds`, `TypeOK` |
| `tool_executor` | 3 calls, 2 of one tool for different steps, 1 of an unknown tool (130 000) | `CompletedMeansDone`, `ResultsHaveLogs`, `ExecuteReturns`, `TypeOK` |
| `rollout` | a new remote machine and one in use, a wheel copied by hand, any number of commands, any stage breaking what it was to replace, orphaned scripts, workers after a doctor that passed (1.3 million) | `BootstrapPassMeansReady`, `NoVenvWithoutLayout`, `DoctorPassMeansShared`, `OutputsOnShare`, `CommandEnds`, `TypeOK` |
| `reassigned` | 1 handler, recovery | *violation*: a reassigned step cannot be claimed |
| `grove_lost` | a process per node, one dies, fairness | *violation*: its job never finishes |
| `grove_timeout` | 1 process, time-outs | *violation*: late job write over a failure |

Why the bounds are enough. Handlers touch one step and its job, so one job shows
every race on a row; two handlers show every pair of transactions in every order,
and the theorems below cover any number. Epoch 4 allows assign, release,
assign, release, which `MaxRetries` 1 needs to reach the retry limit and the final
failure. Two processes under a node id is the case `src/plan.md` names for
`claim-next`; two jobs in the liveness run make one pass assign several steps to one
node. In the scheduler, node 2's limit differs from node 1's, its priority outweighs the
load, one step avoids a node and one is too long for battery.

An attempt meets the files of at most those before it, and the last of them
hides the older ones, so two attempts show reuse, and an orphan next to one that begins after
it; a file is a product, a part of one, or someone else's, never a matter of size. Three calls are two that share a tool and a
directory and one that is refused. In Doctor one target's stages
touch no other target, so the second machine is there for the exit code and for what the
first one's verdict may hide; it is in use already and has the share. The first is without the
share: it has a directory of its own at that path, with a foreign marker file, which only the
comparison of the value tells from the share, or nothing there and no way to make it, which only
`set -e` keeps from becoming an environment. The wheel is copied by hand, so `test -f` may find
none; the two stages of `--copy-wheel` come before the script, and the theorems cover every source
and every state a machine can be found in. `MCTimes` has the halves, the numbers beside them, and the last moment
before each carry. Two entries of a list are enough for
a repeated key, since the loop looks at one entry and what it has so far.

Deadlock is checked everywhere but in `grove_timeout`, where a process that gave up has
ended, and with nobody else the system really stops, and in `pipeline` and
`tool_executor`, whose attempts and calls come to an end.

### Findings

1. `reassigned`: `recover_timed_out_step` and `assign_step` keep `claimed_at`, and
   `claim_next` demands that it be unset: a retry granted by recovery never runs.
2. `grove_lost`: Flow C of `src/plan.md` is not implemented (`src/plan.md:1016` says the
   loop is pending): a claim whose process dies is lost, and its job never ends.
3. `grove_timeout`: `mark_job_running` writes a job row it read earlier, by primary key:
   a failed job is set back to running when a timed-out start is still in progress.

### Divergences

More disagreements the models show, with the constants or the property to change to see each. They
follow from the code as modelled; they are not runs of their own.

Controller and workers:

- With `Faults = {"restart"}` in `MCGrove_timeout.cfg`, `JobAgreesWithStep` fails: step and job
  are committed separately (`controller/main.py:510`), and nothing repairs the job after a
  restart in between.
- With `PollOnce = {w1}`, `Mortal = {}` and two jobs in `MCGrove_lost.cfg`, `JobsFinish` fails: a
  process that leaves its loop tells the Controller nothing, and steps assigned to its node stay
  there (`src/plan.md:1116` has them released). `AssignmentsPickedUp` therefore asks that one
  process of the node live on.
- `start_step` does not ask whether the step was claimed. Workers start what their claim returned,
  which is all Grove has; a client of another kind that knows a step's id could start it unclaimed.
- A worker always reports that it has no active jobs (`cli/runtime.py:302`), so each heartbeat
  sets back what passes have counted: `LimitsHold` is about one heartbeat to the next, and two
  heartbeats' passes together exceed a limit. Only steps of kinds that `create_job` does not make
  are under one.

Pipelines:

- `PassedSubtitleIsMonotonic` and `PassedSubtitleHasText` fail in `MCPipeline.cfg`:
  `src/plan.md:757` and the line after it ask of the quality check that timestamps are monotonic
  and the text is not empty; the code looks at the number of bytes, and what Whisper puts out of order passes.
  `SubtitlesReadable` says what remains: formatting puts nothing out of order that was in order.
- Without `a \notin misled`, `CompletedIsFresh` fails: next to an orphan, or with a tool that ends with
  0 and writes nothing where an earlier attempt's product lies, an attempt completes and publishes
  older media, whole and of one attempt (`RequestedPublished`).
- With `Overlap = TRUE` in `MCPipeline.cfg`, `StaleAttemptPublishesNothing` fails: outputs are published
  in place, in directories of the job, so the report of a stale attempt is refused and its files are
  not (`src/plan.md:1117`). Two workers at work on one job need a requeue, which today only
  `recover_timed_out_step` makes, and nothing calls it, or an operator who starts two smoke runs
  with one root. That criterion is not claimed for them.

Machines:

- Without the exception for `harmed`, `BootstrapPassMeansReady` and `DoctorPassMeansShared` fail: a
  command reports what it saw, and the script of an earlier one, given up after the time-out
  (`worker/bootstrap.py:194`), may take a package away behind it. A PASS is worth what it says only
  where no such script is at work.
- Bootstrap looks for ffmpeg on its script's PATH and installs Whisper into its own environment; the
  doctor asks the login shell's PATH and `--whisper-python`, by default the system's
  (`cli/main.py:244`). The two properties tell these apart (`Equipment`, `FindsWhisper`), and PASS of
  one command does not imply PASS of the other.
- With `Gate = FALSE` in `MCRollout.cfg`, `OutputsOnShare` fails: registration looks at the path on
  the Controller's machine, so a worker without the mount registers (`src/plan.md:667`).
  `doctor worker` with a marker value is what finds it, and `rollout` shows that this is
  enough while mounts stay (`MayUnmount = FALSE`).

### Fairness

`FairGroveSpec` assumes that the operator starts every process once and that one that is up goes on
(`WF GoesOn`: it is an operating-system process in a loop; no dead one need ever be started
again), that a handler in progress ends (`WF ControllerStep`: uvicorn's thread pool schedules it and SQLite grants its lock), that
a request gets a thread in its turn (`SF Send`: the pool is shared, so it may be taken
away again and again), and that a node whose heartbeats are handled infinitely often
is infinitely often healthy while they are (`SF HealthyHeartbeat`: a node that is never
within the scheduler's limits never gets work, by design). Nothing is assumed of faults,
restarts of processes, submission, expiry or recovery. That somebody is there to claim is not
fairness but a hypothesis of the property: `AssignmentsPickedUp` is about nodes of which one
process lives on from some time on.

`Pipeline` assumes that a worker that is not killed takes its next step
(`WF Step(a)`), `ToolExecutor` the same of the caller's thread (`WF ExecuteStep(c)`), and
`Doctor` of the operator's process (`WF CommandStep`). None of them assumes that a tool, or
a machine at the other end, ever answers: `"hung"` and `stuck` can be left by the time-out
only, and a mutant without the time-out breaks each liveness property.

## 4. Proofs

The safety invariants, safety action properties and refinements that the passing runs check are also
theorems, for all values of the constants that meet the hypotheses below; `SubtitlesReadable` has none
of its own, since it is the two facts `TimestampsAreExact` and `CuesInOrder` about the operators.
The theorems a reader should know of are listed in `PROJECT.json` under `theorems`. Their
assumptions are the named `ASSUME`s of the modules, which the runs evaluate, and, where a
theorem says so, a hypothesis on the constants.

| Theorems about | Any | Assumptions and hypotheses |
|---|---|---|
| Controller | jobs, nodes, handlers, faults, retries, with or without recovery | `NoNode`, `NoJob` are none of them; `MaxRetries`, `MaxEpoch` naturals |
| Grove | processes and their nodes besides | `~RecoveryLoop` for `ExecutionProtected`; `Calm` for `JobAgreesWithStep` |
| Scheduler | node table, queue, kinds, constraints, limits, priorities, bodies | ids are naturals; the node table is finite; `Plain` for the ledger |
| Pipeline | number of attempts and of orphans next to them, choice of pipelines, requests | `~Overlap` (one worker at a time), but not for types |
| Subtitles | natural times, transcripts of any length | |
| Configuration, Dispatch | keys, integers, lists of any length; node tables | keys are finitely many; a Controller that serves |
| ToolExecutor | calls, steps, tools | `DistinctCalls` |
| Doctor, Rollout | machines, targets, sources, marker options, jobs | at least one target; `Disciplined` for `OutputsOnShare` |

None of the invariants is inductive by itself; what follows is what each proof adds and why.
The inductive invariants were checked by TLC, too, on the instances of section 3.

**Controller** (`Controller_proofs`). That an acknowledged report stands needs to
know that the row of a step with an outcome never changes; that the job's outcome is
justified needs to know what the handler that writes it committed one transaction
earlier. `IInv` says, beside `TypeOK`:

- `StepInv`: a step exists exactly when its job does; its lease is counted by
  `claimed_at`; its output and its retries follow its status;
- `JobInv`: an outcome of the job is that of the step;
- `HandlerInv`: between the two transactions of a report the step is there, a committed
  outcome stands (`Stands`), and the draft of the job carries it.

`NextIInv` proves `IInv /\ [Next]_vars => IInv' /\ Evolves`, one lemma per action;
`Evolves` (no outcome is undone, no row removed) is what the frame lemmas for the other
handlers rest on.

**Controller implements StepLedger** (`Ledger_proofs`). Each transaction on the step table is
one event of the ledger or a stutter: `CreateJob` is `Submit`, the scheduling pass of a
heartbeat `GiveWaiting`, `ClaimUpdate` `Lease`, `StepUpdate` of a report `Begin`, `Settle` or a
stutter, recovery `Revoke`; everything else leaves the table alone (`StepsMoveTable`). One lemma
per event maps what the transaction does to a row to what happens to its entry; `IInv` gives the guards.

**Grove** (`Grove_proofs`). On top of the Controller's `IInv`, `GInv` follows a lease on its
way: it is with the `claim_next` handler that got it or with the process it was returned to
(`LeaseInv`, `HolderInv`), a process and the handler of its request know each other until one
gives up (`LinkInv`, `SentInv`), reports on a job come only from its holder (`ReportInv`), and
the pipeline runs between the acknowledged start and the report of its outcome (`RunsInv`).
From it follow `PipelineRunsOnce`, `OneHolder` and `CompletedJobFinal` (with `FullInv`)
under every fault, recovery included. `ExecutionProtected` needs `~RecoveryLoop`, since
recovery takes running steps away, which is what it is for (`RowInv`). `JobAgreesWithStep`
needs `Calm`: no time-outs, storage errors, restarts or recovery. Processes may still die. Without
that it is false, as `grove_timeout` and the first divergence show; `CalmInv` says that there
is then only one report of a job, whose second transaction nothing overtakes. GroveSpec
implements StepLedger too: its clients are some of those Controller has.

**Scheduler** (`Scheduler_proofs`). `CountsCover` compares a row with its last report, but a
heartbeat works from a copy it loaded long before. `BeatInv`: while a heartbeat waits for the
lock, other passes only raise its row's counts over that copy, so that a column its UPDATE
leaves out is no smaller. `PassInv`: the Session's own copy covers what the pass gave its node.
`PassedOver` turns the end of a pass into a fact about each step of it; it is kept because
every assignment makes nodes only busier (`Busier`), and a busier node is not eligible where it
was not before. That `select_node_for_step` finds a node at all, and the cheapest, is a lemma
(`Selected` is a CHOOSE over a finite table).

The proof attempt corrected the model here: `NoCheaperNode` used to speak of all steps of a
pass, which is false for tables larger than the instance that was checked (a later step of
another kind raises the count that the cost of a pipeline step looks at). It now says what the code keeps, about
the last step to raise that count (`LastOfItsCount`). And `TablesAssumption` now asks that the
node table be finite, which a database's is.

**Scheduler implements StepLedger** (`PlainStepsKeepLedger`). Controller takes the scheduling pass
as one event that gives every waiting step to some node or gives none; this is why it may. A
pass in detail gives one step at a time, and `LedgerView` shows none of it before the commit
(`EndPass`), which then is `GiveWaiting`, while a new row is `Submit`. That the commit gives *all*
that waited is `AllOrNone`: while some node is open, a pass has given every step it came to, and
else none. It is inductive for `Plain` steps only: any node that is open takes them (`OpenTakesAll`),
and what it has been given does not close it (`StaysOpen`). With limits or
constraints it is false, and what the pass keeps is `NoStepLeftBehind`.

**Pipeline** (`Pipeline_proofs`). Directories outlive attempts, so at a verdict every file must be
traced to the stage of this attempt that wrote it, and orphans of earlier workers write there
meanwhile. Two facts separate what they can reach from what they cannot. Tools write their own products
only, and no product is an output: outputs are written from memory, so what `Behind` a stage has been
published is what the attempt holds, whoever made it (`Carried`, `Sound`). And what came under a tool's
name is the attempt's own as long as it is not `misled`: `Left(a, stage)` says what a stage has left
behind, `Past(a)` that all stages before the present one have. `Needs` and `Follows` are the order of
the three lists of stages: each stage comes after those whose files it reads. The gate is weaker than it
looks, since it asks for non-empty files only: for an attempt that is not misled, a non-empty `audio.wav`
is whole because ffmpeg ended with 0 in it, and the logs are its own because ffprobe's output is in both
them and `input_meta.json` (`Measured`).

`IInv` is `TypeInv`, `InTurn` (one worker at a time, next to the tools of killed ones; this is where
`~Overlap` is used), `HasLast` (the attempts begin in order), `Given` (what an attempt is started with)
and `Own(a)` for each attempt: `Past` and `Carried` at work, `Fresh` once it completed as the latest.
`StepOwn` is about the attempt that moves, `OwnNextTo` about those an orphan writes next to. From it also
follows `NothingPublishedLate`: no tool of a killed worker ever reaches what a completed attempt
published. It is the part of criterion 21 of the plan that the code meets; with two workers at once it is
false (section 3). Today nothing starts a second attempt before the worker of the first one has ended, as
nothing calls `recover_timed_out_step`.

**Pipeline implements Publication** (`PipelineKeepsPromise`). The first stage of an attempt is
`Begin`, the verdict of one that completes is `Publish`, a step that misleads the latest attempt is
`Stray`, and every other step of stages, tools, time-outs, kills and orphans is a stutter: before the
verdict `Completed` is false and `AuthorOf` hides the directories, and after it no orphan reaches an output
(`PromiseOrphan`). At the verdict, `IInv'` gives `Fresh`: each output is whole and of one attempt's media,
this one's if it was not misled, and `SameJob` (all attempts have the job's request) makes these the
outputs a reader waits for. It uses `~Overlap` as above.

**ToolExecutor** (`ToolExecutor_proofs`). `TypeOK`
with `Progress(c)` for each call: at each program counter, what is known of its tool, its
exit code, its error flag and the logs it has written so far. It rests on the assumption
`DistinctCalls` (a step calls a tool once), without which two calls write the same files;
`LogsApart` is the lemma that turns it into disjoint names.

**Subtitles** (at the end of `Pipeline_proofs`). `TimestampsExact` and `OrderKept`, and with them
`SubtitlesReadable` of Pipeline, are facts about the operators: `Round` is monotone and within
five tenths, the fields of a timestamp are the digits of one number in a mixed radix
(three divisions), and the order of such digits is the order of the numbers. That Whisper's segments
are in order in the first place is the hypothesis of `OrderKept`; nothing checks it.

**Doctor and Rollout** (`Rollout_proofs`). A script that is past a stage on a machine has its effect, and
this lasts until something takes it away: a later script's stage that fails there, which ends that command
for the target, or an orphan's, which `harmed` notes (`Noted`). Each step moves one machine at most
(`Moves`, `OthersNoted`). `ScriptsInv` says so for the command and for targets that have passed; `OrphanInv`
says of orphans only that they came past the layout, which nothing takes away; `ChecksInv` is the same
for the checks of the preflight (`Sound`). Bootstrap installs
behind `set -e`, so `NoVenvWithoutLayout` needs to know of an orphan at `venv` that it came past `layout`.
`OutputsOnShare` needs `Disciplined`: workers start behind a doctor that compared a marker's
value, and mounts stay. Without the doctor it is false (section 3, Divergences).

**Configuration and Dispatch** (`Configuration_proofs`). The parser is a fold over a list, and
what a fold computes would be an induction over data, for which no prover is there. The proof does
without: `FoldLeft` applies a function on sets of places that is chosen by its defining equation. A
function that satisfies it is written down (`Result`: what a parsing of the entries at these places
returns), so the chosen one satisfies it too, and the first entry up to which both would differ
is one turn (`OneTurn`) from entries up to which they agree. `ParseIs` is what comes out of it: the loop raises
exactly for a list with a bad entry, and else has the last value of each key. `ParseFormat`, that a formatted
dictionary is parsed back, holds because a formatted list names each key once (`KeysOnce`); with
it the two parsings of `ControllerStart` are one (`Starts`), and `PrioritiesAlwaysArrive` follows from
`DispatchAssumption`.

Only model-checked: liveness and deadlock, as fairness and ENABLED are out of the
prover's reach (`JobsFinish`, `AssignmentsPickedUp`, `AttemptEnds`, `ExecuteReturns`,
`CommandEnds`).

## 5. Abstractions

- Times are kept as "the last heartbeat is recent" and "claimed_at is set"; texts,
  plans and paths are left out. A plan row is written once, with its job, and never read.
- `claim_next`'s order by `assigned_at` is a free choice of a claimable row.
- In Controller a node's metrics are one bit, healthy or not; Scheduler has them all.
- Scheduler: costs are exact hundredths (the code's are floats); a node has one heartbeat
  in progress, because its process waits for each answer; assigned steps do not return.
- `MaxEpoch` stops recovery, and bounds the epochs requests carry.
- Pipeline: a file's content is whose media it goes back to and whether it is absent, of no
  bytes, a part, without words, or whole; the sizes and the JSON inside are left out. A write
  opens the file and truncates it, so one cut short leaves the old file or a part of the new.
  Logs are one file. The transcripts of the deterministic pipeline are constants of the code
  and count as the attempt's own. A tool writes the product of its own stage and nothing else.
- ToolExecutor: an argument is one bit, whether it is given and resolves; the argv is left out.
- Doctor: a host has one orphaned script at a time (a bound). Tools and packages are there or
  not, for each place they are looked for; versions are left out. An environment in pieces may
  or may not do for the stage that uses it. Rollout: a worker's path has the Controller's spelling or not.
- Subtitles: times in tenths of a millisecond, so the code's floats are exact here.
- Configuration: an entry is a blank, a pair with any integer, or one of the two things that raise;
  text is left out. `Values` is the bound on the integers for TLC; the theorems need none.

## 6. Not modelled, and the plan

Done: every module of section 2, the runs of section 3 and the theorems of section 4.

Next, in this order:

1. Pipeline seen from Grove: an attempt as one `RunPipeline` whose outcome is Publication's.
2. The detailed scheduling composed with the Controller's handlers, so that assigned steps
   return and raise counts again in later heartbeats.
3. The doctor commands' promise to Rollout as an abstract specification, as Publication is for Pipeline.

Left out for good:

- key hashing and redaction (`shared/security.py`): library cryptography and a text filter,
  without state;
- the normalisation in `shared/paths.py`: it is pathlib's, and a model would have to assume it;
  ToolExecutor has its outcome;
- the `jobs`, `nodes` and `submit` commands: they parse options, make one request that Controller
  models, and print;
- the release scripts, which look at documents and packages;
- the read-only endpoints, which change nothing.
