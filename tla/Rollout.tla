------------------------------ MODULE Rollout ------------------------------
(***************************************************************************)
(* From the doctor's verdict to a job's files: workers are started on the  *)
(* machines of Doctor, register with the Controller, which compares shared *)
(* roots (shared/paths.py), and write a job's results under the shared     *)
(* root's path on their own machine.                                       *)
(***************************************************************************)
EXTENDS Doctor

CONSTANTS
    Jobs,
    Gate   \* workers are started only after `doctor worker` exited with 0

ASSUME GateAssumption == Gate \in BOOLEAN

VARIABLES
    node,   \* the Controller's view of each host: "unknown" or "online"
    job     \* the jobs, and where their results were written

rolloutVars == << vars, node, job >>

RolloutInit ==
    /\ Init
    /\ node = [h \in Hosts |-> "unknown"]
    /\ job = [j \in Jobs |-> [status |-> "queued", at |-> "nowhere"]]

\* validate_shared_root: the worker's path as the Controller's machine sees it.
ValidateSharedRoot(found, samePath) ==
    CASE found = "missing" -> "shared_root_missing"
      [] found = "file"    -> "shared_root_not_directory"
      [] ~samePath         -> "shared_root_mismatch"
      [] OTHER             -> "shared_root_ok"

\* `worker start` on host h: registration, a 422 ends the process.
StartWorker(h) ==
    /\ Gate => cmd.kind = "doctor" /\ cmd.exit = "0"
    /\ \E found \in { "missing", "file", "dir" }, samePath \in BOOLEAN :
         node' = [node EXCEPT ![h] = IF ValidateSharedRoot(found, samePath) = "shared_root_ok"
                                     THEN "online" ELSE @]
    /\ UNCHANGED << vars, job >>

\* The worker of h runs job j.  The mock pipeline makes the directories it
\* misses and does not open its input; the real one needs its input, the tools on
\* the worker's PATH and Whisper in the python of `worker start --python`.
RunJob(h, j, mode) ==
    LET x == host[h]
        can == IF mode = "real"
               THEN /\ x.mount /\ { "script tools", "login tools" } \cap x.has # {}
                    /\ "mlx_whisper" \in x.pip \/ "system whisper" \in x.has
               ELSE x.mount \/ x.dir \/ x.writable
    IN
    /\ node[h] = "online" /\ job[j].status = "queued"
    /\ \/ /\ can
          /\ job' = [job EXCEPT ![j] = [status |-> "completed",
                                        at |-> IF x.mount THEN "share" ELSE "local disk"]]
          /\ host' = IF x.mount THEN host ELSE [host EXCEPT ![h].dir = TRUE]
       \/ job' = [job EXCEPT ![j].status = "failed"] /\ UNCHANGED host
    /\ UNCHANGED << cmd, orphan, layout, seen, harmed, node >>

RolloutNext ==
    \/ Next /\ UNCHANGED << node, job >>
    \/ \E h \in Hosts : StartWorker(h)
    \/ \E h \in Hosts, j \in Jobs, mode \in { "deterministic", "real" } : RunJob(h, j, mode)

\* The operator's process goes on, as in Doctor.
RolloutSpec ==
    /\ RolloutInit /\ [][RolloutNext]_rolloutVars
    /\ WF_rolloutVars(CommandStep /\ UNCHANGED << node, job >>)

\* plan.md, storage rules 7 and 9: what a completed job leaves lies on storage
\* all machines share, not under the same path on the disk of the worker.
OutputsOnShare == \A j \in Jobs : job[j].status = "completed" => job[j].at = "share"
=============================================================================
