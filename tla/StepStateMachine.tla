-------------------------- MODULE StepStateMachine --------------------------
(***************************************************************************)
(* The Step row and the functions that move it                             *)
(* (controller/runtime/state_machine.py, controller/db/models.py,          *)
(* shared/enums.py).  Everything here is a pure operator on one row: the   *)
(* modules that EXTEND this one decide when a row is read and written.     *)
(*                                                                         *)
(* Columns no decision reads are left out: ids, the timestamps other than  *)
(* claimed_at (kept as "is it set"), input_json and the message texts.     *)
(***************************************************************************)
EXTENDS Integers

CONSTANTS
    Nodes,       \* the node ids a worker process may present
    NoNode,      \* assigned_node_id = None
    MaxRetries   \* Step.max_retries

ASSUME NodesAssumption == NoNode \notin Nodes
ASSUME RetriesAssumption == MaxRetries \in Nat

StepStatus ==
    { "pending", "queued", "assigned", "running",
      "completed", "failed", "cancelled", "skipped" }

\* output_json, by what its last writer put there.
Output == { "none", "progress", "result" }

\* "absent" is the status of a row that was never inserted.
StepRow ==
    [ status  : StepStatus \cup {"absent"},
      node    : Nodes \cup {NoNode},   \* assigned_node_id
      claimed : BOOLEAN,               \* claimed_at is not None
      epoch   : Nat,                   \* assignment_epoch
      retries : Nat,                   \* retry_count
      output  : Output ]

FreshStep(status) ==
    [ status |-> status, node |-> NoNode, claimed |-> FALSE,
      epoch |-> 0, retries |-> 0, output |-> "none" ]

LegalStepTransitions ==
    [ pending   |-> {"queued", "skipped", "cancelled"},
      queued    |-> {"assigned", "cancelled"},
      assigned  |-> {"running", "queued", "failed", "cancelled"},
      running   |-> {"completed", "failed", "cancelled"},
      failed    |-> {"queued"},
      skipped   |-> {},
      cancelled |-> {},
      completed |-> {} ]

\* transition_step raises TransitionError exactly when this is false.
CanTransition(s, target) == target \in LegalStepTransitions[s.status]

\* validate_assignment_epoch raises TransitionError exactly when this is false.
EpochMatches(s, epoch) == s.epoch = epoch

AssignStep(s, n) ==
    [s EXCEPT !.status = "assigned", !.node = n, !.epoch = @ + 1]

\* recover_timed_out_step raises TransitionError exactly when this is false.
Recoverable(s) == s.status \in {"assigned", "running"}

\* Mutant: the retry limit is compared before the attempt is counted.
RecoverTimedOutStepLate(s) ==
    [s EXCEPT !.node = NoNode, !.epoch = @ + 1,
              !.retries = IF s.status = "running" THEN @ + 1 ELSE @,
              !.status = IF s.status = "assigned" \/ s.retries <= MaxRetries
                         THEN "queued" ELSE "failed"]

\* The intermediate "failed" of a running step is not stored: the function
\* returns before anybody commits the row.
RecoverTimedOutStep(s) ==
    LET released == [s EXCEPT !.node = NoNode, !.epoch = @ + 1]
        retried  == [released EXCEPT !.retries = @ + 1]
    IN  IF s.status = "assigned"
        THEN [released EXCEPT !.status = "queued"]
        ELSE [retried EXCEPT !.status =
                IF s.retries + 1 <= MaxRetries THEN "queued" ELSE "failed"]

Active == {"assigned", "running"}
Terminal == {"completed", "failed", "cancelled", "skipped"}
=============================================================================
