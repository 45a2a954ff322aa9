----------------------------- MODULE Scheduler -----------------------------
(***************************************************************************)
(* The scheduling pass that a heartbeat runs (controller/scheduler/, and   *)
(* heartbeat_node and schedule_queued_steps of controller/main.py), with   *)
(* the policy and the cost that Controller.tla leaves out.                 *)
(*                                                                         *)
(* heartbeat_node loads its node's row before it holds SQLite's write      *)
(* lock; its first UPDATE takes the lock, and the pass runs under it.  So  *)
(* another heartbeat's pass may fall between the two, and the ORM writes   *)
(* only the columns whose new value differs from the one loaded.           *)
(*                                                                         *)
(* Bounds: a node has one heartbeat in progress (its worker waits for the  *)
(* answer of each), and a step once assigned does not come back.           *)
(* create_job makes only steps of kind "pipeline"; the other kinds are     *)
(* those the tests of the scheduler pass in.                               *)
(***************************************************************************)
EXTENDS Integers, FiniteSets

CONSTANTS
    NodeIds,      \* ids in their order as strings: positive integers
    StepIds,      \* likewise
    Kind,         \* of a step: "whisper", "ffmpeg" or "pipeline", by its tool_name
    Avoid,        \* of a step: constraints.avoid_nodes
    Minutes,      \* of a step: estimated_runtime_minutes
    MaxWhisper,   \* of a node: max_whisper_jobs
    MaxFfmpeg,    \* of a node: max_ffmpeg_jobs
    Priority,     \* of a node: node_priority_bonus (see Configuration)
    SameRoot,     \* the nodes registered with the Controller's shared root
    Bodies        \* the metrics a heartbeat may carry

NoNode == 0

ASSUME NodeIdsAssumption == NodeIds \subseteq Nat \ {NoNode}
ASSUME StepIdsAssumption == StepIds \subseteq Nat

VARIABLES
    row,       \* the node table: metrics, and whether the last heartbeat is recent
    queued,    \* the steps in status queued
    assigned,  \* of a step: assigned_node_id
    beat,      \* of a node: its heartbeat in progress, loaded and waiting for the lock
    pass,      \* the heartbeat that holds the lock, and its pass
    reported,  \* history: of a node, the metrics of its last heartbeat
    since      \* history: of a node, the steps given to it since then

vars == << row, queued, assigned, beat, pass, reported, since >>
-----------------------------------------------------------------------------
Kinds    == { "whisper", "ffmpeg", "pipeline" }
Thermals == { "unknown", "normal", "fair", "serious", "critical" }

Metrics ==
    [ cpu : 0 .. 100, memory : 0 .. 100, disk : Nat, thermal : Thermals,
      battery : BOOLEAN, jobs : Nat, ffmpeg : Nat, whisper : Nat ]

\* A registered node that has sent no heartbeat yet.
FreshMetrics ==
    [ cpu |-> 0, memory |-> 0, disk |-> 0, thermal |-> "unknown",
      battery |-> FALSE, jobs |-> 0, ffmpeg |-> 0, whisper |-> 0 ]

\* The columns of the node table and of the step's constraints: the limits and
\* the priorities are integers, also ones that make no sense.
ASSUME TablesAssumption ==
    /\ IsFiniteSet(NodeIds)
    /\ Kind \in [StepIds -> Kinds]
    /\ MaxWhisper \in [NodeIds -> Int] /\ MaxFfmpeg \in [NodeIds -> Int]
    /\ Priority \in [NodeIds -> Int]
    /\ Bodies \subseteq Metrics

NoBeat == [ waiting |-> FALSE, body |-> FreshMetrics, loaded |-> FreshMetrics ]
NoPass == [ node |-> NoNode, mine |-> FreshMetrics, todo |-> {}, gave |-> {} ]

TypeOK ==
    /\ row \in [NodeIds -> [fresh : BOOLEAN, metrics : Metrics]]
    /\ queued \subseteq StepIds
    /\ assigned \in [StepIds -> NodeIds \cup {NoNode}]
    /\ beat \in [NodeIds -> [waiting : BOOLEAN, body : Metrics, loaded : Metrics]]
    /\ pass \in [ node : NodeIds \cup {NoNode}, mine : Metrics,
                  todo : SUBSET queued, gave : SUBSET (StepIds \ queued) ]
    /\ reported \in [NodeIds -> Metrics]
    /\ since \in [NodeIds -> SUBSET StepIds]

Init ==
    /\ row = [n \in NodeIds |-> [fresh |-> FALSE, metrics |-> FreshMetrics]]
    /\ queued = {}
    /\ assigned = [s \in StepIds |-> NoNode]
    /\ beat = [n \in NodeIds |-> NoBeat]
    /\ pass = NoPass
    /\ reported = [n \in NodeIds |-> FreshMetrics]
    /\ since = [n \in NodeIds |-> {}]
-----------------------------------------------------------------------------
(***************************************************************************)
(* Policy and cost, on a node as the session of the pass sees it.          *)
(***************************************************************************)
\* The counts assign_best_node raises for a step, and so those it is limited by.
CountsOf(kind) == {"jobs"} \cup (IF kind = "pipeline" THEN {} ELSE {kind})

\* same_type_active_jobs
SameType(kind) == IF kind = "pipeline" THEN "jobs" ELSE kind

Limit(n, kind) == IF kind = "whisper" THEN MaxWhisper[n] ELSE MaxFfmpeg[n]

\* SchedulerConfig's defaults, the only ones the Controller uses.
Healthy(m) ==
    /\ m.cpu <= 85 /\ m.memory <= 85 /\ m.disk >= 20
    /\ m.thermal \notin {"serious", "critical"}

\* Mutant: a full node is still offered one more step.
EligibleOneMore(s, n, m) ==
    /\ n \in SameRoot /\ Healthy(m) /\ n \notin Avoid[s]
    /\ m.battery => Minutes[s] <= 20
    /\ Kind[s] # "pipeline" => m[Kind[s]] <= Limit(n, Kind[s])

\* is_node_eligible, but for the age of the heartbeat.
Eligible(s, n, m) ==
    /\ n \in SameRoot /\ Healthy(m) /\ n \notin Avoid[s]
    /\ m.battery => Minutes[s] <= 20
    /\ Kind[s] # "pipeline" => m[Kind[s]] < Limit(n, Kind[s])

ThermalPenalty ==
    [ normal |-> 0, fair |-> 20, serious |-> 100, critical |-> 100, unknown |-> 10 ]

\* calculate_node_cost, in hundredths.
Cost(kind, n, m) ==
    30 * m.cpu + 20 * m.memory + 15 * m[SameType(kind)]
      + 10 * ThermalPenalty[m.thermal] - 100 * Priority[n]

\* The pass sees the other nodes as their rows are, and its own as the
\* heartbeat set it: the Session holds that object since before the lock.
View(n) == IF n = pass.node THEN pass.mine ELSE row[n].metrics

Candidates(s) == { n \in NodeIds : row[n].fresh /\ Eligible(s, n, View(n)) }

\* Mutant: candidates are sorted by id before cost.
SelectedFirst(s) == CHOOSE n \in Candidates(s) : \A m \in Candidates(s) : n <= m

\* select_node_for_step: the cheapest, and of equally cheap ones the first by id.
Selected(s) ==
    CHOOSE n \in Candidates(s) : \A m \in Candidates(s) :
        LET cn == Cost(Kind[s], n, View(n))
            cm == Cost(Kind[s], m, View(m))
        IN  cn < cm \/ (cn = cm /\ n <= m)
-----------------------------------------------------------------------------
(***************************************************************************)
(* Actions.  Nothing else is enabled during a pass: writers wait for the   *)
(* lock, and readers see the rows as they were when the pass began.        *)
(***************************************************************************)
Unlocked == pass.node = NoNode

\* create_job
Submit(s) ==
    /\ Unlocked /\ s \notin queued /\ assigned[s] = NoNode
    /\ queued' = queued \cup {s}
    /\ UNCHANGED << row, assigned, beat, pass, reported, since >>

\* More than heartbeat_timeout_seconds pass.
Expire(n) ==
    /\ Unlocked /\ row[n].fresh
    /\ row' = [row EXCEPT ![n].fresh = FALSE]
    /\ UNCHANGED << queued, assigned, beat, pass, reported, since >>

\* heartbeat_node reads the row and sets the new metrics in its Session.
Load(n, body) ==
    /\ Unlocked /\ ~beat[n].waiting
    /\ beat' = [beat EXCEPT ![n] =
                  [waiting |-> TRUE, body |-> body, loaded |-> row[n].metrics]]
    /\ UNCHANGED << row, queued, assigned, pass, reported, since >>

\* Mutant: the UPDATE never writes the counts.
FlushedWithoutCounts(n) ==
    LET b == beat[n] IN
    [f \in DOMAIN b.body |-> IF f \in {"jobs", "whisper", "ffmpeg"} THEN row[n].metrics[f]
                                                                    ELSE b.body[f]]

\* The row after the heartbeat's UPDATE: only the columns that differ from the
\* values loaded are written.
Flushed(n) ==
    LET b == beat[n] IN
    [f \in DOMAIN b.body |-> IF b.body[f] # b.loaded[f] THEN b.body[f]
                                                        ELSE row[n].metrics[f]]

\* The flush that the query for the queue triggers; then the queue is read.
BeginPass(n) ==
    /\ Unlocked /\ beat[n].waiting
    /\ row' = [row EXCEPT ![n] = [fresh |-> TRUE, metrics |-> Flushed(n)]]
    /\ pass' = [node |-> n, mine |-> beat[n].body, todo |-> queued, gave |-> {}]
    /\ beat' = [beat EXCEPT ![n] = NoBeat]
    /\ reported' = [reported EXCEPT ![n] = beat[n].body]
    /\ since' = [since EXCEPT ![n] = {}]
    /\ UNCHANGED << queued, assigned >>

\* m with the counts of one more step of this kind.
Raised(m, kind) == [f \in DOMAIN m |-> IF f \in CountsOf(kind) THEN m[f] + 1 ELSE m[f]]

\* Mutant: the pass ends at the first step no node takes.
PassOverStopping(s) ==
    /\ Candidates(s) = {}
    /\ pass' = [pass EXCEPT !.todo = {}]
    /\ UNCHANGED << row, queued, assigned, since >>

\* assign_best_node finds no eligible node: the step stays queued.
PassOver(s) ==
    /\ Candidates(s) = {}
    /\ pass' = [pass EXCEPT !.todo = @ \ {s}]
    /\ UNCHANGED << row, queued, assigned, since >>

\* Mutant: the step keeps its status.
AssignStepQueued(s, n) == assigned' = [assigned EXCEPT ![s] = n] /\ UNCHANGED queued

AssignStep(s, n) == assigned' = [assigned EXCEPT ![s] = n] /\ queued' = queued \ {s}

\* assign_best_node assigns the step and raises the node's counts; the UPDATE
\* writes the raised columns as the Session sees them.
Give(s) ==
    LET n == Selected(s)
        m == Raised(View(n), Kind[s])
    IN  /\ Candidates(s) # {}
        /\ AssignStep(s, n)
        /\ since' = [since EXCEPT ![n] = @ \cup {s}]
        /\ row' = [row EXCEPT ![n].metrics =
                     [f \in DOMAIN @ |-> IF f \in CountsOf(Kind[s]) THEN m[f] ELSE @[f]]]
        /\ pass' = [pass EXCEPT !.mine = IF n = pass.node THEN m ELSE @,
                                !.todo = @ \ {s}, !.gave = @ \cup {s}]

\* The next step of the queue, in the order of the ids.
AssignBestNode ==
    /\ \E s \in pass.todo :
         /\ \A u \in pass.todo : s <= u
         /\ PassOver(s) \/ Give(s)
    /\ UNCHANGED << beat, reported >>

\* The commit.
EndPass ==
    /\ ~Unlocked /\ pass.todo = {}
    /\ pass' = NoPass
    /\ UNCHANGED << row, queued, assigned, beat, reported, since >>

Next ==
    \/ \E s \in StepIds : Submit(s)
    \/ \E n \in NodeIds : Expire(n) \/ BeginPass(n)
    \/ \E n \in NodeIds, body \in Bodies : Load(n, body)
    \/ AssignBestNode \/ EndPass

Spec == Init /\ [][Next]_vars
-----------------------------------------------------------------------------
\* The steps given to n since its last heartbeat that count as f.
Given(n, f) == Cardinality({ s \in since[n] : f \in CountsOf(Kind[s]) })

\* A node's row never shows fewer active jobs than its last heartbeat reported
\* plus what passes gave it since, whichever heartbeats overlap: the counts the
\* next pass decides on are never too low (assign_best_node's increments against
\* the heartbeat's write of a row loaded earlier).
CountsCover ==
    \A n \in NodeIds, f \in {"jobs", "whisper", "ffmpeg"} :
        row[n].metrics[f] >= reported[n][f] + Given(n, f)

\* Between two heartbeats of a node no sequence of passes gives it more whisper
\* or ffmpeg steps than its limit leaves room for over what it reported.  The
\* next heartbeat replaces the counts, and the count starts anew with it.
LimitsHold ==
    \A n \in NodeIds, kind \in {"whisper", "ffmpeg"} :
        Given(n, kind) > 0 => reported[n][kind] + Given(n, kind) <= Limit(n, kind)

\* When a pass ends, no node could take any step it left queued: a step is not
\* starved by the steps that came before or after it in the queue.
NoStepLeftBehind ==
    ~Unlocked /\ pass.todo = {} => \A s \in queued : Candidates(s) = {}

\* No later step of the pass raised the count that the cost of s looks at on
\* the node that got s: for a whisper step a later whisper step does, for a
\* pipeline step any.
LastOfItsCount(s) ==
    \A u \in pass.gave :
        u > s /\ assigned[u] = assigned[s] => SameType(Kind[s]) \notin CountsOf(Kind[u])

\* After every assignment of a pass: had the last step that a node got of a
\* kind gone to another node that could still take it, it would not have been
\* cheaper there, whatever was given to whom before and after it.
NoCheaperNode ==
    \A s \in pass.gave : LastOfItsCount(s) =>
        \A n \in Candidates(s) :
            Cost(Kind[s], assigned[s], View(assigned[s])) - 15 <= Cost(Kind[s], n, View(n))
-----------------------------------------------------------------------------
\* The steps that create_job makes: no constraints, no estimate, no special tool.
Plain ==
    \A s \in StepIds : Kind[s] = "pipeline" /\ Avoid[s] = {} /\ Minutes[s] <= 20

\* Where a step is for the others: what a pass gives counts from its commit.
Holder(s) == IF s \in pass.gave THEN NoNode ELSE assigned[s]

\* The steps as the entries of StepLedger, of which this is the giving.
LedgerView ==
    [ s \in StepIds |->
        [ state  |-> IF s \in queued \cup pass.gave THEN "waiting"
                     ELSE IF assigned[s] = NoNode THEN "none" ELSE "given",
          holder |-> Holder(s),
          epoch  |-> IF Holder(s) = NoNode THEN 0 ELSE 1,
          leased |-> FALSE ] ]

Ledger == INSTANCE StepLedger WITH Jobs <- StepIds, Nodes <- NodeIds, ledger <- LedgerView

\* For plain steps every pass gives all that wait or none, as StepLedger says and
\* Controller.tla takes for granted (ScheduleQueuedSteps there).
LedgerSpec == Ledger!Spec
=============================================================================
