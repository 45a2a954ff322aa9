------------------------------ MODULE Dispatch ------------------------------
(***************************************************************************)
(* The Controller that `controller start` has brought up: its scheduler    *)
(* (Scheduler) with the node priorities that came to it on the way that    *)
(* Configuration describes.                                                *)
(***************************************************************************)
EXTENDS Scheduler, Configuration

CONSTANTS
    Options,  \* the --node-priority options of `controller start`
    Shell,    \* the variable in the environment it was called with
    Key,      \* of a node: its id, as a key of the priorities
    Host      \* of a node: its host, likewise

\* The application was imported, and node_priority_bonus reads its dictionary.
ASSUME DispatchAssumption ==
    /\ Options \in Lists /\ Shell \in Lists
    /\ ControllerStart(Options, Shell).outcome = "serving"
    /\ Priority = [ n \in NodeIds |->
           PriorityOf(ControllerStart(Options, Shell).app.priorities, Key[n], Host[n]) ]

\* The value asked for k, as a set: nobody may have asked.
Asked(k) == LET list == InForce(Options, Shell) IN { list[i].value : i \in LastFor(k, list) }

AskedFor(n) ==
    IF Asked(Key[n]) # {} THEN Asked(Key[n])
    ELSE IF Asked(Host[n]) # {} THEN Asked(Host[n]) ELSE {0}

\* Whenever a pass decides, each node has the priority the operator asked for it,
\* and would have with any other lists in the options and in the environment when
\* `controller start` was called (run_controller and the application's import).
PrioritiesArrive ==
    ~Unlocked => /\ StartsAsAsked
                 /\ \A n \in NodeIds : AskedFor(n) = {Priority[n]}
=============================================================================
