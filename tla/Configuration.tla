---------------------------- MODULE Configuration ----------------------------
(***************************************************************************)
(* How the operator's node priorities reach the scheduler: the options of  *)
(* `controller start` and the shell's environment are parsed in            *)
(* cli/main.py, written into the environment of the process by             *)
(* cli/runtime.py run_controller, and parsed again by controller/main.py   *)
(* when uvicorn imports the application.                                   *)
(***************************************************************************)
EXTENDS Integers, Sequences, SequencesExt

CONSTANTS
    Keys,      \* node ids and hosts
    Values,    \* the integers an entry may have
    MaxLength  \* bound: entries of a list

ASSUME ConfigurationAssumption == IsFiniteSet(Keys) /\ Values \subseteq Int /\ MaxLength \in Nat

\* A list is what stands between its commas; << >> is the empty text. An entry
\* is blank, lacks its separator, has no integer, or is a pair.
Pair(k, v) == [kind |-> "pair", key |-> k, value |-> v]
Pairs == { Pair(k, v) : k \in Keys, v \in Values }
Entry == [ kind : {"blank", "no separator", "no integer"} ] \cup Pairs
Lists == UNION { [1 .. n -> Entry] : n \in 0 .. MaxLength }

\* parse_node_priorities raises, or returns a dictionary.
Bad == [error |-> TRUE]
Parsed(d) == [error |-> FALSE, priorities |-> d]

\* priorities[key] = value, whether the key is there or not.
SetItem(d, k, v) == [ x \in DOMAIN d \cup {k} |-> IF x = k THEN v ELSE d[x] ]

\* One turn of the loop: blanks are passed over, the last of a key's entries
\* holds, and anything but a key with a natural number raises.
Taken(d, e) ==
    IF d.error \/ e.kind = "blank" THEN d
    ELSE IF e.kind # "pair" \/ e.value < 0 THEN Bad
    ELSE Parsed(SetItem(d.priorities, e.key, e.value))

Parse(list) == FoldLeft(Taken, Parsed(<< >>), list)

Format(d) ==
    LET keys == SetToSeq(DOMAIN d)
    IN  [ i \in DOMAIN keys |-> Pair(keys[i], d[keys[i]]) ]
-----------------------------------------------------------------------------
\* _parse_node_priorities: the options if they are not empty, else the variable.
ParseOptions(options, environ) == Parse(IF options # << >> THEN options ELSE environ)

\* Mutant: the variable is left alone when there is nothing to set.
RunControllerKeeping(priorities, environ) ==
    IF priorities # << >> THEN Format(priorities) ELSE environ

\* run_controller sets the variable or removes it, whatever it was.
RunController(priorities, environ) ==
    IF priorities # << >> THEN Format(priorities) ELSE << >>

\* controller_start: a bad list ends it, else uvicorn imports the application,
\* whose module-level create_app parses the variable again.
ControllerStart(options, shell) ==
    LET config == ParseOptions(options, shell) IN
    IF config.error THEN [outcome |-> "refused", app |-> Bad]
    ELSE LET app == Parse(RunController(config.priorities, shell))
         IN  [outcome |-> IF app.error THEN "died" ELSE "serving", app |-> app]

\* node_priority_bonus: by the node's id, else by its host, else none.
PriorityOf(priorities, id, host) ==
    IF id \in DOMAIN priorities THEN priorities[id]
    ELSE IF host \in DOMAIN priorities THEN priorities[host] ELSE 0
-----------------------------------------------------------------------------
\* The list in force is the options', or, without any option, the variable's.
InForce(options, shell) == IF options # << >> THEN options ELSE shell

WellFormed(list) == \A i \in DOMAIN list :
    list[i].kind = "blank" \/ (list[i].kind = "pair" /\ list[i].value >= 0)

\* The place of the last pair for k, as a set.
LastFor(k, list) ==
    LET pairs == { i \in DOMAIN list : list[i].kind = "pair" /\ list[i].key = k }
    IN  { i \in pairs : \A j \in pairs : j <= i }

\* A Controller that serves schedules with the operator's priorities, through
\* two parsings and one formatting: a key has the value of its last entry in
\* the options, or, if no option was given at all, in the shell's variable;
\* nothing of a variable that the options override is left, even if they name
\* no key.  A list with a bad entry is refused at the command line, not when
\* the application is imported.
StartsAsAsked ==
    \A options, shell \in Lists :
        LET list  == InForce(options, shell)
            start == ControllerStart(options, shell)
            named == { k \in Keys : LastFor(k, list) # {} }
        IN  IF WellFormed(list)
            THEN /\ start.outcome = "serving"
                 /\ start.app = Parsed([ k \in named |->
                                list[CHOOSE i \in LastFor(k, list) : TRUE].value ])
            ELSE start.outcome = "refused"
=============================================================================
