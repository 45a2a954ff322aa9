---------------------------- MODULE ToolExecutor ----------------------------
(***************************************************************************)
(* worker/executor.py: ToolExecutor.execute over the default tools.  Calls *)
(* for different steps may be in progress at once and share a log          *)
(* directory; each call is one thread of control.                          *)
(***************************************************************************)
EXTENDS Integers

CONSTANTS
    Calls,    \* calls of execute
    StepOf,   \* context.step_id of each
    ToolOf,   \* tool_name of each
    NoCall    \* the writer of a log that is not there

DefaultTools == { "probe_media", "extract_audio", "transcribe_audio" }
Streams == { "stdout", "stderr" }

ASSUME CallsAssumption ==
    /\ NoCall \notin Calls
    /\ DOMAIN StepOf = Calls /\ DOMAIN ToolOf = Calls

\* A step calls a tool once: nothing in the executor keeps two such calls apart.
ASSUME DistinctCalls ==
    \A c, d \in Calls : StepOf[c] = StepOf[d] /\ ToolOf[c] = ToolOf[d] => c = d

VARIABLES
    call,   \* the calls
    log,    \* the log directory
    told    \* history: what became of the tool of each call

vars == << call, log, told >>
-----------------------------------------------------------------------------
\* Whether each argument is given and resolves: the input to a path under the
\* allowed roots that exists, the output to one under work or output directory,
\* the language to a string.
Args == [ input : BOOLEAN, output : BOOLEAN, language : BOOLEAN ]

\* "stdout" and "stderr" are the writes of _write_tool_logs.
Pc == { "new", "ready", "running", "hung", "returned", "raised" } \cup Streams
Call == [ pc : Pc, args : Args, exit : {0, 1, -1, -2}, errors : BOOLEAN,
          status : { "none", "completed", "failed" } ]

\* Mutant: the name has no step id.
LogNameShared(c, stream) == << ToolOf[c], stream >>

\* One file per step, tool and stream; a write may be cut short.
LogName(c, stream) == << StepOf[c], ToolOf[c], stream >>
LogPaths == { LogName(c, stream) : c \in Calls, stream \in Streams }

TypeOK ==
    /\ call \in [Calls -> Call]
    /\ log \in [LogPaths -> [ by : Calls \cup {NoCall}, whole : BOOLEAN ]]
    /\ told \in [Calls -> { "not started", "started", "exit 0", "exit 1", "killed" }]

Init ==
    /\ call \in [Calls -> [ pc : {"new"}, args : Args, exit : {0}, errors : {FALSE}, status : {"none"} ]]
    /\ log = [p \in LogPaths |-> [by |-> NoCall, whole |-> TRUE]]
    /\ told = [c \in Calls |-> "not started"]
-----------------------------------------------------------------------------
Goto(c, from, to) == call[c].pc = from /\ call' = [call EXCEPT ![c].pc = to]

\* The argv builders: _resolve_input or _resolve_intermediate, _resolve_output
\* or _resolve_output_dir, then the language; each raises.
Accepted(tool, args) ==
    /\ tool \in DefaultTools
    /\ args.input
    /\ tool # "probe_media" => args.output
    /\ tool = "transcribe_audio" => args.language

\* execute up to the run: the builder, and the log directory, which may fail.
Build(c) ==
    /\ \/ Accepted(ToolOf[c], call[c].args) /\ Goto(c, "new", "ready")
       \/ Goto(c, "new", "raised")
    /\ UNCHANGED << log, told >>

\* The runner: the tool starts, or there is no such program.
Run(c) ==
    \/ /\ Goto(c, "ready", "raised") /\ UNCHANGED << log, told >>
    \/ /\ Goto(c, "ready", "running") \/ Goto(c, "ready", "hung")
       /\ told' = [told EXCEPT ![c] = "started"]
       /\ UNCHANGED log

\* Mutant: a signal shows as 128 + its number, as in a shell.
ExitOfShell(c) ==
    /\ call[c].pc = "running"
    /\ \E code \in {0, 1, 129, 130} :
         /\ call' = [call EXCEPT ![c].pc = "stdout", ![c].exit = code]
         /\ told' = [told EXCEPT ![c] = IF code = 0 THEN "exit 0" ELSE "exit 1"]
    /\ UNCHANGED log

\* The tool ends by itself or by a signal: returncode is then minus its number,
\* for SIGHUP and SIGINT the very codes that execute gives a meaning of its own.
\* What it printed may not be text: the runner raises.
Exit(c) ==
    /\ call[c].pc = "running"
    /\ \E code \in {0, 1, -1, -2} :
         /\ \/ call' = [call EXCEPT ![c].pc = "stdout", ![c].exit = code]
            \/ call' = [call EXCEPT ![c].pc = "raised"]
         /\ told' = [told EXCEPT ![c] = IF code = 0 THEN "exit 0" ELSE "exit 1"]
    /\ UNCHANGED log

\* Mutant: the tool is waited for.
NoTimeout(c) == FALSE

\* Mutant: a time-out is told apart by its message only.
TimeoutAsExit(c) ==
    /\ call[c].pc \in { "running", "hung" }
    /\ call' = [call EXCEPT ![c].pc = "stdout"]
    /\ told' = [told EXCEPT ![c] = "killed"]
    /\ UNCHANGED log

\* TimeoutExpired: the tool is killed, what it printed so far is kept.
Timeout(c) ==
    /\ call[c].pc \in { "running", "hung" }
    /\ call' = [call EXCEPT ![c].pc = "stdout", ![c].exit = -1]
    /\ told' = [told EXCEPT ![c] = "killed"]
    /\ UNCHANGED log

\* The call after that write, with the log errors noted until then.  After the
\* second one execute decides: an error overrides the exit code, and the exit
\* code decides on the status.
Written(c, stream, errors) ==
    LET exit == IF stream = "stderr" /\ errors THEN -2 ELSE call[c].exit
    IN  IF stream = "stdout" THEN [call[c] EXCEPT !.pc = "stderr", !.errors = errors]
        ELSE [call[c] EXCEPT !.pc = "returned", !.errors = errors, !.exit = exit,
                             !.status = IF exit = 0 THEN "completed" ELSE "failed"]

\* One write of _write_tool_logs; an OSError is noted and the next is tried.  Text
\* that the locale cannot encode is no OSError: execute raises, the file is cut.
WriteLog(c, stream) ==
    LET path == LogName(c, stream)
        cut  == [log EXCEPT ![path] = [by |-> c, whole |-> FALSE]]
    IN
    /\ call[c].pc = stream
    /\ \/ /\ log' = [log EXCEPT ![path] = [by |-> c, whole |-> TRUE]]
          /\ call' = [call EXCEPT ![c] = Written(c, stream, call[c].errors)]
       \/ /\ log' \in { log, cut }
          /\ call' = [call EXCEPT ![c] = Written(c, stream, TRUE)]
       \/ log' = cut /\ call' = [call EXCEPT ![c].pc = "raised"]
    /\ UNCHANGED told

ExecuteStep(c) ==
    \/ Build(c) \/ Run(c) \/ Exit(c) \/ Timeout(c)
    \/ \E stream \in Streams : WriteLog(c, stream)

Next == \E c \in Calls : ExecuteStep(c)

\* The caller's thread goes on; that the tool ends is not assumed.
Spec == Init /\ [][Next]_vars /\ \A c \in Calls : WF_vars(ExecuteStep(c))
-----------------------------------------------------------------------------
OwnLogs(c) == \A stream \in Streams : log[LogName(c, stream)] = [by |-> c, whole |-> TRUE]

\* README: "Timeout output is captured and the Step should not be treated as
\* completed."  A completed result means that the tool ended by itself with 0,
\* and that both logs hold all that this call's tool printed.
CompletedMeansDone ==
    \A c \in Calls : call[c].status = "completed" => told[c] = "exit 0" /\ OwnLogs(c)

\* A result that does not speak of log errors has its own complete logs, also
\* when the tool failed or was killed and other steps log next to it.
ResultsHaveLogs ==
    \A c \in Calls : call[c].pc = "returned" /\ call[c].exit # -2 => OwnLogs(c)

\* execute comes back, with a result or an exception, whatever the tool does.
ExecuteReturns == \A c \in Calls : <>(call[c].pc \in { "returned", "raised" })
=============================================================================
