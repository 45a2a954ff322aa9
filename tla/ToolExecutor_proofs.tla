------------------------- MODULE ToolExecutor_proofs -------------------------
(***************************************************************************)
(* The safety properties of ToolExecutor, for any number of calls in       *)
(* progress at once, any steps and any tool names.                         *)
(***************************************************************************)
EXTENDS ToolExecutor, TLAPS

\* What is known of a call from where it is.  Before it returns it has no
\* status; its exit code is 0 only if its tool's was; and after each write that
\* was not noted as an error the file is its own.
Progress(c) ==
    LET k == call[c] IN
    /\ k.pc \in { "new", "ready" } => told[c] = "not started"
    /\ k.pc \in Streams \cup {"returned"} /\ k.exit = 0 => told[c] = "exit 0"
    /\ k.pc = "stderr" /\ ~k.errors => log[LogName(c, "stdout")] = [by |-> c, whole |-> TRUE]
    /\ k.pc = "returned" /\ ~k.errors => OwnLogs(c)
    /\ k.pc = "returned" /\ k.errors => k.exit = -2
    /\ k.status = "completed" => k.pc = "returned" /\ k.exit = 0

IInv == TypeOK /\ \A c \in Calls : Progress(c)
-----------------------------------------------------------------------------
\* The codes that execute gives to a time-out and to log errors are not 0.
LEMMA SpecialCodes == -1 # 0 /\ -2 # 0
OBVIOUS

\* Two calls share no log file.
LEMMA LogsApart ==
    ASSUME NEW c \in Calls, NEW d \in Calls, c # d, NEW s \in Streams, NEW r \in Streams
    PROVE  LogName(c, s) # LogName(d, r)
BY DistinctCalls DEF LogName

\* No call has begun.
LEMMA InitType == Init => TypeOK
<1> SUFFICES ASSUME Init PROVE TypeOK
  OBVIOUS
<1>1. call \in [Calls -> Call]
  BY DEF Init, Call, Pc
<1>2. log \in [LogPaths -> [ by : Calls \cup {NoCall}, whole : BOOLEAN ]]
  BY DEF Init
<1>3. told \in [Calls -> { "not started", "started", "exit 0", "exit 1", "killed" }]
  BY DEF Init
<1> QED
  BY <1>1, <1>2, <1>3 DEF TypeOK

\* A call at its next program counter keeps the types.
LEMMA GotoType ==
    ASSUME TypeOK, NEW c \in Calls, NEW from, NEW to \in Pc, Goto(c, from, to)
    PROVE  call' \in [Calls -> Call]
BY DEF Goto, TypeOK, Call

\* A log that is written is one of the logs.
LEMMA WrittenType ==
    ASSUME TypeOK, NEW c \in Calls, NEW s \in Streams, NEW e \in BOOLEAN
    PROVE  Written(c, s, e) \in Call
<1>1. call[c] \in Call
  BY DEF TypeOK
<1>2. CASE s = "stdout"
  BY <1>1, <1>2 DEF Written, Call, Pc, Streams
<1>3. CASE s = "stderr"
  BY <1>1, <1>3 DEF Written, Call, Pc
<1> QED
  BY <1>2, <1>3 DEF Streams

\* What a write may leave in the log directory.
LEMMA WriteLeaves ==
    ASSUME NEW c \in Calls, NEW s \in Streams, WriteLog(c, s)
    PROVE  \/ log' = log
           \/ \E whole \in BOOLEAN :
                log' = [log EXCEPT ![LogName(c, s)] = [by |-> c, whole |-> whole]]
BY DEF WriteLog

\* Every step keeps the types.
LEMMA NextType == TypeOK /\ [Next]_vars => TypeOK'
<1> SUFFICES ASSUME TypeOK, [Next]_vars PROVE TypeOK'
  OBVIOUS
<1>1. CASE UNCHANGED vars
  BY <1>1 DEF TypeOK, vars
<1>2. ASSUME NEW c \in Calls, Build(c) PROVE TypeOK'
  <2>1. "ready" \in Pc /\ "raised" \in Pc
    BY DEF Pc
  <2>2. call' \in [Calls -> Call]
    BY <1>2, <2>1, GotoType DEF Build
  <2> QED
    BY <1>2, <2>2 DEF Build, TypeOK
<1>3. ASSUME NEW c \in Calls, Run(c) PROVE TypeOK'
  <2>1. "raised" \in Pc /\ "running" \in Pc /\ "hung" \in Pc
    BY DEF Pc
  <2>2. call' \in [Calls -> Call]
    BY <1>3, <2>1, GotoType DEF Run
  <2> QED
    BY <1>3, <2>2 DEF Run, TypeOK
<1>4. ASSUME NEW c \in Calls, Exit(c) PROVE TypeOK'
  <2>1. PICK code \in {0, 1, -1, -2} :
           /\ \/ call' = [call EXCEPT ![c].pc = "stdout", ![c].exit = code]
              \/ call' = [call EXCEPT ![c].pc = "raised"]
           /\ told' = [told EXCEPT ![c] = IF code = 0 THEN "exit 0" ELSE "exit 1"]
    BY <1>4 DEF Exit
  <2>2. [call[c] EXCEPT !.pc = "stdout", !.exit = code] \in Call
    BY DEF TypeOK, Call, Pc, Streams
  <2>3. [call[c] EXCEPT !.pc = "raised"] \in Call
    BY DEF TypeOK, Call, Pc
  <2>4. call' \in [Calls -> Call]
    BY <2>1, <2>2, <2>3 DEF TypeOK
  <2> QED
    BY <1>4, <2>1, <2>4 DEF Exit, TypeOK
<1>5. ASSUME NEW c \in Calls, Timeout(c) PROVE TypeOK'
  <2>1. [call[c] EXCEPT !.pc = "stdout", !.exit = -1] \in Call
    BY DEF TypeOK, Call, Pc, Streams
  <2> QED
    BY <1>5, <2>1 DEF Timeout, TypeOK
<1>6. ASSUME NEW c \in Calls, NEW s \in Streams, WriteLog(c, s) PROVE TypeOK'
  <2>1. Written(c, s, call[c].errors) \in Call /\ Written(c, s, TRUE) \in Call
    BY WrittenType DEF TypeOK, Call
  <2>2. call' \in [Calls -> Call]
    <3>1. [call[c] EXCEPT !.pc = "raised"] \in Call
      BY DEF TypeOK, Call, Pc
    <3> QED
      BY <1>6, <2>1, <3>1 DEF WriteLog, TypeOK
  <2>3. log' \in [LogPaths -> [ by : Calls \cup {NoCall}, whole : BOOLEAN ]]
    <3>1. LogName(c, s) \in LogPaths
      BY DEF LogPaths
    <3>2. ASSUME NEW whole \in BOOLEAN
          PROVE  [log EXCEPT ![LogName(c, s)] = [by |-> c, whole |-> whole]]
                   \in [LogPaths -> [ by : Calls \cup {NoCall}, whole : BOOLEAN ]]
      BY <3>1 DEF TypeOK
    <3> QED
      <4>1. CASE log' = log
        BY <4>1 DEF TypeOK
      <4>2. ASSUME NEW whole \in BOOLEAN,
                   log' = [log EXCEPT ![LogName(c, s)] = [by |-> c, whole |-> whole]]
            PROVE  log' \in [LogPaths -> [ by : Calls \cup {NoCall}, whole : BOOLEAN ]]
        BY <3>2, <4>2
      <4> QED
        BY <1>6, <4>1, <4>2, WriteLeaves
  <2> QED
    BY <1>6, <2>2, <2>3 DEF WriteLog, TypeOK
<1> QED
  BY <1>1, <1>2, <1>3, <1>4, <1>5, <1>6 DEF Next, ExecuteStep
-----------------------------------------------------------------------------
\* Nothing is known of a call that has not begun.
LEMMA InitProgress == Init => \A c \in Calls : Progress(c)
BY DEF Init, Progress, Streams

\* A call keeps what is known of it while another one makes a step.
LEMMA OtherCall ==
    ASSUME TypeOK, NEW c \in Calls, NEW d \in Calls, c # d, ExecuteStep(d), Progress(c)
    PROVE  Progress(c)'
<1>1. call'[c] = call[c] /\ told'[c] = told[c]
  BY DEF ExecuteStep, Build, Run, Exit, Timeout, WriteLog, Goto, TypeOK
<1>2. \A s \in Streams : log'[LogName(c, s)] = log[LogName(c, s)]
  <2> SUFFICES ASSUME NEW s \in Streams PROVE log'[LogName(c, s)] = log[LogName(c, s)]
    OBVIOUS
  <2>1. ASSUME NEW r \in Streams, WriteLog(d, r) PROVE log'[LogName(c, s)] = log[LogName(c, s)]
    <3>1. LogName(c, s) # LogName(d, r)
      BY LogsApart
    <3>2. LogName(c, s) \in LogPaths
      BY DEF LogPaths
    <3> QED
      BY <2>1, <3>1, <3>2, WriteLeaves DEF TypeOK
  <2>2. (\E r \in Streams : WriteLog(d, r)) \/ UNCHANGED log
    BY DEF ExecuteStep, Build, Run, Exit, Timeout
  <2> QED
    BY <2>1, <2>2
<1> QED
  BY <1>1, <1>2 DEF Progress, OwnLogs, Streams

\* A step of the call itself, one case for each action.
LEMMA OwnStep ==
    ASSUME TypeOK, NEW c \in Calls, ExecuteStep(c), Progress(c)
    PROVE  Progress(c)'
<1>0. call[c] \in Call /\ c \in DOMAIN call /\ c \in DOMAIN told
  BY DEF TypeOK
<1>1. CASE Build(c)
  <2>1. \/ call'[c] = [call[c] EXCEPT !.pc = "ready"]
        \/ call'[c] = [call[c] EXCEPT !.pc = "raised"]
    BY <1>0, <1>1 DEF Build, Goto
  <2>2. call[c].pc = "new" /\ told'[c] = told[c]
    BY <1>1 DEF Build, Goto
  <2> QED
    BY <1>0, <2>1, <2>2 DEF Progress, Streams, Call
<1>2. CASE Run(c)
  <2>1. call[c].pc = "ready"
    BY <1>2 DEF Run, Goto
  <2>2. \/ call'[c] = [call[c] EXCEPT !.pc = "raised"] /\ told'[c] = told[c]
        \/ call'[c] = [call[c] EXCEPT !.pc = "running"] /\ told'[c] = "started"
        \/ call'[c] = [call[c] EXCEPT !.pc = "hung"] /\ told'[c] = "started"
    BY <1>0, <1>2 DEF Run, Goto
  <2> QED
    BY <1>0, <2>1, <2>2 DEF Progress, Streams, Call
<1>3. CASE Exit(c)
  <2>1. PICK code \in {0, 1, -1, -2} :
           /\ \/ call'[c] = [call[c] EXCEPT !.pc = "stdout", !.exit = code]
              \/ call'[c] = [call[c] EXCEPT !.pc = "raised"]
           /\ told'[c] = IF code = 0 THEN "exit 0" ELSE "exit 1"
    BY <1>0, <1>3 DEF Exit
  <2>2. call[c].pc = "running" /\ call[c].status # "completed"
    BY <1>3 DEF Exit, Progress
  <2>3. /\ (call'[c].pc = "stdout" /\ call'[c].exit = code) \/ call'[c].pc = "raised"
        /\ call'[c].args = call[c].args /\ call'[c].status = call[c].status
    BY <1>0, <2>1 DEF Call
  <2> QED
    BY <2>1, <2>2, <2>3 DEF Progress, Streams
<1>4. CASE Timeout(c)
  <2>1. call'[c] = [call[c] EXCEPT !.pc = "stdout", !.exit = -1] /\ told'[c] = "killed"
    BY <1>0, <1>4 DEF Timeout
  <2>2. call[c].pc \in { "running", "hung" }
    BY <1>4 DEF Timeout
  <2> QED
    BY <1>0, <2>1, <2>2, SpecialCodes DEF Progress, Streams, Call
<1>5. ASSUME NEW s \in Streams, WriteLog(c, s) PROVE Progress(c)'
  <2>1. LogName(c, s) \in LogPaths
    BY DEF LogPaths
  <2>2. call[c].pc = s /\ told'[c] = told[c]
    BY <1>5 DEF WriteLog
  <2>3. \/ /\ log'[LogName(c, s)] = [by |-> c, whole |-> TRUE]
           /\ call'[c] = Written(c, s, call[c].errors)
        \/ call'[c] = Written(c, s, TRUE)
        \/ call'[c] = [call[c] EXCEPT !.pc = "raised"]
    BY <1>0, <1>5, <2>1 DEF WriteLog, TypeOK
  <2>4. CASE call'[c] = [call[c] EXCEPT !.pc = "raised"]
    BY <1>0, <2>2, <2>4 DEF Progress, Streams, Call
  <2>5. CASE s = "stdout" /\ call'[c] # [call[c] EXCEPT !.pc = "raised"]
    BY <1>0, <2>2, <2>3, <2>5 DEF Written, Progress, Streams, Call
  <2>6. CASE s = "stderr" /\ call'[c] # [call[c] EXCEPT !.pc = "raised"]
    <3>1. log'[LogName(c, "stdout")] = log[LogName(c, "stdout")]
      <4>1. LogName(c, "stdout") # LogName(c, "stderr")
        BY DEF LogName
      <4>2. LogName(c, "stdout") \in LogPaths
        BY DEF LogPaths, Streams
      <4> QED
        BY <1>5, <2>6, <4>1, <4>2, WriteLeaves DEF TypeOK, Streams
    <3>2. PICK e \in BOOLEAN :
             /\ call'[c] = Written(c, s, e)
             /\ ~e => ~call[c].errors /\ log'[LogName(c, "stderr")] = [by |-> c, whole |-> TRUE]
      BY <1>0, <2>3, <2>6 DEF Call
    <3>3. /\ call'[c].pc = "returned" /\ call'[c].errors = e /\ call'[c].args = call[c].args
          /\ call'[c].exit = IF e THEN -2 ELSE call[c].exit
          /\ call'[c].status = "completed" => call'[c].exit = 0
      BY <1>0, <2>6, <3>2 DEF Written, Call
    <3>4. ~e => OwnLogs(c)'
      BY <2>2, <2>6, <3>1, <3>2 DEF Progress, OwnLogs, Streams
    <3>5. call'[c].exit = 0 => told'[c] = "exit 0"
      BY <2>2, <2>6, <3>3, SpecialCodes DEF Progress, Streams
    <3> QED
      BY <2>2, <2>6, <3>3, <3>4, <3>5 DEF Progress, Streams
  <2> QED
    BY <2>4, <2>5, <2>6 DEF Streams
<1> QED
  BY <1>1, <1>2, <1>3, <1>4, <1>5 DEF ExecuteStep

\* Every step keeps what is known of every call.
LEMMA NextProgress == IInv /\ [Next]_vars => IInv'
<1> SUFFICES ASSUME IInv, [Next]_vars PROVE IInv'
  OBVIOUS
<1>1. TypeOK'
  BY NextType DEF IInv
<1>2. CASE UNCHANGED vars
  BY <1>1, <1>2 DEF IInv, vars, Progress, OwnLogs
<1>3. CASE Next
  <2>1. PICK d \in Calls : ExecuteStep(d)
    BY <1>3 DEF Next
  <2>2. ASSUME NEW c \in Calls PROVE Progress(c)'
    BY <2>1, <2>2, OwnStep, OtherCall DEF IInv
  <2> QED
    BY <1>1, <2>2 DEF IInv
<1> QED
  BY <1>2, <1>3
-----------------------------------------------------------------------------
\* The inductive invariant: what is known of every call, in every reachable state.
THEOREM InvariantHolds == Spec => []IInv
<1>1. Init => IInv
  BY InitType, InitProgress DEF IInv
<1> QED
  BY <1>1, NextProgress, PTL DEF Spec

\* Type correctness of calls, logs and history.
THEOREM TypeCorrect == Spec => []TypeOK
<1>1. IInv => TypeOK
  BY DEF IInv
<1> QED
  BY <1>1, InvariantHolds, PTL

\* execute calls a tool completed only if it ended by itself with 0 and both of
\* its logs are whole and its own, for any number of calls next to it.
THEOREM CompletionIsReal == Spec => []CompletedMeansDone
<1>1. ASSUME IInv, NEW c \in Calls, call[c].status = "completed"
      PROVE  told[c] = "exit 0" /\ OwnLogs(c)
  <2>1. call[c].pc = "returned" /\ call[c].exit = 0 /\ call[c].errors \in BOOLEAN
    BY <1>1 DEF IInv, Progress, TypeOK, Call
  <2>2. ~call[c].errors
    BY <1>1, <2>1, SpecialCodes DEF IInv, Progress
  <2> QED
    BY <1>1, <2>1, <2>2 DEF IInv, Progress, Streams
<1>2. IInv => CompletedMeansDone
  BY <1>1 DEF CompletedMeansDone
<1> QED
  BY <1>2, InvariantHolds, PTL

\* A result other than a log error stands next to its own complete logs.
THEOREM LogsAreOwn == Spec => []ResultsHaveLogs
<1>1. IInv => ResultsHaveLogs
  BY DEF IInv, Progress, ResultsHaveLogs
<1> QED
  BY <1>1, InvariantHolds, PTL
=============================================================================
