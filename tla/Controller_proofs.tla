-------------------------- MODULE Controller_proofs --------------------------
(***************************************************************************)
(* Theorems about Controller, for every set of jobs, nodes and handlers,   *)
(* every retry limit, with and without recovery and faults.                *)
(***************************************************************************)
EXTENDS Controller, TLAPS

(***************************************************************************)
(* The inductive invariant.                                                *)
(***************************************************************************)

\* A step's row: only create_job brings it into being (with its job), only an
\* assignment gives it a node, its lease is counted by claimed_at, and its
\* output and retries follow its status.
StepInv(j) ==
    LET s == step[j] IN
    /\ s.status \in {"absent", "queued", "assigned", "running", "completed", "failed"}
    /\ s.status = "absent" <=> job[j].status = "absent"
    /\ s.status = "absent" => s = FreshStep("absent")
    /\ s.status \in {"absent", "queued"} => s.node = NoNode
    /\ grants[j].count = IF s.claimed THEN 1 ELSE 0
    /\ s.output = "result" <=> s.status = "completed"
    /\ s.retries <= MaxRetries + 1
    /\ s.status \in {"queued"} \cup Active => s.retries <= MaxRetries

JobInv(j) == job[j].status \in {"completed", "failed"} => step[j].status = job[j].status

\* A handler's record, beyond the types of its fields.
HandlerShape(h) ==
    /\ h.pc # "idle" => h.op # "none" /\ h.node \in Nodes
    /\ h.op \in StepOps => h.job \in Jobs
    /\ h.pc \in {"update", "reread"} => h.job \in Jobs
    /\ h.pc \in {"jobread", "jobwrite"} => h.op \in ReportOps

\* What the committed outcome of a report says of the row it was committed to.
Stands(h) ==
    LET s == step[h.job]
    IN  s.status = Target(h.op) /\ s.node = h.node /\ s.epoch = h.epoch

\* Between the two transactions of a report the step is there, a committed
\* outcome stands, and the draft carries that outcome.
HandlerInv(t) ==
    LET h == thread[t] IN
    /\ HandlerShape(h)
    /\ h.pc \in {"jobread", "jobwrite"} => step[h.job].status # "absent"
    /\ Committed(t) => Stands(h)
    /\ h.pc = "jobwrite" => h.draft.status = Target(h.op)

IInv ==
    /\ TypeOK
    /\ \A j \in Jobs : StepInv(j) /\ JobInv(j)
    /\ \A t \in Threads : HandlerInv(t)

\* Any request at all: MaxEpoch and ClientOps only bound those TLC enumerates.
Sendable ==
    [ op : NodeOps, job : {NoJob}, node : Nodes, epoch : Nat ]
      \cup [ op : StepOps, job : Jobs, node : Nodes, epoch : Nat ]

AnyNext ==
    \/ \E j \in Jobs : CreateJob(j) \/ RecoverStep(j)
    \/ \E n \in Nodes : Expire(n)
    \/ \E t \in Threads, r \in Sendable : Receive(t, r)
    \/ \E t \in Threads : Handle(t) \/ Finish(t) \/ StorageError(t)
    \/ Restart

\* No step of the Controller undoes an outcome or removes a row.
Evolves ==
    \A j \in Jobs :
        /\ step[j].status \in Terminal => step'[j] = step[j]
        /\ step[j].status # "absent" => step'[j].status # "absent"

USE NodesAssumption, JobsAssumption, EpochAssumption, RetriesAssumption
-----------------------------------------------------------------------------
(***************************************************************************)
(* The operators of StepStateMachine.                                      *)
(***************************************************************************)
\* assign_step gives the row to n under the next epoch and touches nothing else.
LEMMA AssignStepFacts ==
  ASSUME NEW s \in StepRow, NEW n \in Nodes
  PROVE  LET a == AssignStep(s, n) IN
         /\ a \in StepRow
         /\ a.status = "assigned" /\ a.node = n /\ a.epoch = s.epoch + 1
         /\ a.claimed = s.claimed /\ a.retries = s.retries /\ a.output = s.output
  <1> DEFINE e == s.epoch + 1
  <1>1. e \in Nat
    BY DEF StepRow
  <1>2. AssignStep(s, n) = [s EXCEPT !.status = "assigned", !.node = n, !.epoch = e]
    BY DEF AssignStep
  <1> HIDE DEF e
  <1>3. [s EXCEPT !.status = "assigned", !.node = n, !.epoch = e] \in StepRow
    BY <1>1 DEF StepRow, StepStatus
  <1> QED BY <1>2, <1>3 DEF e, StepRow, AssignStep

\* recover_timed_out_step releases the row under the next epoch.
LEMMA RecoverFacts ==
  ASSUME NEW s \in StepRow, Recoverable(s)
  PROVE  LET r == RecoverTimedOutStep(s) IN
         /\ r \in StepRow
         /\ r.status = "queued" \/ (r.status = "failed" /\ s.status = "running")
         /\ r.node = NoNode /\ r.epoch = s.epoch + 1
         /\ r.claimed = s.claimed /\ r.output = s.output
         /\ s.status = "assigned" => r.retries = s.retries
         /\ s.status = "running" => r.retries = s.retries + 1
         /\ s.status = "running" /\ r.status = "queued" => s.retries + 1 <= MaxRetries
  <1> DEFINE e == s.epoch + 1
             m == s.retries + 1
             to == IF m <= MaxRetries THEN "queued" ELSE "failed"
             ra == [s EXCEPT !.node = NoNode, !.epoch = e]
             rr == [ra EXCEPT !.retries = m]
  <1>1. e \in Nat /\ m \in Nat /\ to \in {"queued", "failed"} /\ s.retries \in Nat
    BY DEF StepRow
  <1>2. CASE s.status = "assigned"
    <2>1. RecoverTimedOutStep(s) = [ra EXCEPT !.status = "queued"]
      BY <1>2 DEF RecoverTimedOutStep
    <2> HIDE DEF e
    <2>2. [ra EXCEPT !.status = "queued"] \in StepRow
      BY <1>1 DEF StepRow, StepStatus
    <2>3. LET r == [ra EXCEPT !.status = "queued"]
          IN  /\ r.status = "queued" /\ r.node = NoNode /\ r.epoch = e
              /\ r.claimed = s.claimed /\ r.output = s.output /\ r.retries = s.retries
      BY DEF StepRow
    <2> QED BY <1>2, <2>1, <2>2, <2>3 DEF e
  <1>3. CASE s.status = "running"
    <2>1. ra.retries = s.retries
      BY DEF StepRow
    <2>2. RecoverTimedOutStep(s) = [rr EXCEPT !.status = to]
      BY <1>3, <2>1 DEF RecoverTimedOutStep
    <2> HIDE DEF e, m, to
    <2>3. [rr EXCEPT !.status = to] \in StepRow
      BY <1>1 DEF StepRow, StepStatus
    <2>4. LET r == [rr EXCEPT !.status = to]
          IN  /\ r.status = to /\ r.node = NoNode /\ r.epoch = e
              /\ r.claimed = s.claimed /\ r.output = s.output /\ r.retries = m
      BY DEF StepRow
    <2>5. to = "queued" => m <= MaxRetries
      BY DEF to
    <2> HIDE DEF ra, rr
    <2> QED BY <1>1, <1>3, <2>2, <2>3, <2>4, <2>5 DEF e, m
  <1> QED BY <1>2, <1>3 DEF Recoverable

\* What a report does to a row.
LEMMA ReportedFacts ==
  ASSUME NEW s \in StepRow, NEW op \in {"start", "complete", "fail", "progress"}
  PROVE  LET r == Reported(op, s) IN
         /\ r \in StepRow
         /\ op # "progress" => r.status = Target(op)
         /\ op = "progress" => r.status = s.status
         /\ r.node = s.node /\ r.epoch = s.epoch
         /\ r.claimed = s.claimed /\ r.retries = s.retries
         /\ op = "complete" => r.output = "result"
         /\ op = "progress" => r.output = "progress"
         /\ op \in {"start", "fail"} => r.output = s.output
  <1>1. CASE op = "start"
    BY <1>1 DEF Reported, StepRow, StepStatus, Output, Target
  <1>2. CASE op = "complete"
    BY <1>2 DEF Reported, StepRow, StepStatus, Output, Target
  <1>3. CASE op = "fail"
    BY <1>3 DEF Reported, StepRow, StepStatus, Output, Target
  <1>4. CASE op = "progress"
    BY <1>4 DEF Reported, StepRow, StepStatus, Output, Target
  <1> QED BY <1>1, <1>2, <1>3, <1>4

\* A scheduling pass leaves a row alone or assigns it from queued.
LEMMA ScheduleFacts ==
  ASSUME step \in [Jobs -> StepRow], NEW nodes, ScheduleQueuedSteps(nodes)
  PROVE  /\ step' \in [Jobs -> StepRow]
         /\ \A j \in Jobs :
              \/ step'[j] = step[j]
              \/ /\ step[j].status = "queued"
                 /\ \E n \in Nodes : step'[j] = AssignStep(step[j], n)
  <1>1. CASE EligibleNodes(nodes) = {}
    BY <1>1 DEF ScheduleQueuedSteps
  <1>2. CASE EligibleNodes(nodes) # {}
    <2>1. PICK target \in [QueuedSteps -> EligibleNodes(nodes)] :
            step' = [j \in Jobs |-> IF j \in QueuedSteps
                                    THEN AssignStep(step[j], target[j]) ELSE step[j]]
      BY <1>2 DEF ScheduleQueuedSteps
    <2>2. \A j \in QueuedSteps : target[j] \in Nodes
      BY DEF EligibleNodes
    <2>3. \A j \in QueuedSteps : AssignStep(step[j], target[j]) \in StepRow
      BY <2>2, AssignStepFacts DEF QueuedSteps
    <2>4. \A j \in QueuedSteps : step[j].status = "queued"
      BY DEF QueuedSteps
    <2> QED BY <2>1, <2>2, <2>3, <2>4
  <1> QED BY <1>1, <1>2
-----------------------------------------------------------------------------
(***************************************************************************)
(* How a handler's record moves.                                           *)
(***************************************************************************)
LEMMA GotoFacts ==
  ASSUME TypeOK, NEW t \in Threads, NEW pc \in HandlerPc, Goto(t, pc)
  PROVE  /\ thread' \in [Threads -> Handler]
         /\ \A u \in Threads : u # t => thread'[u] = thread[u]
         /\ thread'[t].pc = pc
         /\ thread'[t].op = thread[t].op /\ thread'[t].job = thread[t].job
         /\ thread'[t].node = thread[t].node /\ thread'[t].epoch = thread[t].epoch
         /\ thread'[t].draft = thread[t].draft /\ thread'[t].reply = thread[t].reply
  <1> DEFINE h == [thread[t] EXCEPT !.pc = pc]
  <1>1. thread' = [thread EXCEPT ![t] = h]
    BY DEF Goto
  <1>2. thread[t] \in Handler /\ thread \in [Threads -> Handler]
    BY DEF TypeOK
  <1>3. h \in Handler
    BY <1>2 DEF Handler
  <1>4. /\ h.pc = pc /\ h.op = thread[t].op /\ h.job = thread[t].job
        /\ h.node = thread[t].node /\ h.epoch = thread[t].epoch
        /\ h.draft = thread[t].draft /\ h.reply = thread[t].reply
    BY <1>2 DEF Handler
  <1> HIDE DEF h
  <1> QED BY <1>1, <1>2, <1>3, <1>4

\* A response changes the handler's own record only.
LEMMA ReplyFacts ==
  ASSUME TypeOK, NEW t \in Threads, NEW reply \in Replies, ReplyWith(t, reply)
  PROVE  /\ thread' \in [Threads -> Handler]
         /\ \A u \in Threads : u # t => thread'[u] = thread[u]
         /\ thread'[t].pc = "replied" /\ thread'[t].reply = reply
         /\ thread'[t].op = thread[t].op /\ thread'[t].job = thread[t].job
         /\ thread'[t].node = thread[t].node /\ thread'[t].epoch = thread[t].epoch
  <1> DEFINE h == [thread[t] EXCEPT !.pc = "replied", !.reply = reply]
  <1>1. thread' = [thread EXCEPT ![t] = h]
    BY DEF ReplyWith
  <1>2. thread[t] \in Handler /\ thread \in [Threads -> Handler]
    BY DEF TypeOK
  <1>3. h \in Handler
    BY <1>2 DEF Handler, HandlerPc
  <1>4. /\ h.pc = "replied" /\ h.reply = reply /\ h.op = thread[t].op
        /\ h.job = thread[t].job /\ h.node = thread[t].node /\ h.epoch = thread[t].epoch
    BY <1>2 DEF Handler
  <1> HIDE DEF h
  <1> QED BY <1>1, <1>2, <1>3, <1>4

\* A granted lease is counted once, for its step.
LEMMA GrantFacts ==
  ASSUME TypeOK, NEW j \in Jobs, GrantLease(j)
  PROVE  /\ step' \in [Jobs -> StepRow]
         /\ \A k \in Jobs : k # j => step'[k] = step[k] /\ grants'[k] = grants[k]
         /\ step'[j].claimed = TRUE
         /\ step'[j].status = step[j].status /\ step'[j].node = step[j].node
         /\ step'[j].epoch = step[j].epoch /\ step'[j].retries = step[j].retries
         /\ step'[j].output = step[j].output
         /\ grants' \in [Jobs -> [count : Nat, epoch : Nat]]
         /\ grants'[j].count = grants[j].count + 1
  <1>1. grants[j].count + 1 \in Nat /\ step[j].epoch \in Nat
    BY DEF TypeOK, StepRow
  <1>2. grants' \in [Jobs -> [count : Nat, epoch : Nat]]
    BY <1>1 DEF GrantLease, TypeOK
  <1> DEFINE s == [step[j] EXCEPT !.claimed = TRUE]
  <1>3. step \in [Jobs -> StepRow] /\ step' = [step EXCEPT ![j] = s]
    BY DEF GrantLease, TypeOK
  <1>4. /\ s \in StepRow /\ s.claimed = TRUE
        /\ s.status = step[j].status /\ s.node = step[j].node
        /\ s.epoch = step[j].epoch /\ s.retries = step[j].retries
        /\ s.output = step[j].output
    <2>1. step[j] \in StepRow
      BY <1>3
    <2> QED BY <2>1 DEF StepRow
  <1> HIDE DEF s
  <1>5. \A k \in Jobs : k # j => grants'[k] = grants[k]
    BY DEF GrantLease, TypeOK
  <1>6. grants'[j].count = grants[j].count + 1
    BY DEF GrantLease, TypeOK
  <1> QED BY <1>2, <1>3, <1>4, <1>5, <1>6
-----------------------------------------------------------------------------
(***************************************************************************)
(* Frame lemmas: what an action leaves alone keeps its part of IInv.       *)
(***************************************************************************)
LEMMA InitIInv == Init => IInv
  <1> SUFFICES ASSUME Init PROVE IInv
    OBVIOUS
  <1>1. TypeOK
    BY DEF Init, TypeOK, Idle, Handler, HandlerPc, Replies, NoJobRow,
           JobRow, NodeRow, FreshStep, StepRow, StepStatus, Output
  <1>2. ASSUME NEW j \in Jobs PROVE StepInv(j) /\ JobInv(j)
    BY DEF Init, StepInv, JobInv, NoJobRow, FreshStep, Active
  <1>3. ASSUME NEW t \in Threads PROVE HandlerInv(t)
    BY DEF Init, HandlerInv, HandlerShape, Committed, Idle, StepOps, ReportOps
  <1> QED BY <1>1, <1>2, <1>3 DEF IInv

\* A handler untouched by an action keeps what is said of it.
LEMMA HandlerFrame ==
  ASSUME IInv, Evolves, NEW t \in Threads, thread'[t] = thread[t]
  PROVE  HandlerInv(t)'
  <1> DEFINE h == thread[t]
  <1>1. HandlerInv(t)
    BY DEF IInv
  <1>2. h.op \in ReportOps => h.job \in Jobs
    BY <1>1 DEF HandlerInv, HandlerShape, StepOps
  <1>3. HandlerShape(thread[t])'
    BY <1>1 DEF HandlerInv, HandlerShape
  <1>4. h.pc \in {"jobread", "jobwrite"} => step'[h.job].status # "absent"
    BY <1>1, <1>2 DEF HandlerInv, HandlerShape, Evolves
  <1>5. Committed(t) => step'[h.job] = step[h.job]
    BY <1>1, <1>2 DEF HandlerInv, Stands, Committed, Evolves, Target, Terminal, ReportOps
  <1> QED BY <1>1, <1>3, <1>4, <1>5 DEF HandlerInv, Stands, Committed

\* A row untouched by an action keeps what is said of it.
LEMMA StepFrame ==
  ASSUME NEW j \in Jobs, StepInv(j), step'[j] = step[j], grants'[j].count = grants[j].count,
         job'[j].status = "absent" <=> job[j].status = "absent"
  PROVE  StepInv(j)'
  BY DEF StepInv

\* A job untouched by an action keeps what is said of it.
LEMMA JobFrame ==
  ASSUME NEW j \in Jobs, JobInv(j), Evolves, job'[j].status = job[j].status
  PROVE  JobInv(j)'
  BY DEF JobInv, Evolves, Terminal

\* An action that changes only the records of handlers, and no committed one.
LEMMA ThreadOnly ==
  ASSUME IInv, NEW t \in Threads, UNCHANGED << job, step, grants >>,
         node' \in [Nodes -> NodeRow], thread' \in [Threads -> Handler],
         \A u \in Threads : u # t => thread'[u] = thread[u],
         HandlerInv(t)'
  PROVE  IInv' /\ Evolves
  <1>1. Evolves
    BY DEF Evolves
  <1>2. TypeOK'
    BY DEF IInv, TypeOK
  <1>3. ASSUME NEW j \in Jobs PROVE StepInv(j)' /\ JobInv(j)'
    BY <1>1, StepFrame, JobFrame DEF IInv
  <1>4. ASSUME NEW u \in Threads PROVE HandlerInv(u)'
    BY <1>1, HandlerFrame
  <1> QED BY <1>1, <1>2, <1>3, <1>4 DEF IInv
\* The parts of IInv' together, for an action of handler t.
LEMMA Assemble ==
  ASSUME IInv, Evolves, TypeOK', NEW t \in Threads,
         \A j \in Jobs : StepInv(j)' /\ JobInv(j)',
         \A u \in Threads : u # t => thread'[u] = thread[u],
         HandlerInv(t)'
  PROVE  IInv'
  BY HandlerFrame DEF IInv

\* An action that ends in a response and leaves the tables alone.
LEMMA ReplyInv ==
  ASSUME IInv, NEW t \in Threads, NEW reply \in Replies, ReplyWith(t, reply),
         thread[t].pc # "idle",
         reply = "ok" /\ thread[t].op \in {"complete", "fail"} => Stands(thread[t])',
         step' = step
  PROVE  HandlerInv(t)'
  <1>1. HandlerShape(thread[t])
    BY DEF IInv, HandlerInv
  <1>2. /\ thread'[t].pc = "replied" /\ thread'[t].reply = reply
        /\ thread'[t].op = thread[t].op /\ thread'[t].job = thread[t].job
        /\ thread'[t].node = thread[t].node /\ thread'[t].epoch = thread[t].epoch
    BY ReplyFacts DEF IInv
  <1>3. HandlerShape(thread[t])'
    BY <1>1, <1>2 DEF HandlerShape
  <1>4. Committed(t)' => Stands(thread[t])'
    BY <1>2 DEF Committed, Stands
  <1> QED BY <1>2, <1>3, <1>4 DEF HandlerInv

\* Every action that only sends handler t to its response.
LEMMA ReplyStep ==
  ASSUME IInv, NEW t \in Threads, NEW reply \in Replies, ReplyWith(t, reply),
         thread[t].pc # "idle",
         reply = "ok" => thread[t].op \notin {"complete", "fail"},
         UNCHANGED << job, step, grants >>, node' \in [Nodes -> NodeRow]
  PROVE  IInv' /\ Evolves
  <1>1. HandlerInv(t)'
    BY ReplyInv
  <1>2. /\ thread' \in [Threads -> Handler]
        /\ \A u \in Threads : u # t => thread'[u] = thread[u]
    BY ReplyFacts DEF IInv
  <1> QED BY <1>1, <1>2, ThreadOnly

\* Every action that only sends handler t to a step before its commit.
LEMMA GotoStep ==
  ASSUME IInv, NEW t \in Threads, NEW pc \in {"insert", "modify", "update"}, Goto(t, pc),
         thread[t].pc # "idle", pc = "update" => thread[t].job \in Jobs,
         UNCHANGED << node, job, step, grants >>
  PROVE  IInv' /\ Evolves
  <1>1. pc \in HandlerPc
    BY DEF HandlerPc
  <1>2. /\ thread' \in [Threads -> Handler]
        /\ \A u \in Threads : u # t => thread'[u] = thread[u]
        /\ thread'[t].pc = pc /\ thread'[t].op = thread[t].op
        /\ thread'[t].job = thread[t].job /\ thread'[t].node = thread[t].node
    BY <1>1, GotoFacts DEF IInv
  <1>3. HandlerShape(thread[t])
    BY DEF IInv, HandlerInv
  <1>4. HandlerInv(t)'
    BY <1>2, <1>3 DEF HandlerInv, HandlerShape, Committed
  <1>5. node' \in [Nodes -> NodeRow]
    BY DEF IInv, TypeOK
  <1> QED BY <1>2, <1>4, <1>5, ThreadOnly
-----------------------------------------------------------------------------
(***************************************************************************)
(* One lemma per action.                                                   *)
(***************************************************************************)
LEMMA ReceiveStep ==
  ASSUME IInv, NEW t \in Threads, NEW r \in Sendable, Receive(t, r)
  PROVE  IInv' /\ Evolves
  <1> DEFINE h == [ pc |-> "read", op |-> r.op, job |-> r.job, node |-> r.node,
                    epoch |-> r.epoch, draft |-> NoJobRow, reply |-> "none" ]
  <1>1. /\ r.op \in NodeOps \cup StepOps /\ r.node \in Nodes
        /\ r.job \in Jobs \cup {NoJob} /\ r.epoch \in Nat
        /\ r.op \in StepOps => r.job \in Jobs
    BY DEF Sendable, NodeOps, StepOps, ReportOps
  <1>2. h \in Handler
    BY <1>1 DEF Handler, HandlerPc, Replies, NoJobRow, JobRow
  <1>3. thread' = [thread EXCEPT ![t] = h]
    BY DEF Receive
  <1>4. HandlerShape(h)
    BY <1>1 DEF HandlerShape, NodeOps, StepOps, ReportOps
  <1>5. h.pc = "read" /\ h.reply = "none"
    OBVIOUS
  <1> HIDE DEF h
  <1>6. /\ thread' \in [Threads -> Handler] /\ thread'[t] = h
        /\ \A u \in Threads : u # t => thread'[u] = thread[u]
    BY <1>2, <1>3 DEF IInv, TypeOK
  <1>7. HandlerInv(t)'
    BY <1>4, <1>5, <1>6 DEF HandlerInv, Committed
  <1> QED BY <1>6, <1>7, ThreadOnly DEF Receive, IInv, TypeOK

\* The response is read, the handler is free again.
LEMMA FinishStep ==
  ASSUME IInv, NEW t \in Threads, Finish(t)
  PROVE  IInv' /\ Evolves
  <1>1. Idle \in Handler
    BY DEF Idle, Handler, HandlerPc, Replies, NoJobRow, JobRow
  <1>2. HandlerShape(Idle) /\ Idle.pc = "idle"
    BY DEF HandlerShape, Idle, StepOps, ReportOps
  <1>3. /\ thread' \in [Threads -> Handler] /\ thread'[t] = Idle
        /\ \A u \in Threads : u # t => thread'[u] = thread[u]
    BY <1>1 DEF IInv, TypeOK, Finish
  <1>4. HandlerInv(t)'
    BY <1>2, <1>3 DEF HandlerInv, Committed
  <1> QED BY <1>3, <1>4, ThreadOnly DEF Finish, IInv, TypeOK

\* register_node: the read and both writes.
LEMMA RegisterStep ==
  ASSUME IInv, NEW t \in Threads, RegisterRead(t) \/ RegisterInsert(t) \/ RegisterModify(t)
  PROVE  IInv' /\ Evolves
  <1>1. CASE RegisterRead(t)
    <2>1. CASE ReplyWith(t, "refused")
      BY <1>1, <2>1, ReplyStep DEF RegisterRead, At, Replies, IInv, TypeOK
    <2>2. CASE Goto(t, IF node[thread[t].node].registered THEN "modify" ELSE "insert")
      BY <1>1, <2>2, GotoStep DEF RegisterRead, At
    <2> QED BY <1>1, <2>1, <2>2 DEF RegisterRead
  <1>2. CASE RegisterInsert(t)
    <2>1. node' \in [Nodes -> NodeRow]
      <3>1. CASE node[thread[t].node].registered
        BY <1>2, <3>1 DEF RegisterInsert, IInv, TypeOK
      <3>2. CASE ~node[thread[t].node].registered
        <4>1. node' = [node EXCEPT ![thread[t].node].registered = TRUE]
          BY <1>2, <3>2 DEF RegisterInsert
        <4> DEFINE row == [node[thread[t].node] EXCEPT !.registered = TRUE]
        <4>2. node' = [node EXCEPT ![thread[t].node] = row]
          BY <4>1
        <4>3. node \in [Nodes -> NodeRow] /\ thread[t].node \in Nodes
          BY <1>2 DEF IInv, TypeOK, RegisterInsert, At, HandlerInv, HandlerShape
        <4>4. row \in NodeRow
          BY <4>3 DEF NodeRow
        <4> HIDE DEF row
        <4> QED BY <4>2, <4>3, <4>4
      <3> QED BY <3>1, <3>2
    <2>2. PICK reply \in {"ok", "error"} : ReplyWith(t, reply)
      BY <1>2 DEF RegisterInsert
    <2> QED BY <1>2, <2>1, <2>2, ReplyStep DEF RegisterInsert, At, Replies
  <1>3. CASE RegisterModify(t)
    BY <1>3, ReplyStep DEF RegisterModify, At, Replies, IInv, TypeOK
  <1> QED BY <1>1, <1>2, <1>3

\* claim_next: the choice of a row.
LEMMA ClaimSelectStep ==
  ASSUME IInv, NEW t \in Threads, ClaimSelect(t)
  PROVE  IInv' /\ Evolves
  <1>1. CASE ReplyWith(t, "empty")
    BY <1>1, ReplyStep DEF ClaimSelect, At, Replies, IInv, TypeOK
  <1>2. ASSUME NEW j \in Jobs,
               thread' = [thread EXCEPT ![t].pc = "update", ![t].job = j]
        PROVE  IInv' /\ Evolves
    <2> DEFINE h == [thread[t] EXCEPT !.pc = "update", !.job = j]
    <2>a. /\ h \in Handler /\ h.pc = "update" /\ h.op = thread[t].op
          /\ h.job = j /\ h.node = thread[t].node
      <3>1. thread[t] \in Handler
        BY DEF IInv, TypeOK
      <3> QED BY <3>1 DEF Handler, HandlerPc
    <2>b. thread' = [thread EXCEPT ![t] = h]
      BY <1>2
    <2> HIDE DEF h
    <2>1. /\ thread' \in [Threads -> Handler]
          /\ \A u \in Threads : u # t => thread'[u] = thread[u]
          /\ thread'[t].pc = "update" /\ thread'[t].op = thread[t].op
          /\ thread'[t].job = j /\ thread'[t].node = thread[t].node
      BY <2>a, <2>b DEF IInv, TypeOK
    <2>2. HandlerShape(thread[t])
      BY DEF IInv, HandlerInv
    <2>3. HandlerInv(t)'
      BY <2>1, <2>2 DEF HandlerInv, HandlerShape, Committed, ClaimSelect, At
    <2> QED BY <2>1, <2>3, ThreadOnly DEF ClaimSelect, IInv, TypeOK
  <1> QED BY <1>1, <1>2 DEF ClaimSelect

\* claim_next: the row after the commit.
LEMMA ClaimRereadStep ==
  ASSUME IInv, NEW t \in Threads, ClaimReread(t)
  PROVE  IInv' /\ Evolves
  <1>1. HandlerShape(thread[t]) /\ thread[t].op = "claim_next" /\ thread[t].job \in Jobs
    BY DEF IInv, HandlerInv, HandlerShape, ClaimReread, At
  <1>2. step[thread[t].job].epoch \in Nat
    BY <1>1 DEF IInv, TypeOK, StepRow
  <1> DEFINE e == step[thread[t].job].epoch
             h == [thread[t] EXCEPT !.pc = "replied", !.reply = "ok", !.epoch = e]
  <1>a. thread' = [thread EXCEPT ![t] = h]
    BY DEF ClaimReread
  <1>c. e \in Nat
    BY <1>2
  <1> HIDE DEF e
  <1>b. /\ h \in Handler /\ h.pc = "replied" /\ h.op = thread[t].op
        /\ h.job = thread[t].job /\ h.node = thread[t].node
    <2>1. thread[t] \in Handler
      BY DEF IInv, TypeOK
    <2> QED BY <1>c, <2>1 DEF Handler, HandlerPc, Replies
  <1> HIDE DEF h
  <1>3. /\ thread' \in [Threads -> Handler]
        /\ \A u \in Threads : u # t => thread'[u] = thread[u]
        /\ thread'[t].pc = "replied" /\ thread'[t].op = thread[t].op
        /\ thread'[t].job = thread[t].job /\ thread'[t].node = thread[t].node
    BY <1>a, <1>b DEF IInv, TypeOK
  <1>4. HandlerInv(t)'
    BY <1>1, <1>3 DEF HandlerInv, HandlerShape, Committed, ClaimReread, At
  <1> QED BY <1>3, <1>4, ThreadOnly DEF ClaimReread, IInv, TypeOK

\* The validation of a request on a step.
LEMMA StepReadStep ==
  ASSUME IInv, NEW t \in Threads, StepRead(t)
  PROVE  IInv' /\ Evolves
  <1>1. thread[t].pc = "read" /\ thread[t].job \in Jobs
    BY DEF StepRead, At, IInv, HandlerInv, HandlerShape
  <1>2. CASE Goto(t, "update")
    BY <1>1, <1>2, GotoStep DEF StepRead
  <1>3. CASE ReplyWith(t, "refused")
    BY <1>1, <1>3, ReplyStep DEF StepRead, Replies, IInv, TypeOK
  <1> QED BY <1>2, <1>3 DEF StepRead

\* An error of the database rolls back the transaction of one handler.
LEMMA StorageErrorStep ==
  ASSUME IInv, NEW t \in Threads, StorageError(t)
  PROVE  IInv' /\ Evolves
  BY ReplyStep DEF StorageError, Working, Replies, IInv, TypeOK

\* A restart loses all handlers and no commit.
LEMMA RestartStep ==
  ASSUME IInv, Restart
  PROVE  IInv' /\ Evolves
  <1>1. thread' = [t \in Threads |->
                     IF thread[t].pc = "idle" THEN thread[t]
                     ELSE [thread[t] EXCEPT !.pc = "replied", !.reply = "error"]]
    BY DEF Restart
  <1>2. ASSUME NEW t \in Threads, thread[t].pc # "idle"
        PROVE  thread'[t] \in Handler /\ HandlerInv(t)'
    <2> DEFINE h == [thread[t] EXCEPT !.pc = "replied", !.reply = "error"]
    <2>1. /\ h \in Handler /\ h.pc = "replied" /\ h.reply = "error"
          /\ h.op = thread[t].op /\ h.job = thread[t].job /\ h.node = thread[t].node
      <3>1. thread[t] \in Handler
        BY DEF IInv, TypeOK
      <3> QED BY <3>1 DEF Handler, HandlerPc, Replies
    <2>2. thread'[t] = h
      BY <1>1, <1>2
    <2>3. HandlerShape(thread[t])
      BY DEF IInv, HandlerInv
    <2> HIDE DEF h
    <2>4. HandlerInv(t)'
      BY <1>2, <2>1, <2>2, <2>3 DEF HandlerInv, HandlerShape, Committed
    <2> QED BY <2>1, <2>2, <2>4
  <1>3. Evolves
    BY DEF Evolves, Restart
  <1>4. \A t \in Threads : thread[t].pc = "idle" => thread'[t] = thread[t]
    BY <1>1
  <1>5. ASSUME NEW t \in Threads PROVE thread'[t] \in Handler /\ HandlerInv(t)'
    BY <1>2, <1>3, <1>4, HandlerFrame DEF IInv, TypeOK
  <1>6. TypeOK'
    <2>1. thread' \in [Threads -> Handler]
      BY <1>1, <1>5
    <2> QED BY <2>1 DEF IInv, TypeOK, Restart
  <1>7. ASSUME NEW j \in Jobs PROVE StepInv(j)' /\ JobInv(j)'
    BY <1>3, StepFrame, JobFrame DEF IInv, Restart
  <1> QED BY <1>3, <1>5, <1>6, <1>7 DEF IInv

\* A heartbeat grows too old.
LEMMA ExpireStep ==
  ASSUME IInv, NEW n \in Nodes, Expire(n)
  PROVE  IInv' /\ Evolves
  <1>1. Evolves
    BY DEF Evolves, Expire
  <1>2. node' \in [Nodes -> NodeRow]
    <2> DEFINE row == [node[n] EXCEPT !.fresh = FALSE]
    <2>1. node \in [Nodes -> NodeRow] /\ node' = [node EXCEPT ![n] = row]
      BY DEF Expire, IInv, TypeOK
    <2>2. row \in NodeRow
      BY <2>1 DEF NodeRow
    <2> HIDE DEF row
    <2> QED BY <2>1, <2>2
  <1>3. TypeOK'
    BY <1>2 DEF Expire, IInv, TypeOK
  <1>4. ASSUME NEW j \in Jobs PROVE StepInv(j)' /\ JobInv(j)'
    BY <1>1, StepFrame, JobFrame DEF IInv, Expire
  <1>5. ASSUME NEW t \in Threads PROVE HandlerInv(t)'
    BY <1>1, HandlerFrame DEF Expire
  <1> QED BY <1>1, <1>3, <1>4, <1>5 DEF IInv

\* create_job.
LEMMA CreateJobStep ==
  ASSUME IInv, NEW j \in Jobs, CreateJob(j)
  PROVE  IInv' /\ Evolves
  <1>1. /\ step[j].status = "absent" /\ step[j] = FreshStep("absent")
        /\ grants[j].count = 0 /\ job[j].status = "absent"
    <2>1. job[j].status = "absent"
      BY DEF CreateJob
    <2>2. step[j].status = "absent" /\ step[j] = FreshStep("absent")
      BY <2>1 DEF IInv, StepInv
    <2>3. ~step[j].claimed
      BY <2>2 DEF FreshStep
    <2>4. grants[j].count = IF step[j].claimed THEN 1 ELSE 0
      BY DEF IInv, StepInv
    <2> QED BY <2>1, <2>2, <2>3, <2>4
  <1>2. /\ step'[j] = FreshStep("queued") /\ job'[j].status = "queued"
        /\ \A k \in Jobs : k # j => step'[k] = step[k] /\ job'[k] = job[k]
    <2>1. job'[j] = [job[j] EXCEPT !.status = "queued"]
      BY DEF CreateJob, IInv, TypeOK
    <2>2. job'[j].status = "queued"
      BY <2>1 DEF IInv, TypeOK, JobRow
    <2> QED BY <2>2 DEF CreateJob, IInv, TypeOK
  <1>3. FreshStep("queued") \in StepRow
    BY DEF FreshStep, StepRow, StepStatus, Output
  <1>4. Evolves
    BY <1>1, <1>2 DEF Evolves, FreshStep, Terminal
  <1>5. TypeOK'
    <2>1. job' \in [Jobs -> JobRow]
      BY DEF CreateJob, IInv, TypeOK, JobRow
    <2>2. step' \in [Jobs -> StepRow]
      BY <1>3 DEF CreateJob, IInv, TypeOK
    <2> QED BY <2>1, <2>2 DEF CreateJob, IInv, TypeOK
  <1>6. StepInv(j)' /\ JobInv(j)'
    BY <1>1, <1>2 DEF StepInv, JobInv, FreshStep, Active, CreateJob
  <1>7. ASSUME NEW k \in Jobs, k # j PROVE StepInv(k)' /\ JobInv(k)'
    BY <1>2, <1>4, <1>7, StepFrame, JobFrame DEF IInv, CreateJob
  <1>8. ASSUME NEW t \in Threads PROVE HandlerInv(t)'
    BY <1>4, HandlerFrame DEF CreateJob
  <1> QED BY <1>4, <1>5, <1>6, <1>7, <1>8 DEF IInv

\* recover_timed_out_step on a row that can be recovered.
LEMMA RecoverStepStep ==
  ASSUME IInv, NEW j \in Jobs, RecoverStep(j)
  PROVE  IInv' /\ Evolves
  <1> DEFINE s == step[j]
             r == RecoverTimedOutStep(s)
  <1>1. s \in StepRow /\ Recoverable(s)
    BY DEF RecoverStep, IInv, TypeOK
  <1>2. /\ r \in StepRow
        /\ r.status = "queued" \/ (r.status = "failed" /\ s.status = "running")
        /\ r.node = NoNode /\ r.epoch = s.epoch + 1
        /\ r.claimed = s.claimed /\ r.output = s.output
        /\ s.status = "assigned" => r.retries = s.retries
        /\ s.status = "running" => r.retries = s.retries + 1
        /\ s.status = "running" /\ r.status = "queued" => s.retries + 1 <= MaxRetries
    BY <1>1, RecoverFacts
  <1>3. step' = [step EXCEPT ![j] = r]
    BY DEF RecoverStep
  <1>4. StepInv(j) /\ JobInv(j)
    BY DEF IInv
  <1>5. s.status \in {"assigned", "running"} /\ s.retries \in Nat
    BY <1>1 DEF Recoverable, StepRow
  <1> HIDE DEF r
  <1>6. /\ step' \in [Jobs -> StepRow] /\ step'[j] = r
        /\ \A k \in Jobs : k # j => step'[k] = step[k]
    BY <1>2, <1>3 DEF IInv, TypeOK
  <1>7. Evolves
    BY <1>2, <1>5, <1>6 DEF Evolves, Terminal
  <1>8. TypeOK'
    BY <1>6 DEF RecoverStep, IInv, TypeOK
  <1>9. StepInv(j)'
    BY <1>2, <1>4, <1>5, <1>6 DEF StepInv, Active, RecoverStep
  <1>10. JobInv(j)'
    BY <1>4, <1>5 DEF JobInv, RecoverStep
  <1>11. ASSUME NEW k \in Jobs, k # j PROVE StepInv(k)' /\ JobInv(k)'
    BY <1>6, <1>7, <1>11, StepFrame, JobFrame DEF IInv, RecoverStep
  <1>12. ASSUME NEW t \in Threads PROVE HandlerInv(t)'
    BY <1>7, HandlerFrame DEF RecoverStep
  <1> QED BY <1>7, <1>8, <1>9, <1>10, <1>11, <1>12 DEF IInv

\* heartbeat_node with its scheduling pass.
LEMMA HeartbeatStep ==
  ASSUME IInv, NEW t \in Threads, Heartbeat(t)
  PROVE  IInv' /\ Evolves
  <1>1. CASE ReplyWith(t, "refused") /\ UNCHANGED << node, step >>
    BY <1>1, ReplyStep DEF Heartbeat, At, Replies, IInv, TypeOK
  <1>2. ASSUME NEW healthy \in BOOLEAN,
               node' = [node EXCEPT ![thread[t].node].fresh = TRUE,
                                    ![thread[t].node].healthy = healthy],
               ScheduleQueuedSteps(node'), ReplyWith(t, "ok")
        PROVE  IInv' /\ Evolves
    <2>1. /\ step' \in [Jobs -> StepRow]
          /\ \A j \in Jobs :
               \/ step'[j] = step[j]
               \/ /\ step[j].status = "queued"
                  /\ \E n \in Nodes : step'[j] = AssignStep(step[j], n)
      BY <1>2, ScheduleFacts DEF IInv, TypeOK
    <2>2. ASSUME NEW j \in Jobs, step'[j] # step[j]
          PROVE  /\ step[j].status = "queued" /\ step'[j].status = "assigned"
                 /\ step'[j].claimed = step[j].claimed /\ step'[j].retries = step[j].retries
                 /\ step'[j].output = step[j].output
      <3>1. PICK n \in Nodes : step'[j] = AssignStep(step[j], n)
        BY <2>1, <2>2
      <3>2. step[j] \in StepRow
        BY DEF IInv, TypeOK
      <3> QED BY <2>1, <2>2, <3>1, <3>2, AssignStepFacts
    <2>3. Evolves
      BY <2>2 DEF Evolves, Terminal
    <2>4. node' \in [Nodes -> NodeRow]
      <3>1. node[thread[t].node] \in NodeRow
        BY DEF Heartbeat, At, IInv, TypeOK, HandlerInv, HandlerShape
      <3>2. [node[thread[t].node] EXCEPT !.fresh = TRUE, !.healthy = healthy] \in NodeRow
        BY <3>1 DEF NodeRow
      <3>3. node' = [node EXCEPT ![thread[t].node] =
                      [node[thread[t].node] EXCEPT !.fresh = TRUE, !.healthy = healthy]]
        BY <1>2
      <3> QED BY <3>2, <3>3 DEF IInv, TypeOK
    <2>5. /\ thread' \in [Threads -> Handler]
          /\ \A u \in Threads : u # t => thread'[u] = thread[u]
          /\ thread'[t].pc = "replied" /\ thread'[t].op = thread[t].op
          /\ thread'[t].job = thread[t].job /\ thread'[t].node = thread[t].node
      BY <1>2, ReplyFacts DEF IInv, Replies
    <2>6. TypeOK'
      BY <2>1, <2>4, <2>5 DEF Heartbeat, IInv, TypeOK
    <2>7. ASSUME NEW j \in Jobs PROVE StepInv(j)' /\ JobInv(j)'
      <3>1. StepInv(j) /\ JobInv(j)
        BY DEF IInv
      <3>2. UNCHANGED << job, grants >>
        BY DEF Heartbeat
      <3>3. CASE step'[j] = step[j]
        BY <2>3, <3>1, <3>2, <3>3, StepFrame, JobFrame
      <3>4. CASE step'[j] # step[j]
        BY <2>2, <3>1, <3>2, <3>4 DEF StepInv, JobInv, Active
      <3> QED BY <3>3, <3>4
    <2>8. HandlerShape(thread[t]) /\ thread[t].op = "heartbeat"
      BY DEF IInv, HandlerInv, Heartbeat, At
    <2>9. HandlerInv(t)'
      BY <2>5, <2>8 DEF HandlerInv, HandlerShape, Committed, Heartbeat, At, StepOps, ReportOps
    <2> QED BY <2>3, <2>5, <2>6, <2>7, <2>9, Assemble
  <1> QED BY <1>1, <1>2 DEF Heartbeat

\* A lease granted on row j by handler t.
LEMMA GrantStep ==
  ASSUME IInv, NEW t \in Threads, NEW j \in Jobs,
         step[j].status = "assigned", step[j].claimed = FALSE,
         GrantLease(j), UNCHANGED << node, job >>,
         thread' \in [Threads -> Handler],
         \A u \in Threads : u # t => thread'[u] = thread[u],
         HandlerInv(t)'
  PROVE  IInv' /\ Evolves
  <1>1. /\ step' \in [Jobs -> StepRow]
        /\ \A k \in Jobs : k # j => step'[k] = step[k] /\ grants'[k] = grants[k]
        /\ step'[j].claimed = TRUE
        /\ step'[j].status = step[j].status /\ step'[j].node = step[j].node
        /\ step'[j].epoch = step[j].epoch /\ step'[j].retries = step[j].retries
        /\ step'[j].output = step[j].output
        /\ grants' \in [Jobs -> [count : Nat, epoch : Nat]]
        /\ grants'[j].count = grants[j].count + 1
    BY GrantFacts DEF IInv
  <1>2. StepInv(j) /\ JobInv(j)
    BY DEF IInv
  <1>3. Evolves
    BY <1>1 DEF Evolves, Terminal
  <1>4. grants[j].count = 0
    <2>1. grants[j].count = IF step[j].claimed THEN 1 ELSE 0
      BY <1>2 DEF StepInv
    <2> QED BY <2>1
  <1>5. StepInv(j)'
    <2>1. grants'[j].count = 1
      BY <1>1, <1>4
    <2>2. (IF step'[j].claimed THEN 1 ELSE 0) = 1
      BY <1>1, Zenon
    <2>3. grants'[j].count = IF step'[j].claimed THEN 1 ELSE 0
      BY <2>1, <2>2
    <2>4. job'[j] = job[j]
      OBVIOUS
    <2> QED BY <1>1, <1>2, <2>3, <2>4 DEF StepInv, Active
  <1>6. JobInv(j)'
    BY <1>1, <1>2 DEF JobInv
  <1>7. ASSUME NEW k \in Jobs, k # j PROVE StepInv(k)' /\ JobInv(k)'
    BY <1>1, <1>3, <1>7, StepFrame, JobFrame DEF IInv
  <1>8. TypeOK'
    BY <1>1 DEF IInv, TypeOK
  <1>9. \A k \in Jobs : StepInv(k)' /\ JobInv(k)'
    BY <1>5, <1>6, <1>7
  <1> QED BY <1>3, <1>8, <1>9, Assemble

\* claim_next: the guarded UPDATE.
LEMMA ClaimUpdateStep ==
  ASSUME IInv, NEW t \in Threads, ClaimUpdate(t)
  PROVE  IInv' /\ Evolves
  <1>1. HandlerShape(thread[t]) /\ thread[t].pc = "update" /\ thread[t].op = "claim_next"
    BY DEF IInv, HandlerInv, ClaimUpdate, At
  <1>2. thread[t].job \in Jobs
    BY <1>1 DEF HandlerShape
  <1>3. CASE Claimable(thread[t].job, thread[t].node)
    <2>1. GrantLease(thread[t].job) /\ Goto(t, "reread") /\ UNCHANGED << node, job >>
      BY <1>3 DEF ClaimUpdate
    <2>2. /\ thread' \in [Threads -> Handler]
          /\ \A u \in Threads : u # t => thread'[u] = thread[u]
          /\ thread'[t].pc = "reread" /\ thread'[t].op = thread[t].op
          /\ thread'[t].job = thread[t].job /\ thread'[t].node = thread[t].node
      BY <2>1, GotoFacts DEF IInv, HandlerPc
    <2>3. HandlerInv(t)'
      BY <1>1, <1>2, <2>2 DEF HandlerInv, HandlerShape, Committed
    <2>4. step[thread[t].job].status = "assigned" /\ step[thread[t].job].claimed = FALSE
      BY <1>2, <1>3 DEF Claimable, IInv, TypeOK, StepRow
    <2> QED BY <1>2, <2>1, <2>2, <2>3, <2>4, GrantStep
  <1>4. CASE ~Claimable(thread[t].job, thread[t].node)
    BY <1>1, <1>4, ReplyStep DEF ClaimUpdate, Replies, IInv, TypeOK
  <1> QED BY <1>3, <1>4

\* A report's guarded UPDATE.
LEMMA StepUpdateStep ==
  ASSUME IInv, NEW t \in Threads, StepUpdate(t)
  PROVE  IInv' /\ Evolves
  <1> DEFINE h == thread[t]
  <1>1. HandlerShape(h) /\ h.pc = "update" /\ h.op \in StepOps
    BY DEF IInv, HandlerInv, StepUpdate, At
  <1>2. h.node \in Nodes
    BY <1>1 DEF HandlerShape
  <1>j. PICK j \in Jobs : j = h.job
    BY <1>1 DEF HandlerShape
  <1> DEFINE s == step[j]
  <1>3. s \in StepRow /\ StepInv(j) /\ JobInv(j)
    BY DEF IInv, TypeOK
  <1>4. CASE ~GuardHolds(h, s)
    BY <1>1, <1>4, <1>j, ReplyStep DEF StepUpdate, Replies, IInv, TypeOK
  <1>5. CASE GuardHolds(h, s) /\ h.op = "claim"
    <2>1. GrantLease(j) /\ ReplyWith(t, "ok") /\ UNCHANGED << node, job >>
      BY <1>5, <1>j DEF StepUpdate, ReportOps
    <2>2. /\ thread' \in [Threads -> Handler]
          /\ \A u \in Threads : u # t => thread'[u] = thread[u]
          /\ thread'[t].pc = "replied" /\ thread'[t].op = h.op
          /\ thread'[t].job = j /\ thread'[t].node = h.node
      BY <1>j, <2>1, ReplyFacts DEF IInv, Replies
    <2>3. HandlerInv(t)'
      BY <1>1, <1>2, <1>5, <2>2 DEF HandlerInv, HandlerShape, Committed
    <2>4. s.status = "assigned" /\ s.claimed = FALSE
      BY <1>3, <1>5 DEF GuardHolds, FromStatuses, StepRow
    <2> QED BY <2>1, <2>2, <2>3, <2>4, GrantStep
  <1>6. CASE GuardHolds(h, s) /\ h.op # "claim"
    <2> DEFINE r == Reported(h.op, s)
    <2>1. /\ step' = [step EXCEPT ![j] = r] /\ UNCHANGED << node, job, grants >>
          /\ IF h.op \in ReportOps THEN Goto(t, "jobread") ELSE ReplyWith(t, "ok")
      BY <1>6, <1>j DEF StepUpdate
    <2>2. h.op \in {"start", "complete", "fail", "progress"}
      BY <1>1, <1>6 DEF StepOps, ReportOps
    <2>3. /\ r \in StepRow
          /\ h.op # "progress" => r.status = Target(h.op)
          /\ h.op = "progress" => r.status = s.status
          /\ r.node = s.node /\ r.epoch = s.epoch
          /\ r.claimed = s.claimed /\ r.retries = s.retries
          /\ h.op = "complete" => r.output = "result"
          /\ h.op = "progress" => r.output = "progress"
          /\ h.op \in {"start", "fail"} => r.output = s.output
      BY <1>3, <2>2, ReportedFacts
    <2>4. /\ s.status \in {"assigned", "running"}
          /\ h.op = "progress" => s.status = "running"
          /\ s.node = h.node /\ s.epoch = h.epoch
      BY <1>6, <2>2 DEF GuardHolds, FromStatuses
    <2> HIDE DEF r
    <2>5. /\ step' \in [Jobs -> StepRow] /\ step'[j] = r
          /\ \A k \in Jobs : k # j => step'[k] = step[k]
      BY <2>1, <2>3 DEF IInv, TypeOK
    <2>6. r.status \in {"running", "completed", "failed"}
      BY <2>2, <2>3, <2>4 DEF Target
    <2>7. Evolves
      BY <2>4, <2>5, <2>6 DEF Evolves, Terminal
    <2>8. StepInv(j)'
      <3>1. h.op = "complete" <=> r.status = "completed"
        BY <2>2, <2>3, <2>4 DEF Target
      <3>2. s.output # "result"
        BY <1>3, <2>4 DEF StepInv
      <3>3. r.output = "result" <=> r.status = "completed"
        BY <2>2, <2>3, <3>1, <3>2
      <3>4. r.retries <= MaxRetries
        BY <1>3, <2>3, <2>4 DEF StepInv, Active
      <3>5. grants[j].count = IF r.claimed THEN 1 ELSE 0
        BY <1>3, <2>3 DEF StepInv
      <3>6. s.status # "absent" /\ job[j].status # "absent"
        BY <1>3, <2>4 DEF StepInv
      <3>7. r.retries \in Nat
        BY <2>3 DEF StepRow
      <3> QED BY <2>1, <2>5, <2>6, <3>3, <3>4, <3>5, <3>6, <3>7 DEF StepInv, Active
    <2>9. JobInv(j)'
      BY <1>3, <2>1, <2>4 DEF JobInv
    <2>10. ASSUME NEW k \in Jobs, k # j PROVE StepInv(k)' /\ JobInv(k)'
      BY <2>1, <2>5, <2>7, <2>10, StepFrame, JobFrame DEF IInv
    <2>11. /\ thread' \in [Threads -> Handler]
           /\ \A u \in Threads : u # t => thread'[u] = thread[u]
           /\ thread'[t].pc = IF h.op \in ReportOps THEN "jobread" ELSE "replied"
           /\ thread'[t].op = h.op /\ thread'[t].job = j
           /\ thread'[t].node = h.node /\ thread'[t].epoch = h.epoch
      <3>1. CASE h.op \in ReportOps
        BY <1>j, <2>1, <3>1, GotoFacts DEF IInv, HandlerPc
      <3>2. CASE h.op \notin ReportOps
        BY <1>j, <2>1, <3>2, ReplyFacts DEF IInv, Replies
      <3> QED BY <3>1, <3>2
    <2>12. HandlerInv(t)'
      <3>1. HandlerShape(thread[t])'
        BY <1>1, <1>2, <2>11 DEF HandlerShape
      <3>2. step'[thread'[t].job].status # "absent"
        BY <2>5, <2>6, <2>11
      <3>3. Committed(t)' => Stands(thread[t])'
        BY <2>2, <2>3, <2>4, <2>5, <2>11 DEF Committed, Stands
      <3> QED BY <2>11, <3>1, <3>2, <3>3 DEF HandlerInv
    <2>13. TypeOK'
      BY <2>1, <2>5, <2>11 DEF IInv, TypeOK
    <2>14. \A k \in Jobs : StepInv(k)' /\ JobInv(k)'
      BY <2>8, <2>9, <2>10
    <2> QED BY <2>7, <2>11, <2>12, <2>13, <2>14, Assemble
  <1> QED BY <1>4, <1>5, <1>6

\* The second transaction of a report, its read.
LEMMA JobReadStep ==
  ASSUME IInv, NEW t \in Threads, JobRead(t)
  PROVE  IInv' /\ Evolves
  <1> DEFINE o == thread[t]
             s == step[o.job]
             d == Draft(o.op, job[o.job], s)
  <1>1. HandlerInv(t) /\ o.pc = "jobread" /\ o.op \in ReportOps
    BY DEF IInv, JobRead, At
  <1>2. o.job \in Jobs
    BY <1>1 DEF HandlerInv, HandlerShape, StepOps
  <1>3. UNCHANGED << node, job, step, grants >>
    BY DEF JobRead
  <1>4. CASE ReplyWith(t, "ok") /\ o.op = "start"
    BY <1>1, <1>3, <1>4, ReplyStep DEF Replies, IInv, TypeOK
  <1>5. CASE thread' = [thread EXCEPT ![t].pc = "jobwrite", ![t].draft = d]
    <2>1. d \in JobRow /\ d.status = Target(o.op)
      <3>1. job[o.job] \in JobRow
        BY <1>2 DEF IInv, TypeOK
      <3>2. CASE o.op = "start"
        BY <3>1, <3>2 DEF Draft, JobRow, Target
      <3>3. CASE o.op = "complete"
        <4>1. s.status = "completed"
          BY <1>1, <3>3 DEF HandlerInv, Committed, Stands, Target
        <4> QED BY <3>3, <4>1 DEF Draft, JobRow, Target
      <3>4. CASE o.op = "fail"
        BY <3>1, <3>4 DEF Draft, JobRow, Target
      <3> QED BY <1>1, <3>2, <3>3, <3>4 DEF ReportOps
    <2> HIDE DEF d
    <2> DEFINE h == [thread[t] EXCEPT !.pc = "jobwrite", !.draft = d]
    <2>2. thread' = [thread EXCEPT ![t] = h]
      BY <1>5
    <2>3. /\ h \in Handler /\ h.pc = "jobwrite" /\ h.draft = d /\ h.op = o.op
          /\ h.job = o.job /\ h.node = o.node /\ h.epoch = o.epoch
      <3>1. thread[t] \in Handler
        BY DEF IInv, TypeOK
      <3> HIDE DEF d
      <3> QED BY <2>1, <3>1 DEF Handler, HandlerPc
    <2> HIDE DEF h
    <2>4. /\ thread' \in [Threads -> Handler] /\ thread'[t] = h
          /\ \A u \in Threads : u # t => thread'[u] = thread[u]
      BY <2>2, <2>3 DEF IInv, TypeOK
    <2>5. HandlerInv(t)'
      <3>1. HandlerShape(thread[t])'
        BY <1>1, <1>2, <2>3, <2>4 DEF HandlerInv, HandlerShape
      <3>2. step'[thread'[t].job].status # "absent"
        BY <1>1, <1>3, <2>3, <2>4 DEF HandlerInv
      <3>3. Committed(t)' => Stands(thread[t])'
        BY <1>1, <1>3, <2>3, <2>4 DEF HandlerInv, Committed, Stands
      <3> QED BY <2>1, <2>3, <2>4, <3>1, <3>2, <3>3 DEF HandlerInv
    <2>6. node' \in [Nodes -> NodeRow]
      BY <1>3 DEF IInv, TypeOK
    <2> QED BY <1>3, <2>4, <2>5, <2>6, ThreadOnly
  <1> QED BY <1>4, <1>5 DEF JobRead

\* The second transaction of a report, its write.
LEMMA JobWriteStep ==
  ASSUME IInv, NEW t \in Threads, JobWrite(t)
  PROVE  IInv' /\ Evolves
  <1> DEFINE h == thread[t]
  <1>1. /\ HandlerInv(t) /\ h.pc = "jobwrite" /\ h.op \in ReportOps
        /\ h.draft.status = Target(h.op)
    BY DEF IInv, JobWrite, At, HandlerInv
  <1>2. PICK j \in Jobs : j = h.job
    BY <1>1 DEF HandlerInv, HandlerShape, StepOps
  <1> DEFINE p == IF h.op = "fail" THEN job[j].progress ELSE h.draft.progress
             row == [job[j] EXCEPT !.status = h.draft.status, !.progress = p]
  <1>3. UNCHANGED << node, step, grants >> /\ ReplyWith(t, "ok")
    BY DEF JobWrite
  <1>4. Evolves
    BY <1>3 DEF Evolves
  <1>5. job' = [job EXCEPT ![j] = row]
    BY <1>2 DEF JobWrite, IInv, TypeOK
  <1>6. job[j] \in JobRow /\ h.draft \in JobRow
    BY <1>2 DEF IInv, TypeOK, Handler
  <1>7. row \in JobRow /\ row.status = Target(h.op)
    <2>1. p \in {0, 1, 100} /\ h.draft.status \in {"absent", "created", "queued", "running", "completed", "failed"}
      BY <1>6 DEF JobRow
    <2> HIDE DEF p
    <2> QED BY <1>1, <1>6, <2>1 DEF JobRow
  <1> HIDE DEF row
  <1>8. /\ job' \in [Jobs -> JobRow] /\ job'[j] = row
        /\ \A k \in Jobs : k # j => job'[k] = job[k]
    BY <1>2, <1>5, <1>7 DEF IInv, TypeOK
  <1>9. TypeOK'
    BY <1>3, <1>8, ReplyFacts DEF IInv, TypeOK, Replies
  <1>10. StepInv(j) /\ step[j].status # "absent" /\ job[j].status # "absent"
    BY <1>1, <1>2 DEF IInv, HandlerInv, StepInv
  <1>11. job'[j].status \in {"running", "completed", "failed"}
    BY <1>1, <1>7, <1>8 DEF Target, ReportOps
  <1>12. StepInv(j)'
    BY <1>3, <1>10, <1>11, StepFrame
  <1>13. JobInv(j)'
    <2>1. h.op \in {"complete", "fail"} => step[j].status = Target(h.op)
      BY <1>1, <1>2 DEF HandlerInv, Committed, Stands
    <2> QED BY <1>1, <1>3, <1>7, <1>8, <2>1 DEF JobInv, Target, ReportOps
  <1>14. ASSUME NEW k \in Jobs, k # j PROVE StepInv(k)' /\ JobInv(k)'
    BY <1>3, <1>4, <1>8, <1>14, StepFrame, JobFrame DEF IInv
  <1>15. HandlerInv(t)'
    <2>1. h.op \in {"complete", "fail"} => Stands(h)
      BY <1>1 DEF HandlerInv, Committed
    <2>2. Stands(h) => Stands(h)'
      BY <1>3, ReplyFacts DEF IInv, Stands, Replies
    <2>3. h.pc # "idle" /\ step' = step
      BY <1>1, <1>3
    <2> QED BY <1>3, <2>1, <2>2, <2>3, ReplyInv DEF Replies
  <1>16. \A k \in Jobs : StepInv(k)' /\ JobInv(k)'
    BY <1>12, <1>13, <1>14
  <1>17. \A u \in Threads : u # t => thread'[u] = thread[u]
    BY <1>3, ReplyFacts DEF IInv, Replies
  <1> QED BY <1>4, <1>9, <1>15, <1>16, <1>17, Assemble
-----------------------------------------------------------------------------
(***************************************************************************)
(* The invariant is inductive, and every step evolves.                     *)
(***************************************************************************)
LEMMA AnyNextIInv == IInv /\ [AnyNext]_vars => IInv' /\ Evolves
  <1> SUFFICES ASSUME IInv, [AnyNext]_vars PROVE IInv' /\ Evolves
    OBVIOUS
  <1>1. CASE UNCHANGED vars
    <2>1. UNCHANGED << node, job, step, thread, grants >>
      BY <1>1 DEF vars
    <2>2. Evolves
      BY <2>1 DEF Evolves
    <2>3. ASSUME NEW j \in Jobs PROVE StepInv(j)' /\ JobInv(j)'
      BY <2>1, <2>2, StepFrame, JobFrame DEF IInv
    <2>4. ASSUME NEW t \in Threads PROVE HandlerInv(t)'
      BY <2>1, <2>2, HandlerFrame
    <2>5. TypeOK'
      BY <2>1 DEF IInv, TypeOK
    <2> QED BY <2>2, <2>3, <2>4, <2>5 DEF IInv
  <1>2. ASSUME NEW j \in Jobs, CreateJob(j) \/ RecoverStep(j)
        PROVE  IInv' /\ Evolves
    BY <1>2, CreateJobStep, RecoverStepStep
  <1>3. ASSUME NEW n \in Nodes, Expire(n)
        PROVE  IInv' /\ Evolves
    BY <1>3, ExpireStep
  <1>4. ASSUME NEW t \in Threads, NEW r \in Sendable, Receive(t, r)
        PROVE  IInv' /\ Evolves
    BY <1>4, ReceiveStep
  <1>5. ASSUME NEW t \in Threads, Handle(t)
        PROVE  IInv' /\ Evolves
    BY <1>5, RegisterStep, HeartbeatStep, ClaimSelectStep, ClaimUpdateStep,
       ClaimRereadStep, StepReadStep, StepUpdateStep, JobReadStep, JobWriteStep DEF Handle
  <1>6. ASSUME NEW t \in Threads, Finish(t) \/ StorageError(t)
        PROVE  IInv' /\ Evolves
    BY <1>6, FinishStep, StorageErrorStep
  <1>7. CASE Restart
    BY <1>7, RestartStep
  <1> QED BY <1>1, <1>2, <1>3, <1>4, <1>5, <1>6, <1>7 DEF AnyNext

\* The requests that TLC enumerates are requests.
LEMMA NextIsAny == Next => AnyNext
  <1>1. Requests \subseteq Sendable
    BY DEF Requests, Sendable
  <1> QED BY <1>1 DEF Next, AnyNext

\* Every step keeps the invariant and undoes no outcome.
LEMMA NextIInv == IInv /\ [Next]_vars => IInv' /\ Evolves
  BY NextIsAny, AnyNextIInv

\* A handler's step leaves the record of every other handler alone.
LEMMA OthersWait ==
  ASSUME TypeOK, NEW t \in Threads, NEW u \in Threads, u # t, Handle(u)
  PROVE  thread'[t] = thread[t]
  <1>1. ASSUME NEW pc, Goto(u, pc) PROVE thread'[t] = thread[t]
    BY <1>1 DEF Goto, TypeOK
  <1>2. ASSUME NEW reply, ReplyWith(u, reply) PROVE thread'[t] = thread[t]
    BY <1>2 DEF ReplyWith, TypeOK
  <1>3. CASE RegisterRead(u) \/ RegisterInsert(u) \/ RegisterModify(u)
    BY <1>1, <1>2, <1>3 DEF RegisterRead, RegisterInsert, RegisterModify
  <1>4. CASE Heartbeat(u)
    BY <1>2, <1>4 DEF Heartbeat
  <1>5. CASE ClaimSelect(u)
    BY <1>2, <1>5 DEF ClaimSelect, TypeOK
  <1>6. CASE ClaimUpdate(u)
    BY <1>1, <1>2, <1>6 DEF ClaimUpdate
  <1>7. CASE ClaimReread(u)
    BY <1>7 DEF ClaimReread, TypeOK
  <1>8. CASE StepRead(u) \/ StepUpdate(u)
    BY <1>1, <1>2, <1>8 DEF StepRead, StepUpdate
  <1>9. CASE JobRead(u) \/ JobWrite(u)
    BY <1>2, <1>9 DEF JobRead, JobWrite, TypeOK
  <1> QED BY <1>3, <1>4, <1>5, <1>6, <1>7, <1>8, <1>9 DEF Handle

\* The strengthening holds in every state the Controller reaches.
THEOREM InvariantHolds == Spec => []IInv
  <1>1. IInv /\ [Next]_vars => IInv'
    BY NextIInv
  <1> QED BY InitIInv, <1>1, PTL DEF Spec
-----------------------------------------------------------------------------
(***************************************************************************)
(* What follows, for every value of the constants.                         *)
(***************************************************************************)
\* Every table and every handler keeps its type: what a handler computed in one
\* transaction is a legal row when it writes it in a later one.
THEOREM TypeCorrect == Spec => []TypeOK
  <1>1. IInv => TypeOK
    BY DEF IInv
  <1> QED BY InvariantHolds, <1>1, PTL

\* claim_next and claim_step lease a step at most once, whatever requests overlap
\* and whatever faults and recoveries come in between: the lease is counted by
\* claimed_at, which nothing resets.
THEOREM ClaimIsExclusive == Spec => []ClaimLeaseExclusive
  <1>1. ASSUME IInv, NEW j \in Jobs PROVE grants[j].count <= 1
    <2>1. grants[j].count = IF step[j].claimed THEN 1 ELSE 0
      BY <1>1 DEF IInv, StepInv
    <2> QED BY <2>1
  <1>2. IInv => ClaimLeaseExclusive
    BY <1>1 DEF ClaimLeaseExclusive
  <1> QED BY InvariantHolds, <1>2, PTL

\* What complete_step and fail_step acknowledge stays true of the step's row:
\* two reports of different outcomes are never both accepted.
THEOREM AcknowledgementHolds == Spec => []AcknowledgedReportStands
  <1>1. IInv => AcknowledgedReportStands
    BY DEF IInv, HandlerInv, Stands, AcknowledgedReportStands
  <1> QED BY InvariantHolds, <1>1, PTL

\* The job, written in a transaction of its own after the step, never shows an
\* outcome its step does not have.
THEOREM OutcomeIsJustified == Spec => []JobOutcomeJustified
  <1>1. IInv => JobOutcomeJustified
    BY DEF IInv, JobInv, JobOutcomeJustified
  <1> QED BY InvariantHolds, <1>1, PTL

\* output_json holds the pipeline's result exactly when the step is completed.
THEOREM ResultIsFromCompletion == Spec => []ResultOnlyFromCompletion
  <1>1. IInv => ResultOnlyFromCompletion
    BY DEF IInv, StepInv, ResultOnlyFromCompletion
  <1> QED BY InvariantHolds, <1>1, PTL

\* recover_timed_out_step spends at most one retry more than max_retries.
THEOREM RetriesAreBounded == Spec => []RetriesBounded
  <1>1. IInv => RetriesBounded
    BY DEF IInv, StepInv, RetriesBounded
  <1> QED BY InvariantHolds, <1>1, PTL

\* No request, scheduling pass or recovery changes a step that has its outcome.
THEOREM OutcomeIsFinal == Spec => TerminalStepFinal
  <1>1. IInv /\ [Next]_vars =>
          [\A j \in Jobs : step[j].status \in Terminal => step'[j] = step[j]]_vars
    BY NextIInv DEF Evolves
  <1> QED BY InvariantHolds, <1>1, PTL DEF Spec, TerminalStepFinal

\* The epoch fences: a handler whose request carries another epoch than the row
\* has now leaves every row as it is, although its validation may have passed.
THEOREM EpochFences == Spec => StaleReportHarmless
  <1> DEFINE Harmless ==
        \A t \in Threads :
          /\ thread[t].op \in StepOps
          /\ thread[t].pc = "update"
          /\ thread'[t] # thread[t]
          /\ thread[t].epoch # step[thread[t].job].epoch
          => step' = step
  <1>1. ASSUME IInv, [Next]_vars PROVE Harmless
    <2> SUFFICES ASSUME NEW t \in Threads, thread[t].op \in StepOps,
                        thread[t].pc = "update", thread'[t] # thread[t],
                        thread[t].epoch # step[thread[t].job].epoch
                 PROVE  step' = step
      OBVIOUS
    <2>1. Next
      BY <1>1 DEF vars
    <2>2. ASSUME NEW j \in Jobs, CreateJob(j) \/ RecoverStep(j) PROVE FALSE
      BY <2>2 DEF CreateJob, RecoverStep
    <2>3. ASSUME NEW n \in Nodes, Expire(n) PROVE FALSE
      BY <2>3 DEF Expire
    <2>4. ASSUME NEW u \in Threads, NEW r \in Requests, Receive(u, r) PROVE step' = step
      BY <2>4 DEF Receive
    <2>5. ASSUME NEW u \in Threads, Finish(u) \/ StorageError(u) PROVE step' = step
      BY <2>5 DEF Finish, StorageError
    <2>6. CASE Restart
      BY <2>6 DEF Restart
    <2>7. ASSUME NEW u \in Threads, Handle(u) PROVE step' = step
      <3>1. CASE u = t
        <4>1. StepUpdate(t)
          BY <1>1, <2>7, <3>1 DEF Handle, RegisterRead, RegisterInsert, RegisterModify,
             Heartbeat, ClaimSelect, ClaimUpdate, ClaimReread, StepRead, JobRead, JobWrite,
             At, StepOps, ReportOps
        <4> QED BY <4>1 DEF StepUpdate, GuardHolds
      <3>2. CASE u # t
        BY <1>1, <2>7, <3>2, OthersWait DEF IInv
      <3> QED BY <3>1, <3>2
    <2> QED BY <2>1, <2>2, <2>3, <2>4, <2>5, <2>6, <2>7 DEF Next
  <1>2. IInv /\ [Next]_vars => [Harmless]_vars
    BY <1>1
  <1> QED BY InvariantHolds, <1>2, PTL DEF Spec, StaleReportHarmless
=============================================================================
