---------------------------- MODULE Grove_proofs ----------------------------
(***************************************************************************)
(* Theorems about the whole control plane, for any number of worker        *)
(* processes, nodes, jobs and handlers, under every fault.                 *)
(***************************************************************************)
EXTENDS Grove, Ledger_proofs

(***************************************************************************)
(* The inductive invariant.  A lease is held by one party at a time: the   *)
(* claim_next handler that got it, then the process it was returned to.    *)
(* Reports of a job come only from that process, and the pipeline is run   *)
(* once between the acknowledged start and the report of its outcome.      *)
(***************************************************************************)
\* A claim_next handler that has the lease and has not lost its reply.
Leasing(h) ==
    h.op = "claim_next" /\ (h.pc = "reread" \/ (h.pc = "replied" /\ h.reply = "ok"))

ReportOn(h, j) == h.op \in ReportOps /\ h.job = j

\* A report past its commit: Committed, with "start" among the reports.
Past(h) ==
    /\ h.op \in ReportOps
    /\ h.pc \in {"jobread", "jobwrite"} \/ (h.pc = "replied" /\ h.reply = "ok")

\* Worker processes send neither claim_step nor progress_step.
SentInv(t) == thread[t].op \notin {"claim", "progress"}

\* The handler a process waits for is the one of its own request.
LinkInv(w) ==
    LET p == worker[w]
        h == thread[p.thread]
    IN  p.thread # NoThread =>
          /\ h.pc # "idle" /\ h.op = RequestOf[p.pc] /\ h.node = NodeOf[w]
          /\ Executing(p.pc) => h.job = p.job /\ h.epoch = p.epoch
          /\ \A v \in Workers : v # w => worker[v].thread # p.thread

LeaseInv(t) ==
    LET j == thread[t].job IN
    Leasing(thread[t]) =>
      /\ j \in Jobs /\ step[j].claimed /\ runs[j] = 0
      /\ \A w \in Workers : worker[w].job # j
      /\ \A u \in Threads : /\ u # t => ~(Leasing(thread[u]) /\ thread[u].job = j)
                            /\ ~ReportOn(thread[u], j)

HolderInv(w) ==
    LET p == worker[w] IN
    p.job # NoJob =>
      /\ step[p.job].claimed
      /\ p.pc = "start" => runs[p.job] = 0
      /\ p.pc \in {"run", "complete", "fail"} => runs[p.job] = 1
      /\ \A v \in Workers : v # w => worker[v].job # p.job

ReportInv(t) ==
    LET h == thread[t] IN
    h.op \in ReportOps =>
      /\ step[h.job].claimed
      /\ h.op = "start" => runs[h.job] = 0
      /\ h.op = "complete" => runs[h.job] = 1
      /\ \A w \in Workers : worker[w].job = h.job =>
           /\ worker[w].pc # "run"
           /\ worker[w].pc = "start" => worker[w].thread = t

RunsInv(j) ==
    /\ runs[j] <= 1
    /\ ~step[j].claimed => runs[j] = 0
    /\ step[j].status = "completed" => runs[j] = 1

\* Nothing but recovery takes a step away from the process that runs it.
RowInv(w) ==
    LET p == worker[w]
        s == step[p.job]
    IN  /\ p.pc = "run" => s.status = "running" /\ s.node = NodeOf[w] /\ s.epoch = p.epoch
        /\ p.pc = "start" /\ p.thread # NoThread /\ Past(thread[p.thread]) =>
             Stands(thread[p.thread])

\* A completed job shows 100, now and in the draft of its last write.
FullInv ==
    /\ \A j \in Jobs : job[j].status = "completed" => job[j].progress = 100
    /\ \A t \in Threads : thread[t].pc = "jobwrite" /\ thread[t].op = "complete" =>
                            thread[t].draft.progress = 100

GInv ==
    /\ WorkersTypeOK
    /\ \A t \in Threads : SentInv(t) /\ LeaseInv(t) /\ ReportInv(t)
    /\ \A w \in Workers : LinkInv(w) /\ HolderInv(w)
    /\ \A j \in Jobs : RunsInv(j)

\* Without requests given up by their sender, storage errors and restarts a report
\* is the only one of its job, and the job is written before anyone can look away.
CalmInv ==
    /\ \A t \in Threads :
         /\ Past(thread[t]) => Stands(thread[t])
         /\ thread[t].op \in ReportOps =>
              /\ \A u \in Threads : ReportOn(thread[u], thread[t].job) => u = t
              /\ \A w \in Workers : worker[w].job = thread[t].job => worker[w].thread = t
    /\ \A j \in Jobs : step[j].status \in {"completed", "failed"} =>
         \/ job[j].status = step[j].status
         \/ \E t \in Threads : ReportOn(thread[t], j) /\ thread[t].pc \in {"jobread", "jobwrite"}

USE JobsAssumption, ThreadAssumption, WorkersAssumption
-----------------------------------------------------------------------------
(***************************************************************************)
(* What one step of the Controller does, as far as leases and reports are  *)
(* concerned: to a handler's record, and to a row if handler t acts.       *)
(***************************************************************************)
HandlerMoves(u) ==
    LET h == thread[u]
        g == thread'[u]
    IN  /\ h.pc # "idle" /\ g.pc # "idle" /\ g.op = h.op /\ g.node = h.node
        /\ h.op # "claim_next" => g.job = h.job /\ g.epoch = h.epoch
        /\ Leasing(g) =>
             /\ g.job = h.job
             /\ \/ Leasing(h)
                \/ h.job \in Jobs /\ ~step[h.job].claimed /\ step'[h.job].claimed
        /\ Past(g) => Past(h) \/ Stands(thread[u])'

Freed(u) == Orphaned(u) /\ thread'[u] = Idle

\* The row as far as a report of it goes.
SameHold(j) ==
    /\ step'[j].status = step[j].status
    /\ step'[j].node = step[j].node /\ step'[j].epoch = step[j].epoch

RowMoves(t, j) ==
    /\ step[j].claimed => step'[j].claimed
    /\ step'[j].status = "completed" =>
         \/ step[j].status = "completed"
         \/ t \in Threads /\ thread[t].op = "complete" /\ thread[t].job = j
    /\ \/ SameHold(j)
       \/ step[j].status \in {"absent", "queued"} /\ step'[j].status \in {"queued", "assigned"}
       \/ /\ t \in Threads /\ ReportOn(thread[t], j)
          /\ thread[t].pc = "update" /\ thread'[t].pc = "jobread"
       \/ RecoveryLoop

Moves(t) ==
    /\ \A u \in Threads : thread'[u] = thread[u] \/ Freed(u) \/ HandlerMoves(u)
    /\ \A u \in Threads : u # t /\ Leasing(thread'[u]) => Leasing(thread[u])
    /\ \A j \in Jobs : RowMoves(t, j)

\* An action of handler t that leaves the rows alone.
LEMMA MovesAlone ==
  ASSUME TypeOK, NEW t \in Threads, step' = step,
         \A u \in Threads : u # t => thread'[u] = thread[u],
         thread'[t] = thread[t] \/ Freed(t) \/ HandlerMoves(t)
  PROVE  Moves(t)
  BY DEF Moves, RowMoves, SameHold

\* A response that is neither a lease nor the acknowledgement of a report.
LEMMA ReplyMoves ==
  ASSUME IInv, NEW t \in Threads, NEW reply \in Replies, ReplyWith(t, reply), step' = step,
         thread[t].pc # "idle",
         reply = "ok" => thread[t].op \notin {"claim_next"} \cup ReportOps
                           \/ thread[t].pc \in {"jobread", "jobwrite"}
  PROVE  Moves(t)
  <1>1. /\ \A u \in Threads : u # t => thread'[u] = thread[u]
        /\ thread'[t].pc = "replied" /\ thread'[t].reply = reply
        /\ thread'[t].op = thread[t].op /\ thread'[t].job = thread[t].job
        /\ thread'[t].node = thread[t].node /\ thread'[t].epoch = thread[t].epoch
    BY ReplyFacts DEF IInv
  <1>2. thread[t].pc \in {"jobread", "jobwrite"} => thread[t].op \in ReportOps
    BY DEF IInv, HandlerInv, HandlerShape
  <1>3. HandlerMoves(t)
    BY <1>1, <1>2 DEF HandlerMoves, Leasing, Past, ReportOps
  <1> QED BY <1>1, <1>3, MovesAlone DEF IInv

\* A handler that goes on before its commit.
LEMMA GotoMoves ==
  ASSUME IInv, NEW t \in Threads, NEW pc \in {"insert", "modify", "update"}, Goto(t, pc),
         step' = step, thread[t].pc # "idle"
  PROVE  Moves(t)
  <1>1. pc \in HandlerPc
    BY DEF HandlerPc
  <1>2. /\ \A u \in Threads : u # t => thread'[u] = thread[u]
        /\ thread'[t].pc = pc /\ thread'[t].op = thread[t].op
        /\ thread'[t].job = thread[t].job /\ thread'[t].node = thread[t].node
        /\ thread'[t].epoch = thread[t].epoch
    BY <1>1, GotoFacts DEF IInv
  <1>3. HandlerMoves(t)
    BY <1>2 DEF HandlerMoves, Leasing, Past
  <1> QED BY <1>2, <1>3, MovesAlone DEF IInv

\* heartbeat_node moves waiting rows.
LEMMA HeartbeatMoves ==
  ASSUME IInv, NEW t \in Threads, Heartbeat(t)
  PROVE  Moves(t)
  <1>1. thread[t].pc = "read" /\ thread[t].op = "heartbeat"
    BY DEF Heartbeat, At
  <1>2. CASE ReplyWith(t, "refused") /\ UNCHANGED step
    BY <1>1, <1>2, ReplyMoves DEF Replies
  <1>3. CASE ReplyWith(t, "ok") /\ ScheduleQueuedSteps(node')
    <2>1. \A j \in Jobs :
            \/ step'[j] = step[j]
            \/ /\ step[j].status = "queued"
               /\ \E n \in Nodes : step'[j] = AssignStep(step[j], n)
      BY <1>3, ScheduleFacts DEF IInv, TypeOK
    <2>2. ASSUME NEW j \in Jobs PROVE RowMoves(t, j)
      <3>1. CASE step'[j] = step[j]
        BY <3>1 DEF RowMoves, SameHold
      <3>2. CASE step'[j] # step[j]
        <4>1. PICK n \in Nodes : step'[j] = AssignStep(step[j], n)
          BY <2>1, <3>2
        <4>2. step[j] \in StepRow
          BY DEF IInv, TypeOK
        <4>3. step'[j].status = "assigned" /\ step'[j].claimed = step[j].claimed
          BY <4>1, <4>2, AssignStepFacts
        <4> QED BY <2>1, <3>2, <4>3 DEF RowMoves
      <3> QED BY <3>1, <3>2
    <2>3. /\ \A u \in Threads : u # t => thread'[u] = thread[u]
          /\ thread'[t].pc = "replied" /\ thread'[t].reply = "ok"
          /\ thread'[t].op = thread[t].op /\ thread'[t].job = thread[t].job
          /\ thread'[t].node = thread[t].node /\ thread'[t].epoch = thread[t].epoch
      BY <1>3, ReplyFacts DEF IInv, Replies
    <2>4. HandlerMoves(t)
      BY <1>1, <2>3 DEF HandlerMoves, Leasing, Past, ReportOps
    <2> QED BY <2>2, <2>3, <2>4 DEF Moves
  <1> QED BY <1>2, <1>3 DEF Heartbeat

\* claim_next's choice moves its own handler.
LEMMA ClaimSelectMoves ==
  ASSUME IInv, NEW t \in Threads, ClaimSelect(t)
  PROVE  Moves(t)
  <1>1. thread[t].pc = "read" /\ thread[t].op = "claim_next" /\ step' = step
    BY DEF ClaimSelect, At
  <1>2. CASE ReplyWith(t, "empty")
    BY <1>1, <1>2, ReplyMoves DEF Replies
  <1>3. ASSUME NEW j \in Jobs, thread' = [thread EXCEPT ![t].pc = "update", ![t].job = j]
        PROVE  Moves(t)
    <2> DEFINE h == [thread[t] EXCEPT !.pc = "update", !.job = j]
    <2>1. h.pc = "update" /\ h.op = thread[t].op /\ h.node = thread[t].node
      <3>1. thread[t] \in Handler
        BY DEF IInv, TypeOK
      <3> QED BY <3>1 DEF Handler
    <2>2. thread' = [thread EXCEPT ![t] = h]
      BY <1>3
    <2> HIDE DEF h
    <2>3. thread'[t] = h /\ \A u \in Threads : u # t => thread'[u] = thread[u]
      BY <2>2 DEF IInv, TypeOK
    <2>4. HandlerMoves(t)
      BY <1>1, <2>1, <2>3 DEF HandlerMoves, Leasing, Past
    <2> QED BY <1>1, <2>3, <2>4, MovesAlone DEF IInv
  <1> QED BY <1>2, <1>3 DEF ClaimSelect

\* claim_next's UPDATE leases one row.
LEMMA ClaimUpdateMoves ==
  ASSUME IInv, NEW t \in Threads, ClaimUpdate(t)
  PROVE  Moves(t)
  <1> DEFINE j == thread[t].job
  <1>1. thread[t].pc = "update" /\ thread[t].op = "claim_next" /\ j \in Jobs
    BY DEF ClaimUpdate, At, IInv, HandlerInv, HandlerShape
  <1>2. CASE Claimable(j, thread[t].node)
    <2>1. GrantLease(j) /\ Goto(t, "reread")
      BY <1>2 DEF ClaimUpdate
    <2>2. /\ \A k \in Jobs : k # j => step'[k] = step[k]
          /\ step'[j].claimed = TRUE
          /\ step'[j].status = step[j].status /\ step'[j].node = step[j].node
          /\ step'[j].epoch = step[j].epoch
      BY <1>1, <2>1, GrantFacts DEF IInv
    <2>3. /\ \A u \in Threads : u # t => thread'[u] = thread[u]
          /\ thread'[t].pc = "reread" /\ thread'[t].op = thread[t].op
          /\ thread'[t].job = j /\ thread'[t].node = thread[t].node
      BY <2>1, GotoFacts DEF IInv, HandlerPc
    <2>4. HandlerMoves(t)
      BY <1>1, <1>2, <2>2, <2>3 DEF HandlerMoves, Leasing, Past, Claimable, ReportOps
    <2>5. ASSUME NEW k \in Jobs PROVE RowMoves(t, k)
      BY <2>2 DEF RowMoves, SameHold
    <2> QED BY <2>3, <2>4, <2>5 DEF Moves
  <1>3. CASE ~Claimable(j, thread[t].node)
    BY <1>1, <1>3, ReplyMoves DEF ClaimUpdate, Replies
  <1> QED BY <1>2, <1>3

\* claim_next answers with the lease it was granted.
LEMMA ClaimRereadMoves ==
  ASSUME IInv, NEW t \in Threads, ClaimReread(t)
  PROVE  Moves(t)
  <1> DEFINE e == step[thread[t].job].epoch
             h == [thread[t] EXCEPT !.pc = "replied", !.reply = "ok", !.epoch = e]
  <1>1. thread[t].pc = "reread" /\ thread[t].op = "claim_next" /\ step' = step
    BY DEF ClaimReread, At
  <1>2. thread' = [thread EXCEPT ![t] = h]
    BY DEF ClaimReread
  <1> HIDE DEF e
  <1>3. h.pc = "replied" /\ h.op = thread[t].op /\ h.node = thread[t].node
        /\ h.job = thread[t].job
    <2>1. thread[t] \in Handler
      BY DEF IInv, TypeOK
    <2> QED BY <2>1 DEF Handler
  <1> HIDE DEF h
  <1>4. thread'[t] = h /\ \A u \in Threads : u # t => thread'[u] = thread[u]
    BY <1>2 DEF IInv, TypeOK
  <1>5. HandlerMoves(t)
    BY <1>1, <1>3, <1>4 DEF HandlerMoves, Leasing, Past, ReportOps
  <1> QED BY <1>1, <1>4, <1>5, MovesAlone DEF IInv

\* A report moves the row it names.
LEMMA StepUpdateMoves ==
  ASSUME IInv, NEW t \in Threads, SentInv(t), StepUpdate(t)
  PROVE  Moves(t)
  <1> DEFINE h == thread[t]
             j == h.job
  <1>1. h.pc = "update" /\ h.op \in ReportOps /\ j \in Jobs
    BY DEF StepUpdate, At, IInv, HandlerInv, HandlerShape, SentInv, StepOps
  <1>2. CASE ~GuardHolds(h, step[j])
    BY <1>1, <1>2, ReplyMoves DEF StepUpdate, Replies
  <1>3. CASE GuardHolds(h, step[j])
    <2> DEFINE r == Reported(h.op, step[j])
    <2>1. step' = [step EXCEPT ![j] = r] /\ Goto(t, "jobread")
      BY <1>1, <1>3 DEF StepUpdate, ReportOps
    <2>2. /\ r \in StepRow /\ r.status = Target(h.op)
          /\ r.node = step[j].node /\ r.epoch = step[j].epoch /\ r.claimed = step[j].claimed
      BY <1>1, ReportedFacts DEF IInv, TypeOK, ReportOps
    <2> HIDE DEF r
    <2>3. step'[j] = r /\ \A k \in Jobs : k # j => step'[k] = step[k]
      BY <1>1, <2>1, <2>2 DEF IInv, TypeOK
    <2>4. /\ \A u \in Threads : u # t => thread'[u] = thread[u]
          /\ thread'[t].pc = "jobread" /\ thread'[t].op = h.op /\ thread'[t].job = j
          /\ thread'[t].node = h.node /\ thread'[t].epoch = h.epoch
      BY <2>1, GotoFacts DEF IInv, HandlerPc
    <2>5. Stands(thread[t])'
      BY <1>3, <2>2, <2>3, <2>4 DEF Stands, GuardHolds
    <2>6. HandlerMoves(t)
      BY <1>1, <2>4, <2>5 DEF HandlerMoves, Leasing, ReportOps
    <2>7. RowMoves(t, j)
      BY <1>1, <2>2, <2>3, <2>4 DEF RowMoves, ReportOn, ReportOps, Target
    <2>8. ASSUME NEW k \in Jobs, k # j PROVE RowMoves(t, k)
      BY <2>3, <2>8 DEF RowMoves, SameHold
    <2> QED BY <2>4, <2>6, <2>7, <2>8 DEF Moves
  <1> QED BY <1>2, <1>3

\* The second transaction moves no row.
LEMMA JobReadMoves ==
  ASSUME IInv, NEW t \in Threads, JobRead(t)
  PROVE  Moves(t)
  <1> DEFINE d == Draft(thread[t].op, job[thread[t].job], step[thread[t].job])
             h == [thread[t] EXCEPT !.pc = "jobwrite", !.draft = d]
  <1>1. thread[t].pc = "jobread" /\ thread[t].op \in ReportOps /\ step' = step
    BY DEF JobRead, At
  <1>2. CASE ReplyWith(t, "ok")
    BY <1>1, <1>2, ReplyMoves DEF Replies
  <1>3. CASE thread' = [thread EXCEPT ![t].pc = "jobwrite", ![t].draft = d]
    <2>1. thread' = [thread EXCEPT ![t] = h]
      BY <1>3
    <2> HIDE DEF d
    <2>2. h.pc = "jobwrite" /\ h.op = thread[t].op /\ h.node = thread[t].node
          /\ h.job = thread[t].job /\ h.epoch = thread[t].epoch
      <3>1. thread[t] \in Handler
        BY DEF IInv, TypeOK
      <3> QED BY <3>1 DEF Handler
    <2> HIDE DEF h
    <2>3. thread'[t] = h /\ \A u \in Threads : u # t => thread'[u] = thread[u]
      BY <2>1 DEF IInv, TypeOK
    <2>4. HandlerMoves(t)
      BY <1>1, <2>2, <2>3 DEF HandlerMoves, Leasing, Past, ReportOps
    <2> QED BY <1>1, <2>3, <2>4, MovesAlone DEF IInv
  <1> QED BY <1>2, <1>3 DEF JobRead

\* Any step of a handler moves records and rows like that.
LEMMA HandleMoves ==
  ASSUME IInv, NEW t \in Threads, SentInv(t), Handle(t)
  PROVE  Moves(t)
  <1>1. CASE RegisterRead(t) \/ RegisterInsert(t) \/ RegisterModify(t)
    <2>1. thread[t].pc # "idle" /\ thread[t].op = "register" /\ step' = step
      BY <1>1 DEF RegisterRead, RegisterInsert, RegisterModify, At
    <2> QED BY <1>1, <2>1, GotoMoves, ReplyMoves
            DEF RegisterRead, RegisterInsert, RegisterModify, Replies, ReportOps
  <1>2. CASE StepRead(t)
    <2>1. thread[t].pc = "read" /\ step' = step
      BY <1>2 DEF StepRead, At
    <2> QED BY <1>2, <2>1, GotoMoves, ReplyMoves DEF StepRead, Replies
  <1>3. CASE JobWrite(t)
    <2>1. thread[t].pc = "jobwrite" /\ step' = step /\ ReplyWith(t, "ok")
      BY <1>3 DEF JobWrite, At
    <2> QED BY <2>1, ReplyMoves DEF Replies
  <1> QED BY <1>1, <1>2, <1>3, HeartbeatMoves, ClaimSelectMoves, ClaimUpdateMoves,
             ClaimRereadMoves, StepUpdateMoves, JobReadMoves DEF Handle

\* So does what moves without a handler: t is then NoThread.
LEMMA RestartMoves ==
  ASSUME IInv, Restart
  PROVE  Moves(NoThread)
  <1>1. ASSUME NEW t \in Threads PROVE thread'[t] = thread[t] \/ HandlerMoves(t)
    <2> DEFINE h == [thread[t] EXCEPT !.pc = "replied", !.reply = "error"]
    <2>1. CASE thread[t].pc = "idle"
      BY <2>1 DEF Restart
    <2>2. CASE thread[t].pc # "idle"
      <3>1. thread'[t] = h
        BY <2>2 DEF Restart
      <3>2. h.pc = "replied" /\ h.reply = "error" /\ h.op = thread[t].op
            /\ h.node = thread[t].node /\ h.job = thread[t].job /\ h.epoch = thread[t].epoch
        <4>1. thread[t] \in Handler
          BY DEF IInv, TypeOK
        <4> QED BY <4>1 DEF Handler
      <3> HIDE DEF h
      <3> QED BY <2>2, <3>1, <3>2 DEF HandlerMoves, Leasing, Past
    <2> QED BY <2>1, <2>2
  <1>2. ASSUME NEW t \in Threads, Leasing(thread'[t]) PROVE Leasing(thread[t])
    <2> DEFINE h == [thread[t] EXCEPT !.pc = "replied", !.reply = "error"]
    <2>1. thread[t].pc # "idle" => thread'[t] = h
      BY DEF Restart
    <2>2. h.pc = "replied" /\ h.reply = "error"
      <3>1. thread[t] \in Handler
        BY DEF IInv, TypeOK
      <3> QED BY <3>1 DEF Handler
    <2> HIDE DEF h
    <2>3. thread[t].pc = "idle" => thread'[t] = thread[t]
      BY DEF Restart
    <2> QED BY <1>2, <2>1, <2>2, <2>3 DEF Leasing
  <1>3. step' = step
    BY DEF Restart
  <1> QED BY <1>1, <1>2, <1>3 DEF Moves, RowMoves, SameHold

\* Submission and recovery.
LEMMA EnvironmentMoves ==
  ASSUME IInv, NEW j \in Jobs, CreateJob(j) \/ RecoverStep(j)
  PROVE  Moves(NoThread)
  <1>1. thread' = thread
    BY DEF CreateJob, RecoverStep
  <1>2. CASE CreateJob(j)
    <2>1. step[j].status = "absent" /\ ~step[j].claimed
      BY <1>2 DEF CreateJob, IInv, StepInv, FreshStep
    <2>2. step'[j] = FreshStep("queued") /\ \A k \in Jobs : k # j => step'[k] = step[k]
      BY <1>2 DEF CreateJob, IInv, TypeOK
    <2>3. ASSUME NEW k \in Jobs PROVE RowMoves(NoThread, k)
      BY <2>1, <2>2 DEF RowMoves, SameHold, FreshStep
    <2> QED BY <1>1, <2>3 DEF Moves
  <1>3. CASE RecoverStep(j)
    <2> DEFINE r == RecoverTimedOutStep(step[j])
    <2>1. step[j] \in StepRow /\ Recoverable(step[j]) /\ RecoveryLoop
      BY <1>3 DEF RecoverStep, IInv, TypeOK
    <2>2. r \in StepRow /\ r.status \in {"queued", "failed"} /\ r.claimed = step[j].claimed
      BY <2>1, RecoverFacts
    <2>3. step' = [step EXCEPT ![j] = r]
      BY <1>3 DEF RecoverStep
    <2> HIDE DEF r
    <2>4. step'[j] = r /\ \A k \in Jobs : k # j => step'[k] = step[k]
      BY <2>2, <2>3 DEF IInv, TypeOK
    <2>5. ASSUME NEW k \in Jobs PROVE RowMoves(NoThread, k)
      BY <2>1, <2>2, <2>4 DEF RowMoves, SameHold
    <2> QED BY <1>1, <2>5 DEF Moves
  <1> QED BY <1>2, <1>3

\* A handler whose response is read or lost ends.
LEMMA ThreadEndMoves ==
  ASSUME IInv, NEW t \in Threads, StorageError(t) \/ (Orphaned(t) /\ Finish(t))
  PROVE  Moves(t)
  <1>1. CASE StorageError(t)
    BY <1>1, ReplyMoves DEF StorageError, Working, Replies
  <1>2. CASE Orphaned(t) /\ Finish(t)
    <2>1. thread'[t] = Idle /\ \A u \in Threads : u # t => thread'[u] = thread[u]
      BY <1>2 DEF Finish, IInv, TypeOK
    <2> QED BY <1>2, <2>1, MovesAlone DEF Freed, Finish, IInv
  <1> QED BY <1>1, <1>2

\* Time alone moves neither handlers nor rows.
LEMMA ExpireMoves ==
  ASSUME NEW n \in Nodes, Expire(n)
  PROVE  Moves(NoThread)
  BY DEF Expire, Moves, RowMoves, SameHold
-----------------------------------------------------------------------------
(***************************************************************************)
(* The Controller's steps keep the invariant.                              *)
(***************************************************************************)
LEMMA MovesKeep ==
  ASSUME GInv, IInv, NEW t \in Threads \cup {NoThread}, Moves(t), UNCHANGED workerVars
  PROVE  GInv'
  <1> USE DEF workerVars
  <1>1. WorkersTypeOK'
    BY DEF GInv, WorkersTypeOK
  <1>2. \A j \in Jobs : step[j].claimed => step'[j].claimed
    BY DEF Moves, RowMoves
  <1>3. ASSUME NEW u \in Threads
        PROVE  /\ thread'[u].op \in ReportOps =>
                    thread[u].op = thread'[u].op /\ thread[u].job = thread'[u].job
               /\ thread[u].op = thread'[u].op \/ thread'[u].op = "none"
    BY DEF Moves, HandlerMoves, Freed, Idle, ReportOps
  <1>4. ASSUME NEW u \in Threads, thread[u].op \in ReportOps PROVE thread[u].job \in Jobs
    BY <1>4 DEF IInv, HandlerInv, HandlerShape, StepOps
  <1>5. ASSUME NEW u \in Threads PROVE SentInv(u)'
    BY <1>3 DEF GInv, SentInv
  <1>6. ASSUME NEW u \in Threads, Leasing(thread'[u])
        PROVE  LET j == thread[u].job IN
               /\ thread'[u].job = j /\ j \in Jobs
               /\ \/ Leasing(thread[u])
                  \/ ~step[j].claimed /\ step'[j].claimed /\ u = t
    BY <1>6 DEF Moves, HandlerMoves, Freed, Idle, Leasing, GInv, LeaseInv
  <1>7. ASSUME NEW u \in Threads PROVE LeaseInv(u)'
    <2> DEFINE j == thread[u].job
    <2> SUFFICES ASSUME Leasing(thread'[u]) PROVE LeaseInv(u)'
      BY DEF LeaseInv
    <2>1. thread'[u].job = j /\ j \in Jobs
      BY <1>6
    <2>2. /\ runs[j] = 0 /\ step'[j].claimed
          /\ \A w \in Workers : worker[w].job # j
      BY <1>2, <1>6 DEF GInv, LeaseInv, RunsInv, HolderInv
    <2>3. ASSUME NEW v \in Threads, v # u, Leasing(thread'[v]), thread'[v].job = j
          PROVE  FALSE
      <3>1. thread[v].job = j
        BY <1>6, <2>3
      <3> QED BY <1>6, <2>3, <3>1 DEF GInv, LeaseInv
    <2>4. ASSUME NEW v \in Threads, ReportOn(thread'[v], j)
          PROVE  FALSE
      <3>1. ReportOn(thread[v], j)
        BY <1>3, <2>4 DEF ReportOn
      <3>2. step[j].claimed
        BY <3>1 DEF ReportOn, GInv, ReportInv
      <3> QED BY <1>6, <3>1, <3>2 DEF GInv, LeaseInv
    <2> QED BY <2>1, <2>2, <2>3, <2>4 DEF LeaseInv
  <1>8. ASSUME NEW u \in Threads PROVE ReportInv(u)'
    <2> SUFFICES ASSUME thread'[u].op \in ReportOps PROVE ReportInv(u)'
      BY DEF ReportInv
    <2> QED BY <1>2, <1>3, <1>4 DEF GInv, ReportInv
  <1>9. ASSUME NEW w \in Workers PROVE LinkInv(w)'
    <2> DEFINE u == worker[w].thread
    <2> SUFFICES ASSUME u # NoThread PROVE LinkInv(w)'
      BY DEF LinkInv
    <2>1. u \in Threads /\ LinkInv(w)
      BY DEF GInv, WorkersTypeOK, Process
    <2>2. ~Freed(u)
      BY DEF Freed, Orphaned
    <2>3. Executing(worker[w].pc) => thread[u].op # "claim_next"
      <3>1. worker[w].pc \in DOMAIN RequestOf
        BY DEF GInv, WorkersTypeOK
      <3> QED BY <2>1, <3>1 DEF LinkInv, Executing, RequestOf
    <2>4. /\ thread'[u].pc # "idle" /\ thread'[u].op = thread[u].op
          /\ thread'[u].node = thread[u].node
          /\ Executing(worker[w].pc) =>
               thread'[u].job = thread[u].job /\ thread'[u].epoch = thread[u].epoch
      BY <2>1, <2>2, <2>3 DEF Moves, HandlerMoves, LinkInv
    <2> QED BY <2>1, <2>4 DEF LinkInv
  <1>10. ASSUME NEW w \in Workers PROVE HolderInv(w)'
    <2>1. worker[w].job \in Jobs \cup {NoJob} /\ HolderInv(w)
      BY DEF GInv, WorkersTypeOK, Process
    <2> QED BY <1>2, <2>1 DEF HolderInv
  <1>11. ASSUME NEW j \in Jobs PROVE RunsInv(j)'
    <2>1. step'[j].status = "completed" => runs[j] = 1
      <3>1. RowMoves(t, j) /\ RunsInv(j)
        BY DEF Moves, GInv
      <3>2. ASSUME t \in Threads, thread[t].op = "complete" PROVE runs[thread[t].job] = 1
        BY <3>2 DEF GInv, ReportInv, ReportOps
      <3> QED BY <3>1, <3>2 DEF RowMoves, RunsInv
    <2> QED BY <1>2, <2>1 DEF GInv, RunsInv
  <1> QED BY <1>1, <1>5, <1>7, <1>8, <1>9, <1>10, <1>11 DEF GInv

\* As long as nothing recovers steps, the rows of running steps stay too.
LEMMA MovesKeepRow ==
  ASSUME GInv, IInv, NEW t \in Threads \cup {NoThread}, Moves(t), UNCHANGED workerVars,
         ~RecoveryLoop, NEW w \in Workers, RowInv(w)
  PROVE  RowInv(w)'
  <1> USE DEF workerVars
  <1> DEFINE j == worker[w].job
             u == worker[w].thread
  <1>1. worker[w].pc \in {"run", "start"} => j \in Jobs
    BY DEF GInv, WorkersTypeOK, Process, Executing
  <1>2. CASE worker[w].pc = "run"
    <2>1. t \in Threads => ~ReportOn(thread[t], j)
      BY <1>2 DEF ReportOn, GInv, ReportInv
    <2>2. SameHold(j)
      BY <1>1, <1>2, <2>1 DEF RowInv, Moves, RowMoves
    <2> QED BY <1>2, <2>2 DEF RowInv, SameHold
  <1>3. CASE worker[w].pc = "start" /\ u # NoThread /\ Past(thread'[u])
    <2>1. u \in Threads /\ thread[u].job = j /\ thread[u].op = "start"
      BY <1>3 DEF GInv, WorkersTypeOK, Process, LinkInv, Executing, RequestOf
    <2>2. ~Freed(u)
      BY <1>3 DEF Freed, Orphaned
    <2>3. CASE Stands(thread[u])'
      BY <1>3, <2>3 DEF RowInv
    <2>4. CASE ~Stands(thread[u])'
      <3>1. Past(thread[u]) /\ thread'[u].op = thread[u].op /\ thread'[u].job = j
            /\ thread'[u].node = thread[u].node /\ thread'[u].epoch = thread[u].epoch
        BY <1>3, <2>1, <2>2, <2>4 DEF Moves, HandlerMoves
      <3>2. Stands(thread[u])
        BY <1>3, <3>1 DEF RowInv
      <3>3. ASSUME t \in Threads, ReportOn(thread[t], j) PROVE t = u
        BY <1>3, <3>3 DEF ReportOn, GInv, ReportInv
      <3>4. SameHold(j)
        BY <1>1, <1>3, <2>1, <3>1, <3>2, <3>3
           DEF Moves, RowMoves, Stands, Target, Past
      <3> QED BY <2>1, <2>4, <3>1, <3>2, <3>4 DEF Stands, SameHold
    <2> QED BY <2>3, <2>4
  <1> QED BY <1>2, <1>3 DEF RowInv-----------------------------------------------------------------------------
(***************************************************************************)
(* The processes' steps.                                                   *)
(***************************************************************************)
Becomes(w, q, next) == worker' = [worker EXCEPT ![w] = Become(q, next)]

\* What a process is after it becomes something else.
LEMMA BecomeFacts ==
  ASSUME WorkersTypeOK, NEW w \in Workers, NEW next \in WorkerPc, NEW q \in Process,
         Becomes(w, q, next),
         Executing(next) => q.job # NoJob,
         runs' \in [Jobs -> Nat]
  PROVE  /\ WorkersTypeOK'
         /\ worker'[w].pc = next /\ worker'[w].thread = NoThread
         /\ Executing(next) => worker'[w].job = q.job /\ worker'[w].epoch = q.epoch
         /\ ~Executing(next) => worker'[w].job = NoJob
         /\ \A v \in Workers : v # w => worker'[v] = worker[v]
  <1> DEFINE p == Become(q, next)
  <1>1. p \in Process
    BY DEF Become, Process
  <1>2. /\ p.pc = next /\ p.thread = NoThread
        /\ Executing(next) => p.job = q.job /\ p.epoch = q.epoch
        /\ ~Executing(next) => p.job = NoJob
    BY DEF Become
  <1>3. worker' = [worker EXCEPT ![w] = p]
    BY DEF Becomes
  <1> HIDE DEF p
  <1>4. /\ worker' \in [Workers -> Process] /\ worker'[w] = p
        /\ \A v \in Workers : v # w => worker'[v] = worker[v]
    BY <1>1, <1>3 DEF WorkersTypeOK
  <1>5. WorkersTypeOK'
    BY <1>2, <1>4 DEF WorkersTypeOK
  <1> QED BY <1>2, <1>4, <1>5

\* Nobody but the process itself is concerned when it neither takes a step nor
\* starts its pipeline: what it leaves behind goes on by itself.
LEMMA LetGo ==
  ASSUME GInv, IInv, NEW w \in Workers, NEW next \in WorkerPc \ {"start", "run"},
         Becomes(w, worker[w], next),
         Executing(next) => Executing(worker[w].pc),
         next \in {"complete", "fail"} => worker[w].pc = "run",
         runs' = runs, step' = step,
         \A u \in Threads : \/ thread'[u] = thread[u]
                            \/ u = worker[w].thread /\ thread'[u] = Idle
  PROVE  /\ GInv'
         /\ \A v \in Workers : RowInv(v) => RowInv(v)'
  <1>1. /\ WorkersTypeOK /\ worker[w] \in Process /\ runs' \in [Jobs -> Nat]
        /\ Becomes(w, worker[w], next)
    BY DEF GInv, WorkersTypeOK, Becomes
  <1>2. Executing(next) => worker[w].job # NoJob
    BY DEF GInv, WorkersTypeOK
  <1>3. /\ WorkersTypeOK'
        /\ worker'[w].pc = next /\ worker'[w].thread = NoThread
        /\ worker'[w].job \in {worker[w].job, NoJob}
        /\ \A v \in Workers : v # w => worker'[v] = worker[v]
    BY <1>1, <1>2, BecomeFacts
  <1>4. ASSUME NEW u \in Threads, thread'[u] # thread[u]
        PROVE  /\ u = worker[w].thread /\ thread'[u].op = "none"
               /\ ~Leasing(thread'[u]) /\ thread'[u].op \notin ReportOps
    BY <1>4 DEF Idle, Leasing, ReportOps
  <1>5. ASSUME NEW u \in Threads PROVE SentInv(u)'
    BY <1>4 DEF GInv, SentInv
  <1>6. ASSUME NEW u \in Threads PROVE LeaseInv(u)'
    <2> SUFFICES ASSUME Leasing(thread'[u]) PROVE LeaseInv(u)'
      BY DEF LeaseInv
    <2>1. thread'[u] = thread[u] /\ LeaseInv(u)
      BY <1>4 DEF GInv
    <2>2. \A v \in Workers : worker'[v].job # thread[u].job
      BY <1>3, <2>1, JobsAssumption DEF LeaseInv
    <2> QED BY <1>4, <2>1, <2>2 DEF LeaseInv, ReportOn
  <1>7. ASSUME NEW u \in Threads PROVE ReportInv(u)'
    <2> SUFFICES ASSUME thread'[u].op \in ReportOps PROVE ReportInv(u)'
      BY DEF ReportInv
    <2>1. thread'[u] = thread[u] /\ ReportInv(u)
      BY <1>4 DEF GInv
    <2> QED BY <1>3, <2>1 DEF ReportInv
  <1>8. ASSUME NEW v \in Workers PROVE LinkInv(v)'
    <2> SUFFICES ASSUME v # w, worker[v].thread # NoThread PROVE LinkInv(v)'
      BY <1>3 DEF LinkInv
    <2>1. worker[v].thread \in Threads /\ LinkInv(v)
      BY DEF GInv, WorkersTypeOK, Process
    <2>2. thread'[worker[v].thread] = thread[worker[v].thread]
      BY <1>4, <2>1 DEF LinkInv
    <2> QED BY <1>3, <2>1, <2>2 DEF LinkInv
  <1>9. ASSUME NEW v \in Workers PROVE HolderInv(v)'
    BY <1>1, <1>3 DEF GInv, HolderInv
  <1>10. ASSUME NEW j \in Jobs PROVE RunsInv(j)'
    BY DEF GInv, RunsInv
  <1>11. ASSUME NEW v \in Workers, RowInv(v) PROVE RowInv(v)'
    <2>1. CASE v = w
      BY <1>3, <2>1 DEF RowInv
    <2>2. CASE v # w
      <3>1. worker[v].thread # NoThread =>
              worker[v].thread \in Threads /\ worker[w].thread # worker[v].thread
        BY <2>2 DEF GInv, WorkersTypeOK, Process, LinkInv
      <3>2. worker[v].thread # NoThread =>
              thread'[worker[v].thread] = thread[worker[v].thread]
        BY <1>4, <3>1
      <3> QED BY <1>3, <1>11, <2>2, <3>2 DEF RowInv, Stands
    <2> QED BY <2>1, <2>2
  <1> QED BY <1>3, <1>5, <1>6, <1>7, <1>8, <1>9, <1>10, <1>11 DEF GInv

\* A process makes its next request.
LEMMA SendKeep ==
  ASSUME GInv, IInv, NEW w \in Workers, NEW t \in Threads, Send(w, t)
  PROVE  /\ GInv'
         /\ \A v \in Workers : RowInv(v) => RowInv(v)'
  <1> DEFINE h == [ pc |-> "read", op |-> RequestOf[worker[w].pc], job |-> worker[w].job,
                    node |-> NodeOf[w], epoch |-> worker[w].epoch,
                    draft |-> NoJobRow, reply |-> "none" ]
             p == [worker[w] EXCEPT !.thread = t]
  <1>1. /\ worker[w] \in Process /\ worker[w].pc \in DOMAIN RequestOf
        /\ worker[w].thread = NoThread
        /\ Executing(worker[w].pc) <=> worker[w].job # NoJob
        /\ thread[t].pc = "idle" /\ step' = step /\ runs' = runs
    BY DEF Send, Waiting, Receive, GInv, WorkersTypeOK
  <1>2. thread'[t] = h /\ \A u \in Threads : u # t => thread'[u] = thread[u]
    BY DEF Send, Receive, IInv, TypeOK
  <1>3. /\ p \in Process /\ p.pc = worker[w].pc /\ p.thread = t
        /\ p.job = worker[w].job /\ p.epoch = worker[w].epoch
    BY <1>1 DEF Process
  <1>4. /\ h.pc = "read" /\ h.op = RequestOf[worker[w].pc] /\ h.job = worker[w].job
        /\ h.node = NodeOf[w] /\ h.epoch = worker[w].epoch
    OBVIOUS
  <1>5. worker' = [worker EXCEPT ![w] = p]
    BY DEF Send
  <1> HIDE DEF h, p
  <1>6. /\ worker' \in [Workers -> Process] /\ worker'[w] = p
        /\ \A v \in Workers : v # w => worker'[v] = worker[v]
    BY <1>3, <1>5 DEF GInv, WorkersTypeOK
  <1>7. WorkersTypeOK'
    BY <1>1, <1>3, <1>6 DEF GInv, WorkersTypeOK
  <1>8. \A v \in Workers : worker'[v].job = worker[v].job /\ worker'[v].pc = worker[v].pc
    BY <1>3, <1>6
  <1>9. /\ ~Leasing(h) /\ ~Past(h)
        /\ h.op \notin {"claim", "progress"}
        /\ h.op \in ReportOps => /\ Executing(worker[w].pc)
                                 /\ worker[w].pc # "run"
                                 /\ worker[w].job \in Jobs
                                 /\ h.op = "start" => worker[w].pc = "start"
                                 /\ h.op = "complete" => worker[w].pc = "complete"
    BY <1>1, <1>4 DEF Leasing, Past, RequestOf, ReportOps, Executing, Process
  <1>10. ASSUME NEW u \in Threads PROVE SentInv(u)'
    BY <1>2, <1>9 DEF GInv, SentInv
  <1>11. ASSUME NEW u \in Threads PROVE LeaseInv(u)'
    <2> SUFFICES ASSUME Leasing(thread'[u]) PROVE LeaseInv(u)'
      BY DEF LeaseInv
    <2>1. u # t /\ thread'[u] = thread[u] /\ LeaseInv(u)
      BY <1>2, <1>9 DEF GInv
    <2> QED BY <1>1, <1>2, <1>4, <1>8, <1>9, <2>1 DEF LeaseInv, ReportOn
  <1>12. ASSUME NEW u \in Threads PROVE ReportInv(u)'
    <2> SUFFICES ASSUME thread'[u].op \in ReportOps PROVE ReportInv(u)'
      BY DEF ReportInv
    <2>1. CASE u = t
      <3>1. HolderInv(w) /\ worker[w].job # NoJob
        BY <1>1, <1>2, <1>9, <2>1 DEF GInv
      <3> QED BY <1>1, <1>2, <1>3, <1>4, <1>6, <1>8, <1>9, <2>1, <3>1
              DEF ReportInv, HolderInv
    <2>2. CASE u # t
      <3>1. thread'[u] = thread[u] /\ ReportInv(u)
        BY <1>2, <2>2 DEF GInv
      <3> QED BY <1>1, <1>3, <1>6, <2>2, <3>1 DEF ReportInv
    <2> QED BY <2>1, <2>2
  <1>13. ASSUME NEW v \in Workers PROVE LinkInv(v)' /\ HolderInv(v)'
    <2>1. ASSUME NEW u \in Workers, u # w PROVE worker[u].thread # t
      BY <1>1, <2>1 DEF GInv, LinkInv
    <2>2. CASE v = w
      BY <1>1, <1>2, <1>3, <1>4, <1>6, <2>1, <2>2 DEF LinkInv, GInv, HolderInv
    <2>3. CASE v # w
      <3>1. worker[v].thread # NoThread =>
              thread'[worker[v].thread] = thread[worker[v].thread]
        BY <1>2, <2>1, <2>3 DEF GInv, WorkersTypeOK, Process
      <3>2. LinkInv(v)'
        BY <1>3, <1>6, <2>1, <2>3, <3>1 DEF GInv, LinkInv
      <3>3. HolderInv(v)'
        BY <1>1, <1>3, <1>6, <2>3 DEF GInv, HolderInv
      <3> QED BY <3>2, <3>3
    <2> QED BY <2>2, <2>3
  <1>14. ASSUME NEW j \in Jobs PROVE RunsInv(j)'
    BY <1>1 DEF GInv, RunsInv
  <1>15. ASSUME NEW v \in Workers, RowInv(v) PROVE RowInv(v)'
    <2>1. CASE v = w
      BY <1>1, <1>2, <1>3, <1>6, <1>9, <1>15, <2>1 DEF RowInv
    <2>2. CASE v # w
      <3>1. worker[v].thread # NoThread =>
              thread'[worker[v].thread] = thread[worker[v].thread]
        BY <1>1, <1>2, <2>2 DEF GInv, WorkersTypeOK, Process, LinkInv
      <3> QED BY <1>1, <1>6, <1>15, <2>2, <3>1 DEF RowInv, Stands
    <2> QED BY <2>1, <2>2
  <1> QED BY <1>7, <1>10, <1>11, <1>12, <1>13, <1>14, <1>15 DEF GInv
\* Where a response, or the lack of one, can lead.
LEMMA ReplyLeads ==
  ASSUME NEW pc \in DOMAIN RequestOf, NEW reply
  PROVE  /\ AfterReply(pc, reply) \in WorkerPc \ {"complete", "fail"}
         /\ AfterReply(pc, reply) = "start" => pc = "claim" /\ reply = "ok"
         /\ AfterReply(pc, reply) = "run" => pc = "start" /\ reply = "ok"
         /\ AfterReply(pc, reply) = "rescue" => pc \in {"start", "complete", "fail"}
         /\ AfterError(pc) \in {"rescue", "dead"}
         /\ AfterError(pc) = "rescue" => pc \in {"start", "complete", "fail"}
  <1>1. /\ AfterError(pc) \in {"rescue", "dead"}
        /\ AfterError(pc) = "rescue" => pc \in {"start", "complete", "fail"}
    BY DEF AfterError
  <1>2. CASE reply \in {"refused", "error"}
    BY <1>1, <1>2 DEF AfterReply, WorkerPc, RequestOf
  <1>3. CASE reply \notin {"refused", "error"}
    BY <1>1, <1>3 DEF AfterReply, WorkerPc, RequestOf
  <1> QED BY <1>1, <1>2, <1>3

\* A process takes over the lease its request got.
LEMMA TakeKeep ==
  ASSUME GInv, IInv, NEW w \in Workers, NEW t \in Threads,
         t = worker[w].thread, Leasing(thread[t]), thread'[t] = Idle,
         \A u \in Threads : u # t => thread'[u] = thread[u],
         step' = step, runs' = runs,
         WorkersTypeOK',
         worker'[w].pc = "start" /\ worker'[w].thread = NoThread,
         worker'[w].job = thread[t].job,
         \A v \in Workers : v # w => worker'[v] = worker[v]
  PROVE  /\ GInv'
         /\ \A v \in Workers : RowInv(v) => RowInv(v)'
  <1> DEFINE j == thread[t].job
  <1>1. /\ j \in Jobs /\ step[j].claimed /\ runs[j] = 0
        /\ \A v \in Workers : worker[v].job # j
        /\ \A u \in Threads : /\ u # t => ~(Leasing(thread[u]) /\ thread[u].job = j)
                              /\ ~ReportOn(thread[u], j)
    BY DEF GInv, LeaseInv
  <1>2. ~Leasing(thread'[t]) /\ thread'[t].op \notin ReportOps \cup {"claim", "progress"}
    BY DEF Idle, Leasing, ReportOps
  <1>3. ASSUME NEW u \in Threads PROVE SentInv(u)' /\ LeaseInv(u)' /\ ReportInv(u)'
    <2>1. SentInv(u)'
      BY <1>2 DEF GInv, SentInv
    <2>2. LeaseInv(u)'
      BY <1>1, <1>2 DEF GInv, LeaseInv, ReportOn
    <2>3. ReportInv(u)'
      BY <1>1, <1>2 DEF GInv, ReportInv, ReportOn
    <2> QED BY <2>1, <2>2, <2>3
  <1>4. ASSUME NEW v \in Workers PROVE LinkInv(v)' /\ HolderInv(v)'
    <2>1. LinkInv(v)'
      <3>1. CASE v = w
        BY <3>1 DEF LinkInv
      <3>2. CASE v # w
        BY <3>2 DEF LinkInv, GInv, WorkersTypeOK, Process
      <3> QED BY <3>1, <3>2
    <2>2. HolderInv(v)'
      BY <1>1 DEF HolderInv, GInv
    <2> QED BY <2>1, <2>2
  <1>5. ASSUME NEW k \in Jobs PROVE RunsInv(k)'
    BY DEF GInv, RunsInv
  <1>6. ASSUME NEW v \in Workers, RowInv(v) PROVE RowInv(v)'
    <2>1. CASE v = w
      BY <2>1 DEF RowInv
    <2>2. CASE v # w
      BY <1>6, <2>2 DEF RowInv, Stands, LinkInv, GInv, WorkersTypeOK, Process
    <2> QED BY <2>1, <2>2
  <1> QED BY <1>3, <1>4, <1>5, <1>6 DEF GInv

\* A process whose start was acknowledged runs the pipeline.
LEMMA RunKeep ==
  ASSUME GInv, IInv, NEW w \in Workers, NEW t \in Threads, worker[w].pc = "start",
         t = worker[w].thread, Past(thread[t]), thread'[t] = Idle,
         \A u \in Threads : u # t => thread'[u] = thread[u],
         step' = step, runs' = [runs EXCEPT ![worker[w].job] = @ + 1],
         WorkersTypeOK',
         worker'[w].pc = "run" /\ worker'[w].thread = NoThread,
         worker'[w].job = worker[w].job /\ worker'[w].epoch = worker[w].epoch,
         \A v \in Workers : v # w => worker'[v] = worker[v]
  PROVE  /\ GInv'
         /\ \A v \in Workers : RowInv(v) => RowInv(v)'
  <1> DEFINE j == worker[w].job
  <1>1. /\ j \in Jobs /\ step[j].claimed /\ runs[j] = 0
        /\ \A v \in Workers : v # w => worker[v].job # j
    BY DEF GInv, WorkersTypeOK, Process, HolderInv, Executing
  <1>2. /\ thread[t].op = "start" /\ thread[t].job = j
        /\ thread[t].node = NodeOf[w] /\ thread[t].epoch = worker[w].epoch
    BY DEF GInv, LinkInv, Executing, RequestOf
  <1>3. ~Leasing(thread'[t]) /\ thread'[t].op \notin ReportOps \cup {"claim", "progress"}
    BY DEF Idle, Leasing, ReportOps
  <1>4. runs'[j] = 1 /\ \A k \in Jobs : k # j => runs'[k] = runs[k]
    BY <1>1 DEF GInv, WorkersTypeOK
  <1>5. ASSUME NEW u \in Threads, u # t PROVE ~ReportOn(thread[u], j)
    <2> SUFFICES ASSUME ReportOn(thread[u], j) PROVE FALSE
      OBVIOUS
    <2> QED BY <1>5 DEF ReportOn, GInv, ReportInv
  <1>6. ASSUME NEW u \in Threads PROVE SentInv(u)' /\ LeaseInv(u)' /\ ReportInv(u)'
    <2>1. SentInv(u)'
      BY <1>3 DEF GInv, SentInv
    <2>2. LeaseInv(u)'
      BY <1>1, <1>3, <1>4 DEF GInv, LeaseInv, ReportOn
    <2>3. ReportInv(u)'
      <3> SUFFICES ASSUME thread'[u].op \in ReportOps PROVE ReportInv(u)'
        BY DEF ReportInv
      <3>1. u # t /\ thread'[u] = thread[u] /\ thread[u].job \in Jobs /\ ReportInv(u)
        BY <1>3 DEF IInv, HandlerInv, HandlerShape, StepOps, GInv
      <3>2. thread[u].job # j
        BY <1>5, <3>1 DEF ReportOn
      <3> QED BY <1>4, <3>1, <3>2 DEF ReportInv
    <2> QED BY <2>1, <2>2, <2>3
  <1>7. ASSUME NEW v \in Workers PROVE LinkInv(v)' /\ HolderInv(v)'
    <2>1. LinkInv(v)'
      <3>1. CASE v = w
        BY <3>1 DEF LinkInv
      <3>2. CASE v # w
        BY <3>2 DEF LinkInv, GInv, WorkersTypeOK, Process
      <3> QED BY <3>1, <3>2
    <2>2. HolderInv(v)'
      <3>1. CASE v = w
        BY <1>1, <1>4, <3>1 DEF HolderInv
      <3>2. CASE v # w
        <4>1. worker[v].job \in Jobs \cup {NoJob} /\ worker[v].job # j /\ HolderInv(v)
          BY <1>1, <3>2 DEF GInv, WorkersTypeOK, Process
        <4> QED BY <1>4, <3>2, <4>1 DEF HolderInv
      <3> QED BY <3>1, <3>2
    <2> QED BY <2>1, <2>2
  <1>8. ASSUME NEW k \in Jobs PROVE RunsInv(k)'
    BY <1>1, <1>4 DEF GInv, RunsInv
  <1>9. ASSUME NEW v \in Workers, RowInv(v) PROVE RowInv(v)'
    <2>1. CASE v = w
      <3>1. Stands(thread[t])
        BY <1>9, <2>1 DEF RowInv
      <3> QED BY <1>2, <2>1, <3>1 DEF RowInv, Stands, Target
    <2>2. CASE v # w
      BY <1>9, <2>2 DEF RowInv, Stands, LinkInv, GInv, WorkersTypeOK, Process
    <2> QED BY <2>1, <2>2
  <1> QED BY <1>6, <1>7, <1>8, <1>9 DEF GInv

\* A process reads its response.
LEMMA ReturnKeep ==
  ASSUME GInv, IInv, NEW w \in Workers, Return(w)
  PROVE  /\ GInv'
         /\ \A v \in Workers : RowInv(v) => RowInv(v)'
  <1> DEFINE t == worker[w].thread
             p == worker[w]
             next == AfterReply(p.pc, thread[t].reply)
             q == IF p.pc = "claim"
                  THEN [p EXCEPT !.job = thread[t].job, !.epoch = thread[t].epoch] ELSE p
  <1>1. /\ t \in Threads /\ p \in Process /\ p.pc \in DOMAIN RequestOf
        /\ Executing(p.pc) <=> p.job # NoJob
    BY DEF Return, Waiting, GInv, WorkersTypeOK, Process
  <1>2. /\ thread[t].pc = "replied" /\ thread[t].op = RequestOf[p.pc]
        /\ thread[t].job \in Jobs \cup {NoJob} /\ thread[t].epoch \in Nat
        /\ thread'[t] = Idle /\ \A u \in Threads : u # t => thread'[u] = thread[u]
    BY <1>1 DEF Return, Waiting, Finish, IInv, TypeOK, Handler, GInv, LinkInv
  <1>3. Becomes(w, q, next) /\ step' = step
        /\ runs' = IF next = "run" THEN [runs EXCEPT ![q.job] = @ + 1] ELSE runs
    BY DEF Return, Becomes, Finish
  <1>4. /\ next \in WorkerPc \ {"complete", "fail"}
        /\ next = "start" => p.pc = "claim" /\ thread[t].reply = "ok"
        /\ next = "run" => p.pc = "start" /\ thread[t].reply = "ok"
        /\ next = "rescue" => p.pc \in {"start", "complete", "fail"}
    BY <1>1, ReplyLeads
  <1>5. /\ q \in Process
        /\ p.pc = "claim" => q.job = thread[t].job
        /\ p.pc # "claim" => q = p
    BY <1>1, <1>2 DEF Process
  <1> HIDE DEF next, q
  <1>6. CASE next = "start"
    <2>1. Leasing(thread[t]) /\ q.job = thread[t].job
      BY <1>2, <1>4, <1>5, <1>6 DEF Leasing, RequestOf
    <2>2. q.job # NoJob
      BY <1>1, <2>1 DEF GInv, LeaseInv
    <2>3. WorkersTypeOK /\ runs' = runs /\ runs' \in [Jobs -> Nat]
      BY <1>3, <1>6 DEF GInv, WorkersTypeOK
    <2>4. Executing(next)
      BY <1>6 DEF Executing
    <2>5. /\ WorkersTypeOK'
          /\ worker'[w].pc = next /\ worker'[w].thread = NoThread
          /\ worker'[w].job = q.job /\ worker'[w].epoch = q.epoch
          /\ \A v \in Workers : v # w => worker'[v] = worker[v]
      BY <1>3, <1>4, <1>5, <2>2, <2>3, <2>4, BecomeFacts
    <2>6. worker'[w].pc = "start" /\ worker'[w].job = thread[t].job
      BY <1>6, <2>1, <2>5
    <2>7. GInv /\ IInv /\ Leasing(thread[t]) /\ step' = step /\ runs' = runs
      BY <1>3, <2>1, <2>3
    <2> QED BY <1>1, <1>2, <2>5, <2>6, <2>7, TakeKeep
  <1>7. CASE next = "run"
    <2>1. /\ p.pc = "start" /\ q = p /\ p.job \in Jobs /\ p.job # NoJob
          /\ Past(thread[t]) /\ Executing(next)
      BY <1>1, <1>2, <1>4, <1>5, <1>7 DEF Past, RequestOf, ReportOps, Executing, Process
    <2>2. WorkersTypeOK /\ runs' = [runs EXCEPT ![p.job] = @ + 1] /\ runs' \in [Jobs -> Nat]
      BY <1>3, <1>7, <2>1 DEF GInv, WorkersTypeOK
    <2>3. /\ WorkersTypeOK'
          /\ worker'[w].pc = next /\ worker'[w].thread = NoThread
          /\ worker'[w].job = q.job /\ worker'[w].epoch = q.epoch
          /\ \A v \in Workers : v # w => worker'[v] = worker[v]
      BY <1>3, <1>4, <1>5, <2>1, <2>2, BecomeFacts
    <2>4. /\ worker[w].pc = "start" /\ worker'[w].pc = "run"
          /\ worker'[w].job = worker[w].job /\ worker'[w].epoch = worker[w].epoch
          /\ runs' = [runs EXCEPT ![worker[w].job] = @ + 1]
      BY <1>7, <2>1, <2>2, <2>3
    <2> QED BY <1>1, <1>2, <1>3, <2>1, <2>3, <2>4, RunKeep
  <1>8. CASE next \notin {"start", "run"}
    <2>1. Executing(next) => next = "rescue"
      BY <1>4, <1>8 DEF Executing
    <2>2. Become(q, next) = Become(p, next)
      BY <1>4, <1>5, <2>1 DEF Become
    <2>3. Becomes(w, p, next)
      BY <1>3, <2>2 DEF Becomes
    <2>4. Executing(next) => Executing(p.pc)
      BY <1>4, <2>1 DEF Executing
    <2>5. next \in WorkerPc \ {"start", "run"} /\ next \notin {"complete", "fail"}
      BY <1>4, <1>8
    <2>6. \A u \in Threads : \/ thread'[u] = thread[u]
                             \/ u = worker[w].thread /\ thread'[u] = Idle
      BY <1>2
    <2> QED BY <1>3, <1>8, <2>3, <2>4, <2>5, <2>6, LetGo
  <1> QED BY <1>6, <1>7, <1>8-----------------------------------------------------------------------------
(***************************************************************************)
(* Every step of the control plane is a step of the Controller, whose      *)
(* clients are the processes, and keeps the invariant.                     *)
(***************************************************************************)
LEMMA InitGInv == GroveInit => GInv /\ CalmInv /\ FullInv /\ \A w \in Workers : RowInv(w)
  <1> SUFFICES ASSUME GroveInit
               PROVE  GInv /\ CalmInv /\ FullInv /\ \A w \in Workers : RowInv(w)
    OBVIOUS
  <1> USE DEF GroveInit, Init, Idle, NotStarted, FreshStep, NoJobRow
  <1>1. WorkersTypeOK
    BY DEF WorkersTypeOK, Process, WorkerPc, Executing
  <1>2. \A t \in Threads : SentInv(t) /\ LeaseInv(t) /\ ReportInv(t)
    BY DEF SentInv, LeaseInv, ReportInv, Leasing, ReportOps
  <1>3. \A w \in Workers : LinkInv(w) /\ HolderInv(w) /\ RowInv(w)
    BY DEF LinkInv, HolderInv, RowInv
  <1>4. \A j \in Jobs : RunsInv(j)
    BY DEF RunsInv
  <1>5. FullInv /\ CalmInv
    BY DEF FullInv, CalmInv, Past, ReportOps
  <1> QED BY <1>1, <1>2, <1>3, <1>4, <1>5 DEF GInv

\* A request of a process is one the Controller can get.
LEMMA SendIsReceive ==
  ASSUME WorkersTypeOK, NEW w \in Workers, NEW t \in Threads, Send(w, t)
  PROVE  AnyNext
  <1> DEFINE r == [ op |-> RequestOf[worker[w].pc], job |-> worker[w].job,
                    node |-> NodeOf[w], epoch |-> worker[w].epoch ]
  <1>1. /\ worker[w].pc \in DOMAIN RequestOf /\ NodeOf[w] \in Nodes
        /\ worker[w].epoch \in Nat /\ worker[w].job \in Jobs \cup {NoJob}
        /\ Executing(worker[w].pc) <=> worker[w].job # NoJob
    BY DEF Send, WorkersTypeOK, Process
  <1>2. r \in Sendable
    BY <1>1 DEF Sendable, Executing, RequestOf, NodeOps, StepOps, ReportOps
  <1>3. Receive(t, r)
    BY DEF Send
  <1> QED BY <1>2, <1>3 DEF AnyNext

\* Every step of the control plane is one of the Controller, or none.
LEMMA GroveIsAny == GInv /\ [GroveNext]_groveVars => [AnyNext]_vars
  <1> SUFFICES ASSUME GInv, [GroveNext]_groveVars, vars' # vars PROVE AnyNext
    OBVIOUS
  <1>1. GroveNext
    BY DEF groveVars
  <1>2. ASSUME NEW w \in Workers, WorkerStep(w) PROVE AnyNext
    <2>1. CASE \E t \in Threads : Send(w, t)
      BY <2>1, SendIsReceive DEF GInv
    <2>2. CASE Return(w)
      BY <2>2 DEF Return, Waiting, GInv, WorkersTypeOK, Process, AnyNext
    <2> QED BY <1>2, <2>1, <2>2 DEF WorkerStep, Boot, RunPipeline, Poll
  <1>3. ASSUME NEW t \in Threads, ControllerStep(t) PROVE AnyNext
    BY <1>3 DEF ControllerStep, AnyNext
  <1>4. CASE Fault
    BY <1>4 DEF Fault, GiveUp, Unreachable, Crash, AnyNext
  <1>5. CASE Environment
    BY <1>5 DEF Environment, AnyNext
  <1> QED BY <1>1, <1>2, <1>3, <1>4, <1>5 DEF GroveNext

\* A process's step keeps the invariant.
LEMMA WorkerKeeps ==
  ASSUME GInv, IInv, NEW w \in Workers,
         WorkerStep(w) \/ GiveUp(w) \/ Unreachable(w) \/ Crash(w)
  PROVE  /\ GInv'
         /\ \A v \in Workers : RowInv(v) => RowInv(v)'
  <1>1. worker[w].thread # NoThread => worker[w].pc \in DOMAIN RequestOf
    BY DEF GInv, WorkersTypeOK
  <1>2. CASE Boot(w)
    <2> DEFINE next == "register"
    <2>1. Becomes(w, worker[w], next) /\ UNCHANGED << vars, runs >>
      BY <1>2 DEF Boot, Becomes
    <2>2. next \in WorkerPc \ {"start", "run"} /\ ~Executing(next)
      BY DEF WorkerPc, RequestOf, Executing
    <2> QED BY <2>1, <2>2, LetGo DEF vars
  <1>3. CASE RunPipeline(w)
    <2>1. PICK next \in {"complete", "fail", "rescue"} :
            worker' = [worker EXCEPT ![w] = Become(@, next)]
      BY <1>3 DEF RunPipeline
    <2>2. Becomes(w, worker[w], next) /\ UNCHANGED << vars, runs >> /\ worker[w].pc = "run"
      BY <1>3, <2>1 DEF RunPipeline, Becomes
    <2>3. next \in WorkerPc \ {"start", "run"} /\ Executing(worker[w].pc)
      BY <2>2 DEF WorkerPc, RequestOf, Executing
    <2> QED BY <2>2, <2>3, LetGo DEF vars
  <1>4. CASE Poll(w)
    <2> DEFINE next == IF w \in PollOnce THEN "exited" ELSE "heartbeat"
    <2>1. Becomes(w, worker[w], next) /\ UNCHANGED << vars, runs >>
      BY <1>4 DEF Poll, Becomes
    <2>2. next \in WorkerPc \ {"start", "run"} /\ ~Executing(next)
          /\ next \notin {"complete", "fail"}
      BY DEF WorkerPc, RequestOf, Executing
    <2> HIDE DEF next
    <2> QED BY <2>1, <2>2, LetGo DEF vars
  <1>5. CASE GiveUp(w) \/ Unreachable(w)
    <2> DEFINE next == AfterError(worker[w].pc)
    <2>1. /\ Becomes(w, worker[w], next) /\ UNCHANGED << vars, runs >>
          /\ worker[w].pc \in DOMAIN RequestOf
      BY <1>1, <1>5 DEF GiveUp, Unreachable, Waiting, Becomes
    <2>2. /\ next \in {"rescue", "dead"}
          /\ next = "rescue" => worker[w].pc \in {"start", "complete", "fail"}
      BY <2>1, ReplyLeads
    <2> HIDE DEF next
    <2>3. next \in WorkerPc \ {"start", "run"} /\ next \notin {"complete", "fail"}
          /\ (Executing(next) => Executing(worker[w].pc))
      BY <2>2 DEF WorkerPc, RequestOf, Executing
    <2> QED BY <2>1, <2>3, LetGo DEF vars
  <1>6. CASE Crash(w)
    <2> DEFINE next == "dead"
    <2>1. Becomes(w, worker[w], next) /\ UNCHANGED << vars, runs >>
      BY <1>6 DEF Crash, Becomes
    <2>2. next \in WorkerPc \ {"start", "run"} /\ ~Executing(next)
      BY DEF WorkerPc, RequestOf, Executing
    <2> QED BY <2>1, <2>2, LetGo DEF vars
  <1>7. CASE Return(w)
    BY <1>7, ReturnKeep
  <1>8. ASSUME NEW t \in Threads, Send(w, t)
        PROVE  GInv' /\ \A v \in Workers : RowInv(v) => RowInv(v)'
    BY <1>8, SendKeep
  <1> QED BY <1>2, <1>3, <1>4, <1>5, <1>6, <1>7, <1>8 DEF WorkerStep

\* What moves without a process: a handler, a fault of the Controller, a client
\* that creates a job, time.
LEMMA ControllerMoves ==
  ASSUME GInv, IInv, \/ \E t \in Threads : ControllerStep(t)
                     \/ \E t \in Threads : StorageError(t)
                     \/ Restart
                     \/ Environment
  PROVE  \E t \in Threads \cup {NoThread} : Moves(t)
  <1>1. ASSUME NEW t \in Threads, ControllerStep(t) PROVE Moves(t)
    BY <1>1, HandleMoves, ThreadEndMoves DEF ControllerStep, GInv
  <1>2. ASSUME NEW t \in Threads, StorageError(t) PROVE Moves(t)
    BY <1>2, ThreadEndMoves
  <1>3. CASE Restart
    BY <1>3, RestartMoves
  <1>4. CASE Environment
    BY <1>4, EnvironmentMoves, ExpireMoves DEF Environment
  <1> QED BY <1>1, <1>2, <1>3, <1>4

\* Every step keeps the invariant, and the rows of running steps unless somebody
\* recovers steps.
LEMMA GroveNextKeeps ==
  ASSUME GInv, IInv, [GroveNext]_groveVars
  PROVE  /\ IInv' /\ GInv'
         /\ ~RecoveryLoop => \A w \in Workers : RowInv(w) => RowInv(w)'
  <1>1. IInv'
    BY GroveIsAny, AnyNextIInv
  <1>2. CASE \E w \in Workers : WorkerStep(w) \/ GiveUp(w) \/ Unreachable(w) \/ Crash(w)
    BY <1>1, <1>2, WorkerKeeps
  <1>3. CASE /\ UNCHANGED workerVars
             /\ \/ \E t \in Threads : ControllerStep(t)
                \/ \E t \in Threads : StorageError(t)
                \/ Restart
                \/ Environment
    <2>1. PICK t \in Threads \cup {NoThread} : Moves(t)
      BY <1>3, ControllerMoves
    <2> QED BY <1>1, <1>3, <2>1, MovesKeep, MovesKeepRow
  <1>4. CASE UNCHANGED groveVars
    <2> USE DEF groveVars, vars, workerVars
    <2>1. GInv'
      BY <1>4 DEF GInv, WorkersTypeOK, SentInv, LeaseInv, ReportInv, LinkInv, HolderInv,
                  RunsInv, Leasing, ReportOn, Orphaned
    <2>2. \A w \in Workers : RowInv(w) => RowInv(w)'
      BY <1>4 DEF RowInv, Stands
    <2> QED BY <1>1, <2>1, <2>2
  <1>5. \/ \E w \in Workers : WorkerStep(w) \/ GiveUp(w) \/ Unreachable(w) \/ Crash(w)
        \/ /\ UNCHANGED workerVars
           /\ \/ \E t \in Threads : ControllerStep(t)
              \/ \E t \in Threads : StorageError(t)
              \/ Restart
              \/ Environment
        \/ UNCHANGED groveVars
    BY DEF GroveNext, Fault, ControllerStep, Environment
  <1> QED BY <1>2, <1>3, <1>4, <1>5-----------------------------------------------------------------------------
(***************************************************************************)
(* The job table.                                                          *)
(***************************************************************************)
\* A handler takes its draft from the rows it reads.
Drafted(u) ==
    LET h == thread[u] IN
    /\ h.pc = "jobread" /\ thread'[u].op = h.op
    /\ thread'[u].draft = Draft(h.op, job[h.job], step[h.job])

\* A handler writes its draft over whatever the row is.
Written(u, j) ==
    LET h == thread[u] IN
    /\ h.pc = "jobwrite" /\ h.op \in ReportOps /\ h.job = j
    /\ thread'[u].pc = "replied"
    /\ job'[j].status = h.draft.status
    /\ h.op # "fail" => job'[j].progress = h.draft.progress

JobMoves ==
    /\ \A u \in Threads : thread'[u].pc = "jobwrite" => thread'[u] = thread[u] \/ Drafted(u)
    /\ \A j \in Jobs : \/ job'[j] = job[j]
                       \/ job[j].status = "absent" /\ job'[j].status = "queued"
                       \/ \E u \in Threads : Written(u, j)

\* An action that neither computes a draft nor writes one.
LEMMA JobsRest ==
  ASSUME job' = job, NEW t \in Threads, \A u \in Threads : u # t => thread'[u] = thread[u],
         thread'[t].pc # "jobwrite"
  PROVE  JobMoves
  BY DEF JobMoves

\* A draft is computed from the row committed one transaction earlier.
LEMMA JobReadDrafts ==
  ASSUME IInv, NEW t \in Threads, JobRead(t)
  PROVE  JobMoves
  <1> DEFINE d == Draft(thread[t].op, job[thread[t].job], step[thread[t].job])
             h == [thread[t] EXCEPT !.pc = "jobwrite", !.draft = d]
  <1>1. thread[t].pc = "jobread" /\ job' = job
    BY DEF JobRead, At
  <1>2. CASE ReplyWith(t, "ok")
    <2>1. thread'[t].pc = "replied" /\ \A u \in Threads : u # t => thread'[u] = thread[u]
      BY <1>2, ReplyFacts DEF IInv, Replies
    <2>2. thread'[t].pc # "jobwrite"
      BY <2>1
    <2> QED BY <1>1, <2>1, <2>2, JobsRest
  <1>3. CASE thread' = [thread EXCEPT ![t].pc = "jobwrite", ![t].draft = d]
    <2>1. thread' = [thread EXCEPT ![t] = h]
      BY <1>3
    <2> HIDE DEF d
    <2>2. h.op = thread[t].op /\ h.draft = d
      <3>1. thread[t] \in Handler
        BY DEF IInv, TypeOK
      <3> QED BY <3>1 DEF Handler
    <2> HIDE DEF h
    <2>3. thread'[t] = h /\ \A u \in Threads : u # t => thread'[u] = thread[u]
      BY <2>1 DEF IInv, TypeOK
    <2> QED BY <1>1, <2>2, <2>3 DEF JobMoves, Drafted, d
  <1> QED BY <1>2, <1>3 DEF JobRead

\* A job gets the draft of the handler that writes it.
LEMMA JobWriteWrites ==
  ASSUME IInv, NEW t \in Threads, JobWrite(t)
  PROVE  JobMoves
  <1> DEFINE h == thread[t]
             k == h.job
             m == IF h.op = "fail" THEN job[k].progress ELSE h.draft.progress
             r == [job[k] EXCEPT !.status = h.draft.status, !.progress = m]
  <1>1. /\ h.pc = "jobwrite" /\ h.op \in ReportOps /\ k \in Jobs
        /\ ReplyWith(t, "ok") /\ job' = [job EXCEPT ![k] = r]
    BY DEF JobWrite, At, IInv, HandlerInv, HandlerShape, StepOps
  <1>2. job[k] \in JobRow /\ job \in [Jobs -> JobRow]
    BY <1>1 DEF IInv, TypeOK
  <1>3. h.op # "fail" => m = h.draft.progress
    OBVIOUS
  <1> HIDE DEF m
  <1>4. r.status = h.draft.status /\ r.progress = m
    BY <1>2 DEF JobRow
  <1> HIDE DEF r
  <1>5. job'[k] = r /\ \A j \in Jobs : j # k => job'[j] = job[j]
    BY <1>1, <1>2
  <1>6. thread'[t].pc = "replied" /\ \A u \in Threads : u # t => thread'[u] = thread[u]
    BY <1>1, ReplyFacts DEF IInv, Replies
  <1>7. Written(t, k)
    BY <1>1, <1>3, <1>4, <1>5, <1>6 DEF Written
  <1> QED BY <1>5, <1>6, <1>7 DEF JobMoves

\* The table moves by create_job and by the second transaction of a report only.
LEMMA JobsMove ==
  ASSUME IInv, [AnyNext]_vars
  PROVE  JobMoves
  <1>1. CASE UNCHANGED vars
    BY <1>1 DEF vars, JobMoves
  <1>2. ASSUME NEW k \in Jobs, CreateJob(k) \/ RecoverStep(k) PROVE JobMoves
    <2>1. CASE RecoverStep(k)
      BY <2>1 DEF RecoverStep, JobMoves
    <2>2. CASE CreateJob(k)
      <3>1. job' = [job EXCEPT ![k].status = "queued"] /\ job[k].status = "absent"
            /\ thread' = thread
        BY <2>2 DEF CreateJob
      <3>2. job'[k].status = "queued" /\ \A j \in Jobs : j # k => job'[j] = job[j]
        BY <3>1 DEF IInv, TypeOK, JobRow
      <3> QED BY <3>1, <3>2 DEF JobMoves
    <2> QED BY <1>2, <2>1, <2>2
  <1>3. ASSUME NEW n \in Nodes, Expire(n) PROVE JobMoves
    BY <1>3 DEF Expire, JobMoves
  <1>4. ASSUME NEW t \in Threads, NEW r \in Sendable, Receive(t, r) PROVE JobMoves
    <2>1. /\ job' = job /\ thread'[t].pc = "read"
          /\ \A u \in Threads : u # t => thread'[u] = thread[u]
      BY <1>4 DEF Receive, IInv, TypeOK
    <2> QED BY <2>1, JobsRest
  <1>5. ASSUME NEW t \in Threads, Finish(t) PROVE JobMoves
    <2>1. /\ job' = job /\ thread'[t] = Idle
          /\ \A u \in Threads : u # t => thread'[u] = thread[u]
      BY <1>5 DEF Finish, IInv, TypeOK
    <2> QED BY <2>1, JobsRest DEF Idle
  <1>6. ASSUME NEW t \in Threads, NEW reply \in Replies, ReplyWith(t, reply), job' = job
        PROVE  JobMoves
    BY <1>6, ReplyFacts, JobsRest DEF IInv
  <1>7. ASSUME NEW t \in Threads, NEW pc \in HandlerPc \ {"jobwrite"}, Goto(t, pc), job' = job
        PROVE  JobMoves
    BY <1>7, GotoFacts, JobsRest DEF IInv
  <1>8. CASE Restart
    <2>1. ASSUME NEW u \in Threads, thread'[u].pc = "jobwrite" PROVE thread'[u] = thread[u]
      <3> DEFINE h == [thread[u] EXCEPT !.pc = "replied", !.reply = "error"]
      <3>1. h.pc = "replied"
        BY DEF IInv, TypeOK, Handler
      <3>2. thread'[u] = thread[u] \/ thread'[u] = h
        BY <1>8 DEF Restart
      <3> HIDE DEF h
      <3> QED BY <2>1, <3>1, <3>2
    <2> QED BY <1>8, <2>1 DEF Restart, JobMoves
  <1>9. ASSUME NEW t \in Threads, Handle(t) PROVE JobMoves
    <2>1. CASE RegisterRead(t) \/ RegisterInsert(t) \/ RegisterModify(t) \/ StepRead(t)
      BY <1>6, <1>7, <2>1 DEF RegisterRead, RegisterInsert, RegisterModify, StepRead,
         Replies, HandlerPc
    <2>2. CASE Heartbeat(t)
      BY <1>6, <2>2 DEF Heartbeat, Replies
    <2>3. CASE ClaimSelect(t)
      <3>1. CASE ReplyWith(t, "empty")
        BY <1>6, <2>3, <3>1 DEF ClaimSelect, Replies
      <3>2. ASSUME NEW j \in Jobs, thread' = [thread EXCEPT ![t].pc = "update", ![t].job = j]
            PROVE  JobMoves
        <4> DEFINE h == [thread[t] EXCEPT !.pc = "update", !.job = j]
        <4>1. h.pc = "update"
          BY DEF IInv, TypeOK, Handler
        <4>2. thread' = [thread EXCEPT ![t] = h]
          BY <3>2
        <4> HIDE DEF h
        <4>3. thread'[t] = h /\ \A u \in Threads : u # t => thread'[u] = thread[u]
          BY <4>2 DEF IInv, TypeOK
        <4> QED BY <2>3, <4>1, <4>3, JobsRest DEF ClaimSelect
      <3> QED BY <2>3, <3>1, <3>2 DEF ClaimSelect
    <2>4. CASE ClaimUpdate(t)
      BY <1>6, <1>7, <2>4 DEF ClaimUpdate, Replies, HandlerPc
    <2>5. CASE ClaimReread(t)
      <3> DEFINE h == [thread[t] EXCEPT !.pc = "replied", !.reply = "ok",
                                        !.epoch = step[thread[t].job].epoch]
      <3>1. h.pc = "replied"
        BY DEF IInv, TypeOK, Handler
      <3>2. thread' = [thread EXCEPT ![t] = h]
        BY <2>5 DEF ClaimReread
      <3> HIDE DEF h
      <3>3. thread'[t] = h /\ \A u \in Threads : u # t => thread'[u] = thread[u]
        BY <3>2 DEF IInv, TypeOK
      <3> QED BY <2>5, <3>1, <3>3, JobsRest DEF ClaimReread
    <2>6. CASE StepUpdate(t)
      BY <1>6, <1>7, <2>6 DEF StepUpdate, Replies, HandlerPc
    <2> QED BY <1>9, <2>1, <2>2, <2>3, <2>4, <2>5, <2>6, JobReadDrafts, JobWriteWrites
            DEF Handle
  <1>10. ASSUME NEW t \in Threads, StorageError(t) PROVE JobMoves
    BY <1>6, <1>10 DEF StorageError, Replies
  <1> QED BY <1>1, <1>2, <1>3, <1>4, <1>5, <1>8, <1>9, <1>10 DEF AnyNext

\* A completed job, and the draft of a completion, show all of the progress.
LEMMA FullKeep ==
  ASSUME IInv, FullInv, [AnyNext]_vars
  PROVE  FullInv'
  <1>1. JobMoves
    BY JobsMove
  <1>2. ASSUME NEW u \in Threads, thread'[u].pc = "jobwrite", thread'[u].op = "complete"
        PROVE  thread'[u].draft.progress = 100
    <2>1. CASE Drafted(u)
      <3>1. step[thread[u].job].status = "completed"
        BY <1>2, <2>1 DEF Drafted, IInv, HandlerInv, Committed, Stands, Target
      <3> QED BY <1>2, <2>1, <3>1 DEF Drafted, Draft
    <2> QED BY <1>1, <1>2, <2>1 DEF JobMoves, FullInv
  <1>3. ASSUME NEW j \in Jobs, job'[j].status = "completed" PROVE job'[j].progress = 100
    <2>1. ASSUME NEW u \in Threads, Written(u, j) PROVE job'[j].progress = 100
      <3>1. thread[u].op = "complete"
        BY <1>3, <2>1 DEF Written, IInv, HandlerInv, Target, ReportOps
      <3> QED BY <2>1, <3>1 DEF Written, FullInv
    <2> QED BY <1>1, <1>3, <2>1 DEF JobMoves, FullInv
  <1> QED BY <1>2, <1>3 DEF FullInv

\* What old requests still do to a completed job is to complete it again.
LEMMA CompletedStays ==
  ASSUME GInv, IInv, IInv', FullInv, [AnyNext]_vars,
         NEW j \in Jobs, job[j].status = "completed"
  PROVE  job'[j] = job[j]
  <1>1. JobMoves
    BY JobsMove
  <1>2. step[j].status = "completed" /\ runs[j] = 1 /\ job[j].progress = 100
    BY DEF IInv, JobInv, GInv, RunsInv, FullInv
  <1>3. ASSUME NEW u \in Threads, Written(u, j) PROVE job'[j] = job[j]
    <2>1. thread[u].op = "complete"
      BY <1>2, <1>3 DEF Written, GInv, ReportInv, IInv, HandlerInv, Committed, Stands,
                        Target, ReportOps
    <2>2. job'[j].status = "completed" /\ job'[j].progress = 100
      BY <1>3, <2>1 DEF Written, IInv, HandlerInv, Target, FullInv
    <2>3. job[j] \in JobRow /\ job'[j] \in JobRow
      BY DEF IInv, TypeOK
    <2> QED BY <1>2, <2>2, <2>3 DEF JobRow
  <1> QED BY <1>1, <1>3 DEF JobMoves
-----------------------------------------------------------------------------
(***************************************************************************)
(* Jobs that agree with their steps.  The code promises it only while no   *)
(* request is given up or lost and nothing interrupts a handler.           *)
(***************************************************************************)
Calm == {"timeout", "storage", "restart"} \cap Faults = {} /\ ~RecoveryLoop

\* The part of CalmInv about reports, of one handler, and the one about a job.
Alone(t) ==
    /\ Past(thread[t]) => Stands(thread[t])
    /\ thread[t].op \in ReportOps =>
         /\ \A u \in Threads : ReportOn(thread[u], thread[t].job) => u = t
         /\ \A w \in Workers : worker[w].job = thread[t].job => worker[w].thread = t

Agrees(j) ==
    step[j].status \in {"completed", "failed"} =>
      \/ job[j].status = step[j].status
      \/ \E t \in Threads : ReportOn(thread[t], j) /\ thread[t].pc \in {"jobread", "jobwrite"}

\* The two parts of the calm invariant.
LEMMA CalmParts ==
  CalmInv <=> (\A t \in Threads : Alone(t)) /\ (\A j \in Jobs : Agrees(j))
  BY DEF CalmInv, Alone, Agrees

\* A handler's steps, and what moves without one.
LEMMA CalmAlone ==
  ASSUME IInv, \A u \in Threads : Alone(u), ~RecoveryLoop,
         NEW t \in Threads \cup {NoThread}, Moves(t), UNCHANGED worker,
         NEW u \in Threads
  PROVE  Alone(u)'
  <1>1. \A v \in Threads : thread'[v].op \in ReportOps =>
             thread[v].op = thread'[v].op /\ thread[v].job = thread'[v].job
    BY DEF Moves, HandlerMoves, Freed, Idle, ReportOps
  <1>2. thread'[u].op \in ReportOps => /\ thread[u].op \in ReportOps /\ thread[u].job \in Jobs
                                       /\ thread[u].job = thread'[u].job
    BY <1>1 DEF IInv, HandlerInv, HandlerShape, StepOps
  <1>3. Past(thread'[u]) => Stands(thread[u])'
    <2> SUFFICES ASSUME Past(thread'[u]), ~Stands(thread[u])' PROVE FALSE
      OBVIOUS
    <2>1. /\ Past(thread[u]) /\ thread'[u].op = thread[u].op
          /\ thread'[u].job = thread[u].job
          /\ thread'[u].node = thread[u].node /\ thread'[u].epoch = thread[u].epoch
      BY <1>2 DEF Moves, HandlerMoves, Freed, Idle, Past, ReportOps
    <2>2. Stands(thread[u]) /\ thread[u].op \in ReportOps /\ thread[u].job \in Jobs
      BY <1>2, <2>1 DEF Alone, Past
    <2>3. t \in Threads /\ ReportOn(thread[t], thread[u].job) => t = u
      BY <2>2 DEF Alone
    <2>4. SameHold(thread[u].job)
      BY <2>1, <2>2, <2>3 DEF Moves, RowMoves, Stands, Target, Past, ReportOps
    <2> QED BY <2>1, <2>2, <2>4 DEF Stands, SameHold
  <1>4. ASSUME thread'[u].op \in ReportOps, NEW v \in Threads,
               ReportOn(thread'[v], thread'[u].job)
        PROVE  v = u
    BY <1>1, <1>2, <1>4 DEF ReportOn, Alone
  <1>5. ASSUME thread'[u].op \in ReportOps, NEW w \in Workers,
               worker'[w].job = thread'[u].job
        PROVE  worker'[w].thread = u
    BY <1>2, <1>5 DEF Alone
  <1> QED BY <1>3, <1>4, <1>5 DEF Alone

\* A handler between its two transactions, if nothing interrupts it.
LEMMA SecondTransaction ==
  ASSUME IInv, NEW u \in Threads, thread[u].pc \in {"jobread", "jobwrite"}, Handle(u)
  PROVE  \/ thread'[u].pc = "jobwrite"
         \/ thread[u].op = "start"
         \/ Written(u, thread[u].job)
  <1>1. JobRead(u) \/ JobWrite(u)
    BY DEF Handle, RegisterRead, RegisterInsert, RegisterModify, Heartbeat, ClaimSelect,
           ClaimUpdate, ClaimReread, StepRead, StepUpdate, At
  <1>2. CASE JobWrite(u)
    <2>1. JobMoves /\ job'[thread[u].job] = [job[thread[u].job] EXCEPT
             !.status = thread[u].draft.status,
             !.progress = IF thread[u].op = "fail" THEN @ ELSE thread[u].draft.progress]
      BY <1>2, JobWriteWrites DEF JobWrite, At, IInv, TypeOK, HandlerInv, HandlerShape, StepOps
    <2>2. ReplyWith(u, "ok") /\ thread[u].op \in ReportOps /\ thread[u].pc = "jobwrite"
      BY <1>2 DEF JobWrite, At
    <2>3. thread'[u].pc = "replied"
      BY <2>2, ReplyFacts DEF IInv, Replies
    <2>4. job[thread[u].job] \in JobRow
      BY <2>2 DEF IInv, TypeOK, HandlerInv, HandlerShape, StepOps
    <2>5. /\ job'[thread[u].job].status = thread[u].draft.status
          /\ thread[u].op # "fail" =>
               job'[thread[u].job].progress = thread[u].draft.progress
      BY <2>1, <2>4 DEF JobRow
    <2> QED BY <2>2, <2>3, <2>5 DEF Written
  <1>3. CASE JobRead(u) /\ thread[u].op # "start"
    <2> DEFINE d == Draft(thread[u].op, job[thread[u].job], step[thread[u].job])
               h == [thread[u] EXCEPT !.pc = "jobwrite", !.draft = d]
    <2>1. thread' = [thread EXCEPT ![u] = h]
      BY <1>3 DEF JobRead
    <2> HIDE DEF d
    <2>2. h.pc = "jobwrite"
      BY DEF IInv, TypeOK, Handler
    <2> HIDE DEF h
    <2>3. thread'[u] = h
      BY <2>1 DEF IInv, TypeOK
    <2> QED BY <2>2, <2>3
  <1> QED BY <1>1, <1>2, <1>3

\* Only the handler itself ends its report.
LEMMA CalmAgrees ==
  ASSUME IInv, IInv', \A u \in Threads : Alone(u), ~RecoveryLoop,
         NEW t \in Threads \cup {NoThread}, Moves(t), JobMoves,
         \A u \in Threads : thread[u].pc \in {"jobread", "jobwrite"} =>
           thread'[u] = thread[u] \/ Handle(u),
         NEW j \in Jobs, Agrees(j)
  PROVE  Agrees(j)'
  <1> SUFFICES ASSUME step'[j].status \in {"completed", "failed"},
                      job'[j].status # step'[j].status
               PROVE  \E u \in Threads : ReportOn(thread'[u], j)
                                           /\ thread'[u].pc \in {"jobread", "jobwrite"}
    BY DEF Agrees
  <1>1. ASSUME NEW u \in Threads, Written(u, j) PROVE FALSE
    <2>1. thread[u].op \in ReportOps /\ job'[j].status = Target(thread[u].op)
          /\ thread[u].pc = "jobwrite" /\ thread[u].job = j
      BY <1>1 DEF Written, IInv, HandlerInv
    <2>2. Past(thread[u]) /\ Stands(thread[u])
      BY <2>1 DEF Past, Alone
    <2>3. step[j].status = Target(thread[u].op)
      BY <2>1, <2>2 DEF Stands
    <2>4. job'[j].status \in {"completed", "failed"} => step'[j].status = job'[j].status
      BY DEF IInv, JobInv
    <2>5. thread[u].op = "start"
      BY <2>1, <2>4 DEF Target, ReportOps
    <2>6. step[j].status = "running"
      BY <2>3, <2>5 DEF Target
    <2>7. t \in Threads /\ ReportOn(thread[t], j) => t = u
      BY <2>1 DEF Alone
    <2> QED BY <2>1, <2>6, <2>7 DEF Moves, RowMoves, SameHold
  <1>2. CASE t \in Threads /\ ReportOn(thread[t], j) /\ thread[t].pc = "update"
             /\ thread'[t].pc = "jobread"
    BY <1>2 DEF Moves, HandlerMoves, Freed, Idle, ReportOn, ReportOps
  <1>3. CASE SameHold(j)
    <2>1. step[j].status \in {"completed", "failed"}
      BY <1>3 DEF SameHold
    <2>2. job[j].status # step[j].status
      BY <1>1, <1>3, <2>1 DEF JobMoves, SameHold
    <2>3. PICK u \in Threads : ReportOn(thread[u], j) /\ thread[u].pc \in {"jobread", "jobwrite"}
      BY <2>1, <2>2 DEF Agrees
    <2>4. Past(thread[u]) /\ Stands(thread[u])
      BY <2>3 DEF Past, Alone, ReportOn
    <2>5. thread[u].op # "start" /\ thread[u].job = j
      BY <2>1, <2>3, <2>4 DEF Stands, Target, ReportOn
    <2>6. thread'[u] = thread[u] \/ thread'[u].pc = "jobwrite"
      BY <1>1, <2>3, <2>5, SecondTransaction
    <2>7. ReportOn(thread'[u], j)
      BY <2>3, <2>6 DEF Moves, HandlerMoves, Freed, Idle, ReportOn, ReportOps
    <2> QED BY <2>3, <2>6, <2>7
  <1> QED BY <1>2, <1>3 DEF Moves, RowMoves

\* The step of a process that sends no report.
LEMMA CalmWorker ==
  ASSUME GInv, IInv, \A u \in Threads : Alone(u), \A j \in Jobs : Agrees(j),
         NEW w \in Workers, step' = step, job' = job,
         \A u \in Threads : \/ thread'[u] = thread[u]
                            \/ thread[u].pc \in {"idle", "replied"} /\ thread'[u].op \notin ReportOps,
         \A v \in Workers : v # w => worker'[v] = worker[v],
         \A u \in Threads : thread'[u] = thread[u] /\ ReportOn(thread[u], worker'[w].job)
                              => worker'[w].thread = u
  PROVE  (\A u \in Threads : Alone(u)') /\ (\A j \in Jobs : Agrees(j)')
  <1>1. ASSUME NEW u \in Threads PROVE Alone(u)'
    <2>1. CASE thread'[u] = thread[u]
      <3>1. Past(thread'[u]) => Stands(thread[u])'
        BY <2>1 DEF Alone, Stands
      <3>2. ASSUME thread'[u].op \in ReportOps, NEW v \in Threads,
                   ReportOn(thread'[v], thread'[u].job)
            PROVE  v = u
        BY <2>1, <3>2 DEF Alone, ReportOn
      <3>3. ASSUME thread'[u].op \in ReportOps, NEW v \in Workers,
                   worker'[v].job = thread'[u].job
            PROVE  worker'[v].thread = u
        BY <2>1, <3>3 DEF Alone, ReportOn
      <3> QED BY <3>1, <3>2, <3>3 DEF Alone
    <2>2. CASE thread'[u].op \notin ReportOps
      BY <2>2 DEF Alone, Past
    <2> QED BY <2>1, <2>2
  <1>2. ASSUME NEW j \in Jobs PROVE Agrees(j)'
    BY DEF Agrees
  <1> QED BY <1>1, <1>2

\* A process that holds a step makes a request.
LEMMA CalmSend ==
  ASSUME GInv, IInv, \A u \in Threads : Alone(u), \A j \in Jobs : Agrees(j),
         NEW w \in Workers, NEW t \in Threads, Send(w, t)
  PROVE  (\A u \in Threads : Alone(u)') /\ (\A j \in Jobs : Agrees(j)')
  <1> DEFINE h == [ pc |-> "read", op |-> RequestOf[worker[w].pc], job |-> worker[w].job,
                    node |-> NodeOf[w], epoch |-> worker[w].epoch,
                    draft |-> NoJobRow, reply |-> "none" ]
             p == [worker[w] EXCEPT !.thread = t]
  <1>1. /\ thread[t].pc = "idle" /\ step' = step /\ job' = job
        /\ worker[w].thread = NoThread /\ worker[w].pc \in DOMAIN RequestOf
        /\ worker[w] \in Process
        /\ Executing(worker[w].pc) <=> worker[w].job # NoJob
    BY DEF Send, Receive, Waiting, GInv, WorkersTypeOK
  <1>2. thread'[t] = h /\ \A u \in Threads : u # t => thread'[u] = thread[u]
    BY DEF Send, Receive, IInv, TypeOK
  <1>3. h.pc = "read" /\ h.op = RequestOf[worker[w].pc] /\ h.job = worker[w].job
    OBVIOUS
  <1>4. p.thread = t /\ p.job = worker[w].job
    BY <1>1 DEF Process
  <1>5. worker' = [worker EXCEPT ![w] = p]
    BY DEF Send
  <1> HIDE DEF h, p
  <1>6. worker'[w] = p /\ \A v \in Workers : v # w => worker'[v] = worker[v]
    BY <1>5 DEF GInv, WorkersTypeOK
  <1>7. h.op \in ReportOps => worker[w].job \in Jobs
    BY <1>1, <1>3 DEF RequestOf, ReportOps, Executing, Process
  <1>8. ASSUME NEW u \in Threads, u # t, ReportOn(thread[u], worker[w].job) PROVE FALSE
    BY <1>1, <1>8 DEF Alone, ReportOn
  <1>9. ASSUME NEW u \in Threads PROVE Alone(u)'
    <2>1. CASE u = t
      <3>1. ~Past(thread'[t])
        BY <1>2, <1>3 DEF Past
      <3>2. ASSUME NEW v \in Threads, ReportOn(thread'[v], thread'[t].job) PROVE v = t
        BY <1>2, <1>3, <1>8, <3>2
      <3>3. ASSUME thread'[t].op \in ReportOps, NEW v \in Workers,
                   worker'[v].job = thread'[t].job
            PROVE  worker'[v].thread = t
        <4>1. worker[w].job # NoJob /\ HolderInv(w)
          BY <1>2, <1>7, <3>3 DEF GInv
        <4> QED BY <1>2, <1>3, <1>4, <1>6, <3>3, <4>1 DEF HolderInv
      <3> QED BY <2>1, <3>1, <3>2, <3>3 DEF Alone
    <2>2. CASE u # t
      <3>1. thread'[u] = thread[u]
        BY <1>2, <2>2
      <3>2. Past(thread'[u]) => Stands(thread[u])'
        BY <1>1, <3>1 DEF Alone, Stands
      <3>3. ASSUME thread'[u].op \in ReportOps, NEW v \in Threads,
                   ReportOn(thread'[v], thread'[u].job)
            PROVE  v = u
        BY <1>2, <1>3, <1>8, <2>2, <3>1, <3>3 DEF Alone, ReportOn
      <3>4. ASSUME thread'[u].op \in ReportOps, NEW v \in Workers,
                   worker'[v].job = thread'[u].job
            PROVE  worker'[v].thread = u
        BY <1>4, <1>6, <1>8, <2>2, <3>1, <3>4 DEF Alone, ReportOn
      <3> QED BY <3>2, <3>3, <3>4 DEF Alone
    <2> QED BY <2>1, <2>2
  <1>10. ASSUME NEW j \in Jobs PROVE Agrees(j)'
    <2>1. \A u \in Threads : thread[u].pc \in {"jobread", "jobwrite"} => thread'[u] = thread[u]
      BY <1>1, <1>2
    <2> QED BY <1>1, <2>1 DEF Agrees
  <1> QED BY <1>9, <1>10

\* What a process holds after a step in which it sends nothing.
LEMMA Holding ==
  ASSUME GInv, NEW w \in Workers, NEW q, NEW next, Becomes(w, q, next)
  PROVE  /\ \A v \in Workers : v # w => worker'[v] = worker[v]
         /\ worker'[w].job = IF Executing(next) THEN q.job ELSE NoJob
  <1>1. worker'[w] = Become(q, next) /\ \A v \in Workers : v # w => worker'[v] = worker[v]
    BY DEF GInv, WorkersTypeOK, Becomes
  <1> QED BY <1>1 DEF Become

\* A process's step when no request is lost.
LEMMA CalmWorkerStep ==
  ASSUME GInv, IInv, \A u \in Threads : Alone(u), \A j \in Jobs : Agrees(j),
         NEW w \in Workers, WorkerStep(w) \/ Crash(w)
  PROVE  (\A u \in Threads : Alone(u)') /\ (\A j \in Jobs : Agrees(j)')
  <1>1. ASSUME NEW u \in Threads PROVE ~ReportOn(thread[u], NoJob)
    BY DEF ReportOn, IInv, HandlerInv, HandlerShape, StepOps
  <1>2. ASSUME NEW next, Becomes(w, worker[w], next), UNCHANGED vars,
               Executing(next) => worker[w].thread = NoThread
        PROVE  (\A u \in Threads : Alone(u)') /\ (\A j \in Jobs : Agrees(j)')
    <2>1. \A v \in Workers : v # w => worker'[v] = worker[v]
      BY <1>2, Holding
    <2>2. worker'[w].job = IF Executing(next) THEN worker[w].job ELSE NoJob
      BY <1>2, Holding
    <2>3. \A u \in Threads : ~ReportOn(thread[u], worker'[w].job)
      BY <1>1, <1>2, <2>2 DEF Alone, ReportOn
    <2> QED BY <1>2, <2>1, <2>3, CalmWorker DEF vars
  <1>3. CASE Boot(w)
    BY <1>2, <1>3 DEF Boot, Becomes, Executing
  <1>4. CASE RunPipeline(w)
    <2>1. PICK next : worker' = [worker EXCEPT ![w] = Become(@, next)]
      BY <1>4 DEF RunPipeline
    <2>2. worker[w].thread = NoThread /\ UNCHANGED vars
      BY <1>4 DEF RunPipeline, GInv, WorkersTypeOK, RequestOf
    <2> QED BY <1>2, <2>1, <2>2 DEF Becomes
  <1>5. CASE Poll(w)
    <2> DEFINE next == IF w \in PollOnce THEN "exited" ELSE "heartbeat"
    <2>1. Becomes(w, worker[w], next) /\ ~Executing(next) /\ UNCHANGED vars
      BY <1>5 DEF Poll, Becomes, Executing
    <2> QED BY <1>2, <2>1
  <1>6. CASE Crash(w)
    BY <1>2, <1>6 DEF Crash, Becomes, Executing
  <1>7. ASSUME NEW t \in Threads, Send(w, t)
        PROVE  (\A u \in Threads : Alone(u)') /\ (\A j \in Jobs : Agrees(j)')
    BY <1>7, CalmSend
  <1>8. CASE Return(w)
    <2> DEFINE t == worker[w].thread
               p == worker[w]
               next == AfterReply(p.pc, thread[t].reply)
               q == IF p.pc = "claim"
                    THEN [p EXCEPT !.job = thread[t].job, !.epoch = thread[t].epoch] ELSE p
    <2>1. /\ t \in Threads /\ p \in Process /\ p.pc \in DOMAIN RequestOf
          /\ thread[t].op = RequestOf[p.pc]
      BY <1>8 DEF Return, Waiting, GInv, WorkersTypeOK, Process, LinkInv
    <2>2. /\ thread[t].pc = "replied" /\ thread'[t] = Idle
          /\ \A u \in Threads : u # t => thread'[u] = thread[u]
          /\ step' = step /\ job' = job
      BY <1>8, <2>1 DEF Return, Finish, IInv, TypeOK
    <2>3. Becomes(w, q, next)
      BY <1>8 DEF Return, Becomes
    <2>4. /\ next = "start" => p.pc = "claim" /\ thread[t].reply = "ok"
          /\ next # "start" /\ Executing(next) => p.pc # "claim"
      BY <2>1, ReplyLeads DEF Executing
    <2>5. p.pc = "claim" => q.job = thread[t].job
      BY <2>1 DEF Process
    <2>6. p.pc # "claim" => q = p
      OBVIOUS
    <2> HIDE DEF next, q
    <2>7. \A v \in Workers : v # w => worker'[v] = worker[v]
      BY <2>3, Holding
    <2>8. worker'[w].job = IF Executing(next) THEN q.job ELSE NoJob
      BY <2>3, Holding
    <2>9. ASSUME NEW u \in Threads, thread'[u] = thread[u], ReportOn(thread[u], worker'[w].job)
          PROVE  FALSE
      <3>1. Executing(next) /\ worker'[w].job = q.job
        BY <1>1, <2>8, <2>9
      <3>2. CASE next = "start"
        <4>1. Leasing(thread[t]) /\ q.job = thread[t].job
          BY <2>1, <2>2, <2>4, <2>5, <3>2 DEF Leasing, RequestOf
        <4> QED BY <2>1, <2>9, <3>1, <4>1 DEF GInv, LeaseInv
      <3>3. CASE next # "start"
        <4>1. worker'[w].job = p.job
          BY <2>4, <2>6, <3>1, <3>3
        <4>2. t = u
          BY <2>9, <4>1 DEF Alone, ReportOn
        <4> QED BY <2>2, <2>9, <4>2 DEF Idle
      <3> QED BY <3>2, <3>3
    <2>10. \A u \in Threads :
             \/ thread'[u] = thread[u]
             \/ thread[u].pc \in {"idle", "replied"} /\ thread'[u].op \notin ReportOps
      BY <2>2 DEF Idle, ReportOps
    <2> QED BY <2>2, <2>7, <2>9, <2>10, CalmWorker
  <1> QED BY <1>3, <1>4, <1>5, <1>6, <1>7, <1>8 DEF WorkerStep

\* Every step of a calm system keeps the calm invariant.
LEMMA CalmNextKeeps ==
  ASSUME GInv, IInv, CalmInv, Calm, [GroveNext]_groveVars
  PROVE  CalmInv'
  <1>1. IInv' /\ [AnyNext]_vars
    BY GroveIsAny, AnyNextIInv
  <1>2. JobMoves
    BY <1>1, JobsMove
  <1>3. (\A u \in Threads : Alone(u)) /\ (\A j \in Jobs : Agrees(j)) /\ ~RecoveryLoop
    BY CalmParts DEF Calm
  <1>4. CASE \E w \in Workers : WorkerStep(w) \/ Crash(w)
    BY <1>3, <1>4, CalmWorkerStep DEF CalmInv, Alone, Agrees
  <1>5. CASE (\E t \in Threads : ControllerStep(t)) \/ Environment
    <2>1. worker' = worker /\ \E t \in Threads \cup {NoThread} : Moves(t)
      BY <1>5, ControllerMoves DEF ControllerStep, Environment, workerVars
    <2>2. \A u \in Threads : Alone(u)'
      BY <1>3, <2>1, CalmAlone
    <2>3. ASSUME NEW u \in Threads, thread[u].pc \in {"jobread", "jobwrite"}
          PROVE  thread'[u] = thread[u] \/ Handle(u)
      <3>1. CASE Environment
        BY <3>1 DEF Environment, CreateJob, RecoverStep, Expire
      <3>2. ASSUME NEW t \in Threads, ControllerStep(t)
            PROVE  thread'[u] = thread[u] \/ Handle(u)
        <4>1. CASE Handle(t)
          BY <4>1, OthersWait DEF IInv
        <4>2. CASE Finish(t)
          BY <2>3, <4>2 DEF Finish, IInv, TypeOK
        <4> QED BY <3>2, <4>1, <4>2 DEF ControllerStep
      <3> QED BY <1>5, <3>1, <3>2
    <2>4. \A j \in Jobs : Agrees(j)'
      BY <1>1, <1>2, <1>3, <2>1, <2>3, CalmAgrees
    <2> QED BY <2>2, <2>4 DEF CalmInv, Alone, Agrees
  <1>6. CASE UNCHANGED groveVars
    BY <1>6 DEF CalmInv, groveVars, vars, workerVars, Past, Stands, ReportOn
  <1>7. ~\E w \in Workers : GiveUp(w) \/ Unreachable(w)
    BY DEF GiveUp, Unreachable, Calm
  <1>8. ~Restart /\ ~\E t \in Threads : StorageError(t)
    BY DEF Restart, StorageError, Calm
  <1> QED BY <1>4, <1>5, <1>6, <1>7, <1>8 DEF GroveNext, Fault
-----------------------------------------------------------------------------
(***************************************************************************)
(* What follows.  The first four hold under every fault, with and without  *)
(* recovery, whatever bounds MaxEpoch and ClientOps set for TLC.           *)
(***************************************************************************)
Control == IInv /\ GInv /\ FullInv

\* Every step keeps the invariant of the whole.
LEMMA ControlNext == Control /\ [GroveNext]_groveVars => Control'
  <1> SUFFICES ASSUME Control, [GroveNext]_groveVars PROVE Control'
    OBVIOUS
  <1>1. [AnyNext]_vars
    BY GroveIsAny DEF Control
  <1> QED BY <1>1, GroveNextKeeps, FullKeep DEF Control

\* The invariant of Controller and processes together holds in every reachable
\* state: who holds a lease, which report is under way, which pipeline runs.
THEOREM ControlHolds == GroveSpec => []Control
  <1>1. GroveInit => Control
    BY InitIInv, InitGInv DEF GroveInit, Control
  <1> QED BY <1>1, ControlNext, PTL DEF GroveSpec

\* The processes and the handlers keep their types; a process waits only where
\* it makes a request, and holds a step exactly from the claim to the end of
\* execute_claimed_step.
THEOREM WorkersTypeCorrect == GroveSpec => [](TypeOK /\ WorkersTypeOK)
  <1>1. Control => TypeOK /\ WorkersTypeOK
    BY DEF Control, IInv, GInv
  <1> QED BY ControlHolds, <1>1, PTL

\* The pipeline is started at most once for a step: the lease is granted once, it
\* goes to one process, and that process starts the pipeline only after the one
\* start_step of its own that the Controller acknowledged.
THEOREM PipelineRunsAtMostOnce == GroveSpec => []PipelineRunsOnce
  <1>1. Control => PipelineRunsOnce
    BY DEF Control, GInv, RunsInv, PipelineRunsOnce
  <1> QED BY ControlHolds, <1>1, PTL

\* Two processes never hold the same step, not even two of one node id whose
\* claim_next handlers chose the same row.
THEOREM StepHasOneHolder == GroveSpec => []OneHolder
  <1>1. Control => OneHolder
    BY DEF Control, GInv, HolderInv, OneHolder
  <1> QED BY ControlHolds, <1>1, PTL

\* A job once shown as completed stays so: the second transaction of an old start
\* or fail report, which writes the job without looking at it, cannot still be
\* under way.
THEOREM CompletedJobStays == GroveSpec => CompletedJobFinal
  <1>1. Control /\ [GroveNext]_groveVars =>
          [\A j \in Jobs : job[j].status = "completed" => job'[j] = job[j]]_groveVars
    BY GroveIsAny, ControlNext, CompletedStays DEF Control
  <1> QED BY ControlHolds, <1>1, PTL DEF GroveSpec, CompletedJobFinal

\* The control plane is a Controller whose clients are the processes: what
\* Controller's handlers promise to arbitrary clients they promise to these, and
\* a step moves as StepLedger says.
THEOREM GroveKeepsLedger == GroveSpec => LedgerSpec
  <1>1. GroveInit => Ledger!Init
    BY LedgerInit DEF GroveInit
  <1>2. Control /\ [GroveNext]_groveVars => [Ledger!Next]_LedgerView
    BY GroveIsAny, LedgerNext DEF Control
  <1> QED BY <1>1, <1>2, ControlHolds, PTL DEF GroveSpec, LedgerSpec, Ledger!Spec

\* As long as nothing calls recover_timed_out_step (and nothing under mediaorchard/
\* does), the row of a step whose pipeline runs stays running, under the process's
\* node and epoch, whatever requests are lost, late, repeated or interrupted.
THEOREM RunningStepIsProtected == ~RecoveryLoop => (GroveSpec => []ExecutionProtected)
  <1> SUFFICES ASSUME ~RecoveryLoop PROVE GroveSpec => []ExecutionProtected
    OBVIOUS
  <1> DEFINE Rows == \A w \in Workers : RowInv(w)
  <1>1. GroveInit => Rows
    BY InitGInv
  <1>2. Control /\ Rows /\ [GroveNext]_groveVars => Rows'
    BY GroveNextKeeps DEF Control
  <1>3. Rows => ExecutionProtected
    BY DEF RowInv, ExecutionProtected
  <1> HIDE DEF Rows
  <1> QED BY <1>1, <1>2, <1>3, ControlHolds, PTL DEF GroveSpec

\* Without lost or abandoned requests, storage errors and restarts a job shows the
\* outcome of its step once nobody is concerned with it any more, although each of
\* the two is written in its own transaction and processes may die in between.
THEOREM JobsAgree == Calm => (GroveSpec => []JobAgreesWithStep)
  <1> SUFFICES ASSUME Calm PROVE GroveSpec => []JobAgreesWithStep
    OBVIOUS
  <1>1. GroveInit => CalmInv
    BY InitGInv
  <1>2. Control /\ CalmInv /\ [GroveNext]_groveVars => CalmInv'
    BY CalmNextKeeps DEF Control
  <1>3. CalmInv => JobAgreesWithStep
    BY DEF CalmInv, JobAgreesWithStep, Quiet, ReportOn
  <1> QED BY <1>1, <1>2, <1>3, ControlHolds, PTL DEF GroveSpec
=============================================================================
