---------------------------- MODULE Ledger_proofs ----------------------------
(***************************************************************************)
(* Controller implements StepLedger: every step of every handler, however  *)
(* they overlap, is one atomic event of the ledger or none.                *)
(***************************************************************************)
EXTENDS Controller_proofs

\* What one step of the Controller does to the step table.
Created(j) ==
    /\ step[j].status = "absent"
    /\ step' = [step EXCEPT ![j] = FreshStep("queued")]

Leased(j) ==
    /\ step[j].status = "assigned"
    /\ ~step[j].claimed
    /\ step' = [step EXCEPT ![j].claimed = TRUE]

ReportTaken(j, op) ==
    /\ step[j].status \in FromStatuses(op)
    /\ step' = [step EXCEPT ![j] = Reported(op, step[j])]

Recovered(j) ==
    /\ Recoverable(step[j])
    /\ step' = [step EXCEPT ![j] = RecoverTimedOutStep(step[j])]

TableMoves ==
    \/ step' = step
    \/ ScheduleQueuedSteps(node')
    \/ \E j \in Jobs : Created(j) \/ Leased(j) \/ Recovered(j)
    \/ \E j \in Jobs, op \in ReportOps \cup {"progress"} : ReportTaken(j, op)

\* The entry of a row.
EntryOf(s) ==
    [ state |-> LedgerState[s.status], holder |-> s.node,
      epoch |-> s.epoch, leased |-> s.claimed ]
-----------------------------------------------------------------------------
\* Whatever handler, fault or recovery runs, the table moves in one of these ways.
LEMMA StepsMoveTable ==
  ASSUME IInv, [AnyNext]_vars
  PROVE  TableMoves
  <1>1. CASE UNCHANGED vars
    BY <1>1 DEF vars, TableMoves
  <1>2. ASSUME NEW j \in Jobs, CreateJob(j) PROVE TableMoves
    <2>1. step[j].status = "absent"
      BY <1>2 DEF CreateJob, IInv, StepInv
    <2> QED BY <1>2, <2>1 DEF CreateJob, Created, TableMoves
  <1>3. ASSUME NEW j \in Jobs, RecoverStep(j) PROVE TableMoves
    BY <1>3 DEF RecoverStep, Recovered, TableMoves
  <1>4. ASSUME NEW n \in Nodes, Expire(n) PROVE TableMoves
    BY <1>4 DEF Expire, TableMoves
  <1>5. ASSUME NEW t \in Threads, NEW r \in Sendable, Receive(t, r) PROVE TableMoves
    BY <1>5 DEF Receive, TableMoves
  <1>6. ASSUME NEW t \in Threads, Finish(t) \/ StorageError(t) PROVE TableMoves
    BY <1>6 DEF Finish, StorageError, TableMoves
  <1>7. CASE Restart
    BY <1>7 DEF Restart, TableMoves
  <1>8. ASSUME NEW t \in Threads, Handle(t) PROVE TableMoves
    <2>1. CASE RegisterRead(t) \/ RegisterInsert(t) \/ RegisterModify(t)
      BY <2>1 DEF RegisterRead, RegisterInsert, RegisterModify, TableMoves
    <2>2. CASE Heartbeat(t)
      BY <2>2 DEF Heartbeat, TableMoves
    <2>3. CASE ClaimSelect(t) \/ ClaimReread(t)
      BY <2>3 DEF ClaimSelect, ClaimReread, TableMoves
    <2>4. CASE ClaimUpdate(t)
      <3>1. thread[t].job \in Jobs
        BY <2>4 DEF ClaimUpdate, At, IInv, HandlerInv, HandlerShape
      <3>2. CASE Claimable(thread[t].job, thread[t].node)
        <4>1. Leased(thread[t].job)
          BY <2>4, <3>2 DEF ClaimUpdate, Claimable, GrantLease, Leased
        <4> QED BY <3>1, <4>1 DEF TableMoves
      <3>3. CASE ~Claimable(thread[t].job, thread[t].node)
        BY <2>4, <3>3 DEF ClaimUpdate, TableMoves
      <3> QED BY <3>2, <3>3
    <2>5. CASE StepRead(t) \/ JobRead(t) \/ JobWrite(t)
      BY <2>5 DEF StepRead, JobRead, JobWrite, TableMoves
    <2>6. CASE StepUpdate(t)
      <3> DEFINE h == thread[t]
      <3>1. h.op \in StepOps /\ h.job \in Jobs
        BY <2>6 DEF StepUpdate, At, IInv, HandlerInv, HandlerShape
      <3>2. CASE ~GuardHolds(h, step[h.job])
        BY <2>6, <3>2 DEF StepUpdate, TableMoves
      <3>3. CASE GuardHolds(h, step[h.job]) /\ h.op = "claim"
        <4>1. Leased(h.job)
          BY <2>6, <3>3 DEF StepUpdate, GuardHolds, FromStatuses, GrantLease, Leased
        <4> QED BY <3>1, <4>1 DEF TableMoves
      <3>4. CASE GuardHolds(h, step[h.job]) /\ h.op # "claim"
        <4>1. h.op \in ReportOps \cup {"progress"}
          BY <3>1, <3>4 DEF StepOps
        <4>2. ReportTaken(h.job, h.op)
          BY <2>6, <3>1, <3>4 DEF StepUpdate, GuardHolds, ReportTaken
        <4> QED BY <3>1, <4>1, <4>2 DEF TableMoves
      <3> QED BY <3>2, <3>3, <3>4
    <2> QED BY <1>8, <2>1, <2>2, <2>3, <2>4, <2>5, <2>6 DEF Handle
  <1> QED BY <1>1, <1>2, <1>3, <1>4, <1>5, <1>6, <1>7, <1>8 DEF AnyNext
-----------------------------------------------------------------------------
\* The view, row by row.
LEMMA ViewIs == LedgerView = [j \in Jobs |-> EntryOf(step[j])]
  BY DEF LedgerView, EntryOf

\* A change of one row is a change of one entry.
LEMMA ViewExcept ==
  ASSUME step \in [Jobs -> StepRow], NEW j \in Jobs, NEW s, step' = [step EXCEPT ![j] = s]
  PROVE  LedgerView' = [LedgerView EXCEPT ![j] = EntryOf(s)]
  <1>1. \A k \in Jobs : step'[k] = IF k = j THEN s ELSE step[k]
    OBVIOUS
  <1>2. LedgerView' = [k \in Jobs |-> EntryOf(step'[k])]
    BY DEF LedgerView, EntryOf
  <1>3. LedgerView' = [k \in Jobs |-> IF k = j THEN EntryOf(s) ELSE EntryOf(step[k])]
    BY <1>1, <1>2
  <1> QED BY <1>3, ViewIs

\* The states of an entry.
LEMMA States ==
  /\ LedgerState["absent"] = "none" /\ LedgerState["queued"] = "waiting"
  /\ LedgerState["assigned"] = "given" /\ LedgerState["running"] = "working"
  /\ LedgerState["completed"] = "completed" /\ LedgerState["failed"] = "failed"
  BY DEF LedgerState

Entry ==
    [ state : Ledger!State, holder : Nodes \cup {NoNode}, epoch : Nat, leased : BOOLEAN ]

\* Entries are equal if their fields are.
LEMMA EntryEqual ==
  ASSUME NEW e \in Entry, NEW f \in Entry, e.state = f.state, e.holder = f.holder,
         e.epoch = f.epoch, e.leased = f.leased
  PROVE  e = f
  BY DEF Entry

\* An entry that a pass or a recovery moves.
Moved(e, state, holder) == [e EXCEPT !.state = state, !.holder = holder, !.epoch = @ + 1]

\* An entry after it is given or revoked.
LEMMA MovedFacts ==
  ASSUME NEW e \in Entry,
         NEW state \in Ledger!State,
         NEW holder \in Nodes \cup {NoNode}
  PROVE  LET f == Moved(e, state, holder) IN
         /\ f \in Entry
         /\ f.state = state /\ f.holder = holder
         /\ f.epoch = e.epoch + 1 /\ f.leased = e.leased
  <1> DEFINE n == e.epoch + 1
             g == [e EXCEPT !.state = state, !.holder = holder, !.epoch = n]
  <1>1. n \in Nat
    BY DEF Entry
  <1>2. Moved(e, state, holder) = g
    BY DEF Moved
  <1> HIDE DEF n
  <1>3. g \in Entry
    BY <1>1 DEF Entry
  <1>4. g.state = state /\ g.holder = holder /\ g.epoch = n /\ g.leased = e.leased
    BY DEF Entry
  <1> HIDE DEF g
  <1> QED BY <1>2, <1>3, <1>4 DEF n

\* The entry of a row of the table is one.
LEMMA RowsEntry ==
  ASSUME NEW s \in StepRow,
         s.status \in {"absent", "queued", "assigned", "running", "completed", "failed"}
  PROVE  EntryOf(s) \in Entry
  <1>1. LedgerState[s.status] \in Ledger!State
    BY States DEF Ledger!State
  <1> QED BY <1>1 DEF EntryOf, Entry, StepRow

\* Only a queued row waits.
LEMMA QueuedRows ==
  ASSUME IInv, NEW j \in Jobs
  PROVE  LedgerState[step[j].status] = "waiting" <=> step[j].status = "queued"
  BY States DEF IInv, StepInv
-----------------------------------------------------------------------------
\* create_job submits.
LEMMA CreatedSubmits ==
  ASSUME IInv, NEW j \in Jobs, Created(j)
  PROVE  Ledger!Submit(j)
  <1>1. step[j] = FreshStep("absent")
    BY DEF Created, IInv, StepInv
  <1>2. LedgerView' = [LedgerView EXCEPT ![j] = EntryOf(FreshStep("queued"))]
    BY ViewExcept DEF Created, IInv, TypeOK
  <1>3. LedgerView[j] = EntryOf(FreshStep("absent"))
    BY <1>1, ViewIs
  <1>4. EntryOf(FreshStep("queued")) = [EntryOf(FreshStep("absent")) EXCEPT !.state = "waiting"]
    <2> DEFINE f == [EntryOf(FreshStep("absent")) EXCEPT !.state = "waiting"]
    <2>1. EntryOf(FreshStep("absent")) \in Entry /\ EntryOf(FreshStep("queued")) \in Entry
      BY States DEF EntryOf, FreshStep, Entry, Ledger!State
    <2>2. f \in Entry /\ f.state = "waiting"
      BY <2>1 DEF Entry, Ledger!State
    <2>3. f.holder = NoNode /\ f.epoch = 0 /\ f.leased = FALSE
      BY <2>1 DEF Entry, EntryOf, FreshStep
    <2> HIDE DEF f
    <2>4. EntryOf(FreshStep("queued")) = f
      BY <2>1, <2>2, <2>3, States, EntryEqual DEF EntryOf, FreshStep
    <2> QED BY <2>4 DEF f
  <1>5. LedgerView[j].state = "none"
    BY <1>3, States DEF EntryOf, FreshStep
  <1> QED BY <1>2, <1>3, <1>4, <1>5 DEF Ledger!Submit

\* A granted lease leases.
LEMMA LeasedLeases ==
  ASSUME IInv, NEW j \in Jobs, Leased(j)
  PROVE  Ledger!Lease(j)
  <1> DEFINE s == [step[j] EXCEPT !.claimed = TRUE]
  <1>1. step[j] \in StepRow /\ step \in [Jobs -> StepRow]
    BY DEF IInv, TypeOK
  <1>2. LedgerView' = [LedgerView EXCEPT ![j] = EntryOf(s)]
    BY <1>1, ViewExcept DEF Leased
  <1>3. LedgerView[j] = EntryOf(step[j])
    BY ViewIs
  <1>4. EntryOf(s) = [EntryOf(step[j]) EXCEPT !.leased = TRUE]
    <2> DEFINE f == [EntryOf(step[j]) EXCEPT !.leased = TRUE]
    <2>1. /\ s.status = step[j].status /\ s.node = step[j].node
          /\ s.epoch = step[j].epoch /\ s.claimed = TRUE /\ s \in StepRow
      BY <1>1 DEF StepRow
    <2>2. EntryOf(s) \in Entry /\ EntryOf(step[j]) \in Entry
      BY <1>1, <2>1, RowsEntry DEF IInv, StepInv
    <2>3. f \in Entry
      BY <2>2 DEF Entry
    <2>4. f.state = LedgerState[step[j].status] /\ f.holder = step[j].node
          /\ f.epoch = step[j].epoch /\ f.leased = TRUE
      BY <2>2 DEF Entry, EntryOf
    <2> HIDE DEF s, f
    <2>5. EntryOf(s) = f
      BY <2>1, <2>2, <2>3, <2>4, EntryEqual DEF EntryOf
    <2> QED BY <2>5 DEF f
  <1>5. LedgerView[j].state = "given" /\ ~LedgerView[j].leased
    BY <1>3, States DEF Leased, EntryOf
  <1> QED BY <1>2, <1>3, <1>4, <1>5 DEF Ledger!Lease

\* A pass of the scheduler gives everything that waits.
LEMMA ScheduleGives ==
  ASSUME IInv, NEW nodes, ScheduleQueuedSteps(nodes)
  PROVE  Ledger!GiveWaiting \/ LedgerView' = LedgerView
  <1>1. CASE EligibleNodes(nodes) = {}
    BY <1>1 DEF ScheduleQueuedSteps, LedgerView
  <1>2. CASE EligibleNodes(nodes) # {}
    <2>1. PICK target \in [QueuedSteps -> EligibleNodes(nodes)] :
            step' = [j \in Jobs |-> IF j \in QueuedSteps
                                    THEN AssignStep(step[j], target[j]) ELSE step[j]]
      BY <1>2 DEF ScheduleQueuedSteps
    <2>2. PICK n \in Nodes : n \in EligibleNodes(nodes)
      BY <1>2 DEF EligibleNodes
    <2> DEFINE all == [j \in Jobs |-> IF j \in QueuedSteps THEN target[j] ELSE n]
    <2>3. all \in [Jobs -> Nodes]
      BY <2>1, <2>2 DEF EligibleNodes
    <2>4. ASSUME NEW j \in Jobs
          PROVE  EntryOf(step'[j]) =
                   IF LedgerView[j].state = "waiting"
                   THEN [LedgerView[j] EXCEPT !.state = "given", !.holder = all[j],
                                              !.epoch = @ + 1]
                   ELSE LedgerView[j]
      <3>1. LedgerView[j] = EntryOf(step[j]) /\ step[j] \in StepRow
        BY ViewIs DEF IInv, TypeOK
      <3>2. LedgerView[j].state = "waiting" <=> j \in QueuedSteps
        BY <3>1, QueuedRows DEF EntryOf, QueuedSteps
      <3>3. CASE j \in QueuedSteps
        <4>1. step'[j] = AssignStep(step[j], target[j]) /\ all[j] = target[j]
          BY <2>1, <3>3
        <4>2. target[j] \in Nodes
          BY <3>3 DEF EligibleNodes
        <4>3. /\ step'[j].status = "assigned" /\ step'[j].node = target[j]
              /\ step'[j].epoch = step[j].epoch + 1 /\ step'[j].claimed = step[j].claimed
          BY <3>1, <4>1, <4>2, AssignStepFacts
        <4>4. EntryOf(step'[j]) = [EntryOf(step[j]) EXCEPT !.state = "given",
                                     !.holder = target[j], !.epoch = @ + 1]
          <5> DEFINE e == EntryOf(step[j])
                     f == Moved(e, "given", target[j])
          <5>1. step'[j] \in StepRow
            BY <3>1, <4>1, <4>2, AssignStepFacts
          <5>2. e \in Entry /\ EntryOf(step'[j]) \in Entry
            BY <3>1, <4>3, <5>1, RowsEntry DEF IInv, StepInv
          <5>3. e.epoch = step[j].epoch /\ e.leased = step[j].claimed
            BY DEF EntryOf
          <5>4. /\ EntryOf(step'[j]).state = "given" /\ EntryOf(step'[j]).holder = target[j]
                /\ EntryOf(step'[j]).epoch = step[j].epoch + 1
                /\ EntryOf(step'[j]).leased = step[j].claimed
            BY <4>3, States DEF EntryOf
          <5> HIDE DEF e
          <5>5. f \in Entry /\ f.state = "given" /\ f.holder = target[j]
                /\ f.epoch = e.epoch + 1 /\ f.leased = e.leased
            <6>1. "given" \in Ledger!State /\ target[j] \in Nodes \cup {NoNode}
              BY <4>2 DEF Ledger!State
            <6> QED BY <5>2, <6>1, MovedFacts
          <5> HIDE DEF f
          <5>6. EntryOf(step'[j]) = f
            BY <5>2, <5>3, <5>4, <5>5, EntryEqual
          <5> QED BY <5>6 DEF e, f, Moved
        <4> QED BY <3>1, <3>2, <3>3, <4>1, <4>4
      <3>4. CASE j \notin QueuedSteps
        BY <2>1, <3>1, <3>2, <3>4
      <3> QED BY <3>3, <3>4
    <2>5. LedgerView' = [j \in Jobs |-> EntryOf(step'[j])]
      BY DEF LedgerView, EntryOf
    <2> HIDE DEF all
    <2>6. LedgerView' = [j \in Jobs |->
                           IF LedgerView[j].state = "waiting"
                           THEN [LedgerView[j] EXCEPT !.state = "given", !.holder = all[j],
                                                      !.epoch = @ + 1]
                           ELSE LedgerView[j]]
      BY <2>4, <2>5
    <2> QED BY <2>3, <2>6 DEF Ledger!GiveWaiting
  <1> QED BY <1>1, <1>2

\* Recovery revokes; a step that was only assigned always waits again.
LEMMA RecoveredRevokes ==
  ASSUME IInv, NEW j \in Jobs, Recovered(j)
  PROVE  Ledger!Revoke(j)
  <1> DEFINE s == step[j]
             r == RecoverTimedOutStep(s)
             to == LedgerState[r.status]
  <1>1. s \in StepRow /\ step \in [Jobs -> StepRow] /\ Recoverable(s)
    BY DEF Recovered, IInv, TypeOK
  <1>2. /\ r.status = "queued" \/ (r.status = "failed" /\ s.status = "running")
        /\ r.node = NoNode /\ r.epoch = s.epoch + 1 /\ r.claimed = s.claimed
        /\ r \in StepRow
    BY <1>1, RecoverFacts
  <1>3. LedgerView' = [LedgerView EXCEPT ![j] = EntryOf(r)]
    BY <1>1, ViewExcept DEF Recovered
  <1>4. LedgerView[j] = EntryOf(s)
    BY ViewIs
  <1>5. to \in {"waiting", "failed"} /\ to \in Ledger!State /\ (to = "failed" => LedgerState[s.status] = "working")
    BY <1>2, States DEF Ledger!State
  <1> HIDE DEF r
  <1>6. EntryOf(r) = [EntryOf(s) EXCEPT !.state = to, !.holder = NoNode, !.epoch = @ + 1]
    <2> DEFINE e == EntryOf(s)
               f == Moved(e, to, NoNode)
    <2>1. e \in Entry /\ EntryOf(r) \in Entry
      BY <1>1, <1>2, RowsEntry DEF Recoverable
    <2>2. e.epoch = s.epoch /\ e.leased = s.claimed
      BY DEF EntryOf
    <2>3. EntryOf(r).state = to /\ EntryOf(r).holder = NoNode
          /\ EntryOf(r).epoch = s.epoch + 1 /\ EntryOf(r).leased = s.claimed
      BY <1>2 DEF EntryOf
    <2> HIDE DEF e, to
    <2>4. f \in Entry /\ f.state = to /\ f.holder = NoNode
          /\ f.epoch = e.epoch + 1 /\ f.leased = e.leased
      BY <1>5, <2>1, MovedFacts
    <2> HIDE DEF f
    <2>5. EntryOf(r) = f
      BY <2>1, <2>2, <2>3, <2>4, EntryEqual
    <2> QED BY <2>5 DEF e, f, Moved
  <1>7. LedgerView[j].state = LedgerState[s.status]
    BY <1>4 DEF EntryOf
  <1>8. LedgerView[j].state \in {"given", "working"}
    BY <1>1, <1>7, States DEF Recoverable
  <1> HIDE DEF to, s
  <1> QED BY <1>3, <1>4, <1>5, <1>6, <1>7, <1>8 DEF Ledger!Revoke, Ledger!Held

\* A report begins or settles; a progress report is not seen in the ledger.
LEMMA ReportSettles ==
  ASSUME IInv, NEW j \in Jobs, NEW op \in ReportOps \cup {"progress"}, ReportTaken(j, op)
  PROVE  Ledger!Begin(j) \/ Ledger!Settle(j) \/ LedgerView' = LedgerView
  <1> DEFINE s == step[j]
             r == Reported(op, s)
  <1>1. s \in StepRow /\ step \in [Jobs -> StepRow]
    BY DEF IInv, TypeOK
  <1>2. /\ op # "progress" => r.status = Target(op)
        /\ op = "progress" => r.status = s.status
        /\ r.node = s.node /\ r.epoch = s.epoch /\ r.claimed = s.claimed
    BY <1>1, ReportedFacts DEF ReportOps
  <1>3. LedgerView' = [LedgerView EXCEPT ![j] = EntryOf(r)]
    BY <1>1, ViewExcept DEF ReportTaken
  <1>4. LedgerView[j] = EntryOf(s) /\ LedgerView[j].state = LedgerState[s.status]
    BY ViewIs DEF EntryOf
  <1>5. s.status \in FromStatuses(op)
    BY DEF ReportTaken
  <1> HIDE DEF r, s
  <1>6. EntryOf(r) = [EntryOf(s) EXCEPT !.state = LedgerState[r.status]]
    BY <1>2 DEF EntryOf
  <1>7. CASE op = "start"
    <2>1. s.status = "assigned" /\ r.status = "running"
      BY <1>2, <1>5, <1>7 DEF FromStatuses, Target
    <2> QED BY <1>3, <1>4, <1>6, <2>1, States DEF Ledger!Begin
  <1>8. CASE op = "complete"
    <2>1. s.status = "running" /\ r.status = "completed"
      BY <1>2, <1>5, <1>8 DEF FromStatuses, Target
    <2> QED BY <1>3, <1>4, <1>6, <2>1, States DEF Ledger!Settle
  <1>9. CASE op = "fail"
    <2>1. s.status \in {"assigned", "running"} /\ r.status = "failed"
      BY <1>2, <1>5, <1>9 DEF FromStatuses, Target
    <2> QED BY <1>3, <1>4, <1>6, <2>1, States DEF Ledger!Settle, Ledger!Held
  <1>10. CASE op = "progress"
    <2>1. EntryOf(r) = EntryOf(s)
      BY <1>2, <1>10 DEF EntryOf
    <2> QED BY <1>3, <1>4, <2>1, ViewIs
  <1> QED BY <1>7, <1>8, <1>9, <1>10 DEF ReportOps
-----------------------------------------------------------------------------
\* Nothing was submitted yet.
LEMMA LedgerInit == Init => Ledger!Init
  <1> SUFFICES ASSUME Init PROVE LedgerView = [j \in Jobs |-> Ledger!Nothing]
    BY DEF Ledger!Init
  <1>1. ASSUME NEW j \in Jobs PROVE EntryOf(step[j]) = Ledger!Nothing
    BY States DEF Init, EntryOf, FreshStep, Ledger!Nothing
  <1> QED BY <1>1, ViewIs

\* A step of the Controller, with whatever request, is one of the ledger or none.
LEMMA LedgerNext == IInv /\ [AnyNext]_vars => [Ledger!Next]_LedgerView
  <1> SUFFICES ASSUME IInv, [AnyNext]_vars PROVE Ledger!Next \/ LedgerView' = LedgerView
    OBVIOUS
  <1>1. CASE step' = step
    BY <1>1 DEF LedgerView
  <1>2. CASE ScheduleQueuedSteps(node')
    BY <1>2, ScheduleGives DEF Ledger!Next
  <1>3. ASSUME NEW j \in Jobs, Created(j) \/ Leased(j) \/ Recovered(j) PROVE Ledger!Next
    BY <1>3, CreatedSubmits, LeasedLeases, RecoveredRevokes DEF Ledger!Next
  <1>4. ASSUME NEW j \in Jobs, NEW op \in ReportOps \cup {"progress"}, ReportTaken(j, op)
        PROVE  Ledger!Next \/ LedgerView' = LedgerView
    BY <1>4, ReportSettles DEF Ledger!Next
  <1> QED BY <1>1, <1>2, <1>3, <1>4, StepsMoveTable DEF TableMoves

\* Seen through its step table, the Controller is the ledger: the guarded UPDATEs of
\* controller/main.py make each request one atomic event, or none, for any number of
\* handlers in progress, with every fault, and with recovery.
THEOREM ControllerKeepsLedger == Spec => LedgerSpec
  <1>1. IInv /\ [Next]_vars => [Ledger!Next]_LedgerView
    BY NextIsAny, LedgerNext
  <1> QED BY InvariantHolds, LedgerInit, <1>1, PTL DEF Spec, LedgerSpec, Ledger!Spec
=============================================================================
