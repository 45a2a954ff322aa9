----------------------------- MODULE StepLedger -----------------------------
(***************************************************************************)
(* What the Controller promises of its steps, with the handlers and their  *)
(* interleaving taken away: one ledger entry per job, moved by atomic      *)
(* events.  Controller implements this specification (LedgerSpec there).   *)
(*                                                                         *)
(* An entry waits, is given to a node, is leased at most once, works, and  *)
(* settles for good.  Only giving and revoking raise the epoch, each by    *)
(* one, and only they change the holder.                                   *)
(***************************************************************************)
EXTENDS Integers

CONSTANTS Jobs, Nodes, NoNode

VARIABLE ledger

State == { "none", "waiting", "given", "working", "completed", "failed" }

Nothing == [ state |-> "none", holder |-> NoNode, epoch |-> 0, leased |-> FALSE ]

Init == ledger = [j \in Jobs |-> Nothing]

Held(j) == ledger[j].state \in {"given", "working"}

Submit(j) ==
    /\ ledger[j].state = "none"
    /\ ledger' = [ledger EXCEPT ![j].state = "waiting"]

\* One scheduling pass gives all entries that wait, each to some node.
GiveWaiting ==
    \E target \in [Jobs -> Nodes] :
        ledger' = [j \in Jobs |->
                     IF ledger[j].state = "waiting"
                     THEN [ledger[j] EXCEPT !.state = "given", !.holder = target[j],
                                            !.epoch = @ + 1]
                     ELSE ledger[j]]

Lease(j) ==
    /\ ledger[j].state = "given"
    /\ ~ledger[j].leased
    /\ ledger' = [ledger EXCEPT ![j].leased = TRUE]

Begin(j) ==
    /\ ledger[j].state = "given"
    /\ ledger' = [ledger EXCEPT ![j].state = "working"]

\* The holder reports; completion only of what has begun.
Settle(j) ==
    \/ /\ ledger[j].state = "working"
       /\ ledger' = [ledger EXCEPT ![j].state = "completed"]
    \/ /\ Held(j)
       /\ ledger' = [ledger EXCEPT ![j].state = "failed"]

\* The holder is given up: the entry waits again, or, after work that may not
\* be tried again, has failed.
Revoke(j) ==
    \E state \in {"waiting", "failed"} :
        /\ Held(j)
        /\ state = "failed" => ledger[j].state = "working"
        /\ ledger' = [ledger EXCEPT ![j].state = state, ![j].holder = NoNode,
                                    ![j].epoch = @ + 1]

Next ==
    \/ GiveWaiting
    \/ \E j \in Jobs : Submit(j) \/ Lease(j) \/ Begin(j) \/ Settle(j) \/ Revoke(j)

Spec == Init /\ [][Next]_ledger
=============================================================================
