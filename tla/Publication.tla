----------------------------- MODULE Publication -----------------------------
(***************************************************************************)
(* What the attempts at a job promise to whoever reads its outputs, with   *)
(* the stages and the files taken away.  Pipeline implements this          *)
(* specification (OutputsPromised there) as long as one worker at a time   *)
(* is at work on the job.                                                  *)
(*                                                                         *)
(* Nothing can be relied on while an attempt is under way, or after one    *)
(* that did not complete.  With the completion of an attempt everything    *)
(* that was asked for is there at once, whole and of one attempt's media,  *)
(* and it stays until a later attempt begins.  The media are this          *)
(* attempt's, unless something strayed under its hands.                    *)
(***************************************************************************)
EXTENDS Naturals

CONSTANT Attempts  \* positive integers, in their order

VARIABLES
    wanted,    \* the outputs asked for
    latest,    \* the last attempt that has begun
    stray,     \* what another attempt made may have been taken for its own
    complete,  \* it has completed
    outputs    \* of an output wanted: whose media it is made of, if it can be relied on

vars == << wanted, latest, stray, complete, outputs >>

\* The author of what cannot be relied on.
Nobody == 0
Hidden == [o \in wanted |-> Nobody]

Init == latest = Nobody /\ stray = FALSE /\ complete = FALSE /\ outputs = Hidden

Begin(a) ==
    /\ a > latest
    /\ latest' = a /\ stray' = FALSE /\ complete' = FALSE /\ outputs' = Hidden
    /\ UNCHANGED wanted

Stray ==
    /\ latest # Nobody
    /\ stray' = TRUE
    /\ UNCHANGED << wanted, latest, complete, outputs >>

Publish ==
    /\ latest # Nobody /\ ~complete
    /\ \E author \in IF stray THEN Attempts ELSE { latest } :
         complete' = TRUE /\ outputs' = [o \in wanted |-> author]
    /\ UNCHANGED << wanted, latest, stray >>

Next == Publish \/ Stray \/ \E a \in Attempts : Begin(a)

Spec == Init /\ [][Next]_vars
=============================================================================
