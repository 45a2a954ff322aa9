----------------------------- MODULE MCRollout -----------------------------
(* Two machines: a new one reached by ssh, without the share, which it has a  *)
(* directory with a foreign marker in place of, or where there is no making   *)
(* one; and the operator's own, in use and with the share.                    *)
EXTENDS Rollout

CONSTANTS m1, m2

MCTargets == << m1, m2 >>
MCFound ==
    [h \in Hosts |->
        IF h = m1 THEN { x \in New : x.has = Equipment /\ ~x.mount /\ ~x.writable /\ (x.dir => x.stray) }
                  ELSE { x \in Ready : x.has = { "script tools", "login tools" } /\ x.mount /\ ~x.stray }]
=============================================================================
