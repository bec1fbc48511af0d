---------------------------- MODULE MCEscalation ---------------------------
(* Small instances of Escalation; the sessions form the chain sc, sp, sg.  *)
EXTENDS Escalation

CONSTANTS sc, sp, sg, i1, i2, b1, b2, l1, l2, f1, f2

(* Both ids are asked in session sc, whose parent is sp.                   *)
EnvelopeAtC == [i \in Id |-> [session |-> sc, parent |-> sp]]
EnvelopeAtRoot == [i \in Id |-> [session |-> sc, parent |-> None]]
(* i1 is asked in sc, i2 in its parent sp, whose parent is sg.             *)
EnvelopeTwoLevels == [i \in Id |-> IF i = i1 THEN [session |-> sc, parent |-> sp]
                                             ELSE [session |-> sp, parent |-> sg]]

OneAskEach == [b \in Broker |-> IF b = b1 THEN i1 ELSE i2]
OneAsk == [b \in Broker |-> i1]

NoLineage == [s \in Session |-> NoMeta]
ChainCP == [s \in Session |-> IF s = sc THEN FullMeta(sp) ELSE FullMeta(None)]
AllRoots == [s \in Session |-> FullMeta(None)]
OnlyChild == [s \in Session |-> IF s = sc THEN FullMeta(sp) ELSE NoMeta]

AllSessions == [l \in Listener |-> [kind |-> "all", session |-> sc]]
OnlyC == [l \in Listener |-> [kind |-> "session", session |-> sc]]
(* l1 serves the child session, l2 the parent session.                     *)
CAndP == [l \in Listener |-> [kind |-> "session", session |-> IF l = l1 THEN sc ELSE sp]]
============================================================================
