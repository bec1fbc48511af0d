----------------------------- MODULE AskChannel ----------------------------
(***************************************************************************)
(* What the escalation subsystem promises, without spool, processes or     *)
(* files: an asker gets at most one answer, for good; "allow" only when a  *)
(* user allowed that very ask; "harness-ask" only when the chain of        *)
(* parents ended; "deny" at any time, for denying is how everything fails. *)
(***************************************************************************)
CONSTANTS Asker, User, Ask, AskOf

VARIABLES
    verdicts,   \* what users were told is accepted
    exhausted,  \* the asks forwarded past the last parent
    answer      \* answer[a]: what a's hook got, "none" so far

avars == <<verdicts, exhausted, answer>>

AInit ==
    /\ verdicts = {}
    /\ exhausted = {}
    /\ answer = [a \in Asker |-> "none"]

Decide(u, i, d) ==
    /\ verdicts' = verdicts \cup {[by |-> u, id |-> i, decision |-> d]}
    /\ UNCHANGED <<exhausted, answer>>

Exhaust(i) ==
    /\ exhausted' = exhausted \cup {i}
    /\ UNCHANGED <<verdicts, answer>>

Permitted(a, d) ==
    \/ d = "deny"
    \/ \E v \in verdicts : v.id = AskOf[a] /\ v.decision = d
    \/ d = "harness-ask" /\ AskOf[a] \in exhausted

Reply(a, d) ==
    /\ answer[a] = "none" /\ Permitted(a, d)
    /\ answer' = [answer EXCEPT ![a] = d]
    /\ UNCHANGED <<verdicts, exhausted>>

ANext ==
    \/ \E u \in User, i \in Ask, d \in {"allow", "deny", "harness-ask"} : Decide(u, i, d)
    \/ \E i \in Ask : Exhaust(i)
    \/ \E a \in Asker, d \in {"allow", "deny", "harness-ask"} : Reply(a, d)

ASpec == AInit /\ [][ANext]_avars
============================================================================
