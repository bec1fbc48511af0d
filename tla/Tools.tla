------------------------------- MODULE Tools -------------------------------
(***************************************************************************)
(* The tools around the library, which run by themselves: hook-kit build   *)
(* and scripts/verify.  A behaviour is one run of one of them.             *)
(***************************************************************************)
EXTENDS Bundle, Verify

VARIABLE tool   \* the one that runs

vars == <<tool, buildVars, verifyVars>>

TypeOK == BuildTypeOK /\ VerifyTypeOK

Init == tool \in {"build", "verify"} /\ BuildInit /\ VerifyInit

Next ==
    \/ tool = "build" /\ BuildNext /\ UNCHANGED <<tool, verifyVars>>
    \/ tool = "verify" /\ VerifyNext /\ UNCHANGED <<tool, buildVars>>

Spec == Init /\ [][Next]_vars
============================================================================
