------------------------------ MODULE MCEngine -----------------------------
(* Policies for small instances of Engine.                                 *)
EXTENDS Engine

(* The two policies for what cannot be seen through answer alike, as they  *)
(* do in both presets of core/security.ts; every other combination.        *)
MixedPolicies == {q \in Policy : q.uncertaintyDecision = q.onUnparsable}
============================================================================
