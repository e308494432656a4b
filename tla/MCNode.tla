------------------------------- MODULE MCNode -------------------------------
(* Model checking of Node: three certificates of the service, two           *)
(* credentials, and three of a frontend of which it refuses one.            *)
EXTENDS Node

CONSTANTS first, second, third, older, newer, refused

MCMaterials == {first, second, third}
MCSecrets == {older, newer}
MCSiteMaterials == {older, newer, refused}
MCRefused == {refused}

\* Renewals with either of the frontend's material are repeated, joined with what begins and
\* begins again in the other components, of which only one is explored.
MCFairness ==
    /\ WF_nodeVars(Goes) /\ WF_nodeVars(Answers)
    /\ SF_nodeVars(Begins \/ RenewsWith(newer)) /\ SF_nodeVars(BeginsAgain \/ RenewsWith(older))
    /\ WF_nodeVars(InEnrollment(Enrollment!Approve)) /\ WF_nodeVars(InEnrollment(Enrollment!Authorize))

MCSpec == NodeSpec /\ MCFairness
=============================================================================
