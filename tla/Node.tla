-------------------------------- MODULE Node --------------------------------
(***************************************************************************)
(* What happens on one node beside backups, restores and upgrades: its     *)
(* enrollment, the installation of an application, the certificates of a   *)
(* service and those of a portable site's frontend.                        *)
(*                                                                         *)
(* The four share no file and no process, so that nothing is lost when     *)
(* each is explored alone: which one is chosen in the initial state, and   *)
(* the others then stay as they are.                                       *)
(***************************************************************************)
EXTENDS CertificateProperties, Naturals

CONSTANTS
    Secrets,        \* credentials that an installation may draw
    SiteMaterials,  \* certificates of a portable site's frontend
    Refused,        \* those the frontend does not come up with
    MaxCuts,        \* bound on what cuts an installation
    MaxFaults       \* bound on faults of an enrollment, and of a frontend's renewal

ASSUME SecretsAssumption ==
    Secrets \intersect {"absent", "partial", "whole", "initialising", "torn", None} = {}
ASSUME DatabaseAssumption == None \notin {"initialising", "torn"}
ASSUME SiteMaterialsAssumption == None \notin SiteMaterials
ASSUME BoundsAssumption == MaxCuts \in Nat /\ MaxFaults \in Nat

VARIABLES
    focus,
    site, disk, database, bootstrap, settled, fence, units, installer, cuts, done,
    generation, active, serving, renewal, proven, torn, frontendMarker, installed, mishaps,
    marker, client, command, result, faults

Install == INSTANCE ApplicationInstall WITH proc <- installer

Frontend == INSTANCE FrontendRenewal WITH
    Materials <- SiteMaterials, command <- renewal, marker <- frontendMarker, faults <- mishaps

Enrollment == INSTANCE LocalEnrollment

installVars == <<site, disk, database, bootstrap, settled, fence, units, installer, cuts, done>>
frontendVars ==
    <<generation, active, serving, renewal, proven, torn, frontendMarker, installed, mishaps>>
enrollmentVars == <<marker, client, command, result, faults>>

NodeInit ==
    /\ focus \in {"certificates", "install", "frontend", "enrollment"}
    /\ Init /\ Install!Init /\ Frontend!Init /\ Enrollment!Init
    /\ focus # "install" => site = [app |-> "frontend", portable |-> TRUE]
    /\ focus # "enrollment" => marker = "none" /\ client = Enrollment!Uninstalled

\* A step of the component that is explored.
InCertificates(A) ==
    focus = "certificates" /\ A /\ UNCHANGED <<focus, installVars, frontendVars, enrollmentVars>>
InInstall(A) ==
    focus = "install" /\ A /\ UNCHANGED <<focus, vars, frontendVars, enrollmentVars>>
InFrontend(A) ==
    focus = "frontend" /\ A /\ UNCHANGED <<focus, vars, installVars, enrollmentVars>>
InEnrollment(A) ==
    focus = "enrollment" /\ A /\ UNCHANGED <<focus, vars, installVars, frontendVars>>

NodeNext ==
    \/ InCertificates(Next)
    \/ InInstall(Install!Next)
    \/ InFrontend(Frontend!Next)
    \/ InEnrollment(Enrollment!Next)

nodeVars == <<focus, vars, installVars, frontendVars, enrollmentVars>>

NodeSpec == NodeInit /\ [][NodeNext]_nodeVars

(* The fairness that each component states, for the one that is explored:   *)
(* its command goes on, what it started answers, the operator or the timer  *)
(* begins, and begins again.                                                *)
Goes ==
    \/ InCertificates(Proceed) \/ InInstall(Install!Command)
    \/ InFrontend(Frontend!Step) \/ InEnrollment(Enrollment!Step)
Answers ==
    InInstall(Install!Systemd) \/ InFrontend(Frontend!Systemd) \/ InEnrollment(Enrollment!Register)
BeginsAgain == InCertificates(StartRenew) \/ InEnrollment(Enrollment!Begin("enroll"))
Begins == InInstall(Install!StartInstall) \/ InEnrollment(client.backend = "absent" /\ Enrollment!Begin("apply"))
RenewsWith(m) == InFrontend(Frontend!StartCommand(m, frontendMarker))

-----------------------------------------------------------------------------

\* Every variable of the four has its type.
NodeTypeOK == TypeOK /\ Install!TypeOK /\ Frontend!TypeOK /\ Enrollment!TypeOK

\* No link names a certificate that is not whole, an activation that is reported as done is
\* what clients are served, and what a frontend is left with after a failed renewal is material
\* it has come up with.
CertificatesWhole == PointersWhole /\ OutcomeServed /\ Frontend!ActiveWhole /\ Frontend!RestsOnProven

\* An installation that was cut and repeated keeps the database's credential and the
\* application's identity, and nothing is served before it is prepared.
InstallSound == Install!DataUsable /\ Install!ServedPrepared

\* Enrolled is reported of the client that was asked for, and no client is taken from
\* another controller.
EnrolledAsAsked == [][Enrollment!RightlyTold]_enrollmentVars

\* What was cut off is completed by repeating it: renewals reach the clients, installations
\* finish, frontends take their new material, and nodes are enrolled.
NodeSettles ==
    /\ RenewalArrives
    /\ focus = "install" => Install!InstallResumes
    /\ focus = "frontend" => Frontend!RenewalLands
    /\ focus = "enrollment" => Enrollment!EnrollmentSettles
=============================================================================
