------------------------------ MODULE Operator ------------------------------
(***************************************************************************)
(* What operators do from their own machines: the approval workspaces of   *)
(* two institutions and an application's connector, the guests of a        *)
(* portable site, everything that prepares files: the two wizards, the     *)
(* folders they write and the plan of a site; the status they read on a    *)
(* node, the restoration of a lost one, and the command itself.            *)
(*                                                                         *)
(* They share no file and no process, only documents carried by hand, so   *)
(* that nothing is lost when each is explored alone: which one is chosen   *)
(* in the initial state, and the others then stay as they are.             *)
(***************************************************************************)
EXTENDS RegionalApprovals, ServiceConnector, GuestProvisioning, SitePlan, NodeReplacement

CONSTANTS
    Places,         \* locations that a journey may name
    Preparers,      \* commands that write one folder
    Contents,       \* what they write
    OutputSets,     \* the names that are written together
    MaxRelays, MaxNodes, MaxKills, MaxTroubles

ASSUME ContentsAssumption == {"absent", "partial"} \intersect Contents = {}
ASSUME PlacesAssumption == None \notin Places
ASSUME NoAnswerAssumption ==
    /\ None \notin {"join", "independent", "supplied", "managed-acme", "given"}
    /\ None \notin {"personal", "institution", "regional", "matrix", "nextcloud", "both", "new",
                    "existing", "institution_id", "responsible_operator"}
    /\ None \notin Nat
ASSUME WizardBoundsAssumption == MaxRelays \in Nat \ {0} /\ MaxNodes \in Nat \ {0}

VARIABLES
    focus,
    answers, index, draft, wizard,
    given, question, saved, journey,
    kind, claimed, files, record, writer, kills, overlap,
    node, wrong, troubles, report, lasting, clean,
    phase, origin, argv, answer, code

Setup == INSTANCE SetupWizard
Journey == INSTANCE JourneyWizard WITH Locations <- Places
Folder == INSTANCE PreparedFolder WITH
    Writers <- Preparers, Versions <- Contents, Outputs <- OutputSets

Status == INSTANCE NodeStatus

Line == INSTANCE CommandLine

setupVars == <<answers, index, draft, wizard>>
journeyVars == <<given, question, saved, journey>>
folderVars == <<kind, claimed, files, record, writer, kills, overlap>>
statusVars == <<node, wrong, troubles, report, lasting, clean>>
commandVars == <<phase, origin, argv, answer, code>>

OperatorInit ==
    /\ focus \in {"approvals", "connector", "guests", "plan", "setup", "journey", "folder", "status",
                  "replacement", "command"}
    /\ ApprovalsInit /\ LinkInit /\ Init /\ PlanInit
    /\ Setup!Init /\ Journey!Init /\ Folder!Init /\ Status!Init /\ ReplacementInit /\ Line!Init
    /\ focus # "connector" => package = "matrix"
    /\ focus # "folder" => kind = "setup"
    /\ focus # "status" => node.role = "controller" /\ wrong = {}

OperatorNext ==
    \/ /\ focus = "approvals" /\ ApprovalsNext
       /\ UNCHANGED <<focus, linkVars, vars, plan, setupVars, journeyVars, folderVars, statusVars,
                       replacementVars, commandVars>>
    \/ /\ focus = "connector" /\ LinkNext
       /\ UNCHANGED <<focus, approvalVars, vars, plan, setupVars, journeyVars, folderVars,
                       statusVars, replacementVars, commandVars>>
    \/ /\ focus = "guests" /\ Next
       /\ UNCHANGED <<focus, approvalVars, linkVars, plan, setupVars, journeyVars, folderVars,
                       statusVars, replacementVars, commandVars>>
    \/ /\ focus = "plan" /\ PlanNext
       /\ UNCHANGED <<focus, approvalVars, linkVars, vars, setupVars, journeyVars, folderVars,
                       statusVars, replacementVars, commandVars>>
    \/ /\ focus = "setup" /\ Setup!Next
       /\ UNCHANGED <<focus, approvalVars, linkVars, vars, plan, journeyVars, folderVars,
                       statusVars, replacementVars, commandVars>>
    \/ /\ focus = "journey" /\ Journey!Next
       /\ UNCHANGED <<focus, approvalVars, linkVars, vars, plan, setupVars, folderVars,
                       statusVars, replacementVars, commandVars>>
    \/ /\ focus = "folder" /\ Folder!Next
       /\ UNCHANGED <<focus, approvalVars, linkVars, vars, plan, setupVars, journeyVars,
                       statusVars, replacementVars, commandVars>>
    \/ /\ focus = "status" /\ Status!Next
       /\ UNCHANGED <<focus, approvalVars, linkVars, vars, plan, setupVars, journeyVars,
                       folderVars, replacementVars, commandVars>>
    \/ /\ focus = "replacement" /\ ReplacementNext
       /\ UNCHANGED <<focus, approvalVars, linkVars, vars, plan, setupVars, journeyVars,
                       folderVars, statusVars, commandVars>>
    \/ /\ focus = "command" /\ Line!Next
       /\ UNCHANGED <<focus, approvalVars, linkVars, vars, plan, setupVars, journeyVars,
                       folderVars, statusVars, replacementVars>>

operatorVars == <<focus, approvalVars, linkVars, vars, plan, setupVars, journeyVars, folderVars,
                 statusVars, replacementVars, commandVars>>

OperatorSpec == OperatorInit /\ [][OperatorNext]_operatorVars

-----------------------------------------------------------------------------

\* What an operator is led to is valid: a saved draft can be resumed, a journey that is shown
\* is complete and names two locations, the layout of a site passes its own validation, a
\* folder's record names only whole files, with the recorded content unless a replacement ran
\* beside another command, and what the menu or the guide of a journey puts together is a
\* command.
PreparationSound ==
    /\ Setup!DraftsResume
    /\ Journey!ReviewValid
    /\ LayoutValid
    /\ Folder!RecordGenuine
    /\ Line!TasksAccepted

\* What operators read of a node can be relied on: a status that asks for no attention, and the
\* exit status of every command.
QuietHonest == Status!QuietHonest /\ Line!ExitTruthful
=============================================================================
