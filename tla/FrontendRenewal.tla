-------------------------- MODULE FrontendRenewal --------------------------
(***************************************************************************)
(* The certificates of a portable site's frontend (activate_frontend_tls   *)
(* in scripts/portable_application_install.py, portable_frontend_          *)
(* runtime.py): material is copied into a directory named by its digest,   *)
(* the active link is switched to it, and the frontend restarted.  Only a  *)
(* renewal switches from one generation to another, and goes back when the *)
(* restart fails.                                                          *)
(*                                                                         *)
(* A file is written in place.  A restart fails with material that the     *)
(* listener's check refuses, and sometimes with any.  The program may be   *)
(* killed between two steps, and the machine may restart.                  *)
(***************************************************************************)
EXTENDS Naturals

CONSTANTS
    Materials,
    Refused,        \* the material that the frontend does not come up with
    None,
    MaxFaults       \* bound on kills, restarts of the machine and restarts that fail by chance

VARIABLES
    generation, \* the directories, by material
    active,     \* where the link points
    serving,    \* what the running frontend has loaded
    command,    \* the running command
    proven,     \* material the frontend has come up with
    torn,       \* a command was killed, and none has succeeded since
    marker,     \* the frontend's configuration was recorded
    installed,  \* a command has succeeded
    faults

vars == <<generation, active, serving, command, proven, torn, marker, installed, faults>>

TypeOK ==
    /\ generation \in [Materials -> {"absent", "partial", "whole"}]
    /\ {active, serving} \subseteq Materials \union {None}
    /\ command \in [pc : {"idle", "fill", "filling", "look", "switch", "restart", "start",
                          "rollback", "restart-old"},
                    renew : BOOLEAN, new : Materials \union {None}, old : Materials \union {None}]
    /\ proven \subseteq Materials
    /\ torn \in BOOLEAN
    /\ marker \in BOOLEAN
    /\ installed \in BOOLEAN
    /\ faults \in 0..MaxFaults

Idle == [pc |-> "idle", renew |-> FALSE, new |-> None, old |-> None]

Init ==
    /\ generation = [m \in Materials |-> "absent"]
    /\ active = None
    /\ serving = None
    /\ command = Idle
    /\ proven = {}
    /\ torn = FALSE
    /\ marker = FALSE
    /\ installed = FALSE
    /\ faults = 0

-----------------------------------------------------------------------------

Go(pc) == command' = [command EXCEPT !.pc = pc]
Links == <<generation, active>>
Record == <<proven, torn, marker, installed>>

Fault == faults < MaxFaults /\ faults' = faults + 1

\* The unit's start: the listener has to show the selected generation.
ComesUp(m) == serving' = m /\ proven' = proven \union {m}

\* Renewal needs the record of an installation; the material is checked beforehand.
StartCommand(m, renew) ==
    /\ command.pc = "idle"
    /\ renew => marker
    /\ command' = [pc |-> "fill", renew |-> renew, new |-> m, old |-> None]
    /\ marker' = TRUE
    /\ UNCHANGED <<Links, serving, proven, torn, installed, faults>>

\* Plausible mistakes: a file is not compared, or never taken as it is.
AcceptsAny(state) == TRUE
AcceptsNone(state) == FALSE
Accepts(state) == state = "whole"

\* A directory that is there is filled up; a partial file differs and is refused.
Fill ==
    /\ command.pc = "fill"
    /\ LET state == generation[command.new] IN
       CASE state = "absent" ->
                Go("filling") /\ generation' = [generation EXCEPT ![command.new] = "partial"]
         [] state # "absent" /\ Accepts(state) -> Go("look") /\ UNCHANGED generation
         [] OTHER -> command' = Idle /\ UNCHANGED generation
    /\ UNCHANGED <<active, serving, Record, faults>>

Filled ==
    /\ command.pc = "filling"
    /\ generation' = [generation EXCEPT ![command.new] = "whole"]
    /\ Go("look")
    /\ UNCHANGED <<active, serving, Record, faults>>

\* The generation that is active already is only started again; any other one is
\* switched to, when the command is a renewal or nothing is active.
Look ==
    /\ command.pc = "look"
    /\ CASE active = command.new -> Go(IF command.renew THEN "restart" ELSE "start")
         [] active # command.new /\ (active = None \/ command.renew) ->
                command' = [command EXCEPT !.pc = "switch", !.old = active]
         [] OTHER -> command' = Idle
    /\ UNCHANGED <<Links, serving, Record, faults>>

Switch ==
    /\ command.pc = "switch"
    /\ active' = command.new
    /\ Go(IF command.renew THEN "restart" ELSE "start")
    /\ UNCHANGED <<generation, serving, Record, faults>>

\* Restarted, and then ready: the command has succeeded.
RestartWorks ==
    /\ command.pc = "restart" \/ (command.pc = "start" /\ serving # active)
    /\ active \notin Refused
    /\ ComesUp(active)
    /\ command' = Idle /\ torn' = FALSE /\ installed' = TRUE
    /\ UNCHANGED <<Links, marker, faults>>

\* enable --now leaves what runs alone.
StartKeeps ==
    /\ command.pc = "start" /\ serving = active
    /\ command' = Idle /\ torn' = FALSE /\ installed' = TRUE
    /\ UNCHANGED <<Links, serving, proven, marker, faults>>

RestartFails ==
    /\ command.pc \in {"restart", "start"}
    /\ IF active \in Refused THEN UNCHANGED faults ELSE Fault
    /\ serving' = None
    /\ IF command.old # None THEN Go("rollback") ELSE command' = Idle
    /\ UNCHANGED <<Links, Record>>

\* A plausible mistake: the failed generation stays.
StayOnNew == active' = active
LinkBack == active' = command.old

Rollback ==
    /\ command.pc = "rollback"
    /\ LinkBack
    /\ Go("restart-old")
    /\ UNCHANGED <<generation, serving, Record, faults>>

RestartOld ==
    /\ command.pc = "restart-old"
    /\ \/ active \notin Refused /\ ComesUp(active) /\ UNCHANGED faults
       \/ active \in Refused /\ serving' = None /\ UNCHANGED <<proven, faults>>
       \/ Fault /\ serving' = None /\ UNCHANGED proven
    /\ command' = Idle
    /\ UNCHANGED <<Links, torn, marker, installed>>

Kill ==
    /\ command.pc # "idle" /\ Fault
    /\ command' = Idle
    /\ torn' = TRUE
    /\ UNCHANGED <<Links, serving, proven, marker, installed>>

\* systemd starts the enabled unit with what the link names, and again until it is up.
Boot ==
    /\ Fault
    /\ serving' = None
    /\ command' = Idle
    /\ torn' = (torn \/ command.pc # "idle")
    /\ UNCHANGED <<Links, proven, marker, installed>>

Systemd ==
    /\ installed /\ serving = None /\ command.pc \notin {"restart", "start", "restart-old"}
    /\ active \notin Refused
    /\ ComesUp(active)
    /\ UNCHANGED <<Links, command, torn, marker, installed, faults>>

Step ==
    \/ Fill \/ Filled \/ Look \/ Switch \/ RestartWorks \/ StartKeeps \/ RestartFails
    \/ Rollback \/ RestartOld

Next ==
    \/ \E m \in Materials, renew \in BOOLEAN : StartCommand(m, renew)
    \/ Step \/ Kill \/ Boot \/ Systemd

\* The commands go on; an operator who renews with some material repeats it.
Fairness ==
    /\ WF_vars(Step) /\ WF_vars(Systemd)
    /\ \A m \in Materials : SF_vars(StartCommand(m, marker))

Spec == Init /\ [][Next]_vars
FairSpec == Spec /\ Fairness

-----------------------------------------------------------------------------

\* The frontend's link never names a generation with a missing or torn file, whatever is
\* killed and repeated, and what is served is the active generation or, while a command
\* runs or after one was killed, the one before.
ActiveWhole ==
    /\ active # None => generation[active] = "whole"
    /\ command.pc = "idle" /\ ~torn => serving \in {None, active}

\* An installed frontend whose last command was not killed rests on material it has come
\* up with: a failed renewal leaves the generation that worked, and not the one that the
\* next restart of the machine would fail with.
RestsOnProven == installed /\ command.pc = "idle" /\ ~torn => active \in proven

\* An interrupted renewal is resumable, unless a file was torn: material the frontend
\* accepts, that its operator keeps renewing with, is active at some time.
RenewalLands ==
    \A m \in Materials \ Refused :
        <>(active = m \/ (generation[m] = "partial" /\ command.pc # "filling"))
=============================================================================
