-------------------------- MODULE LocalEnrollment --------------------------
(***************************************************************************)
(* A node joins its network (scripts/local_node.py, local_checks.py,       *)
(* local_enrollment.py, profile_state.py and the playbook local-node.yml). *)
(*                                                                         *)
(*   apply   records the ownership of the machine and installs the client; *)
(*   enroll  checks, and asks the controller for a registration unless one *)
(*           is there or pending; its administrator approves it;           *)
(*   status  only looks.                                                   *)
(*                                                                         *)
(* A command sees the client in two reads, its status and then its         *)
(* preferences, and does so again at each check; the client, the           *)
(* administrator and the clock go on in between.  Tag and hostname are one *)
(* identity here.  Left out: the platform, the controller's TLS check, the *)
(* form of the pending registration's address.                             *)
(***************************************************************************)
EXTENDS Naturals

CONSTANT MaxFaults  \* bound on kills, restarts, expired keys and controllers out of reach

VARIABLES
    marker,     \* the ownership record
    client,     \* the networking client
    command,    \* the running command, and what it has read
    result,     \* what the last command reported
    faults

vars == <<marker, client, command, result, faults>>

Backends == {"absent", "NoState", "NeedsLogin", "NeedsMachineAuth", "Running", "Stopped"}
Reads == [backend : Backends, url : BOOLEAN, identity : {"asked", "other"}]

TypeOK ==
    /\ marker \in {"none", "ours", "other"}
    /\ client \in [backend : Backends, controller : {"default", "ours", "other"},
                   identity : {"asked", "other"}, url : BOOLEAN]
    /\ command \in [op : {"none", "apply", "enroll", "status"},
                    pc : {"idle", "owner", "status", "preferences", "record", "install", "up",
                          "waiting"},
                    phase : {"check", "before", "after"}, read : Reads, code : {"ok", "bad"}]
    /\ result \in {"none", "blocked", "installed", "failed", "cancelled", "enrolled",
                   "awaiting_enrollment", "client_not_running"}
    /\ faults \in 0..MaxFaults

Unread == [backend |-> "absent", url |-> FALSE, identity |-> "asked"]
Idle == [op |-> "none", pc |-> "idle", phase |-> "check", read |-> Unread, code |-> "ok"]
Uninstalled == [backend |-> "absent", controller |-> "default", identity |-> "asked", url |-> FALSE]

\* A new machine, one that was installed before, or one that belongs to another network.
Init ==
    /\ \/ marker = "none" /\ client = Uninstalled
       \/ /\ marker \in {"none", "ours", "other"}
          /\ \E b \in Backends \ {"absent", "NoState"}, i \in {"asked", "other"} :
                 client = [backend |-> b, controller |-> "other", identity |-> i, url |-> FALSE]
       \/ /\ marker = "ours"
          /\ \E b \in {"Running", "Stopped"}, i \in {"asked", "other"} :
                 client = [backend |-> b, controller |-> "ours", identity |-> i, url |-> FALSE]
    /\ command = Idle /\ result = "none" /\ faults = 0

-----------------------------------------------------------------------------

At(pc) == command.pc = pc
Go(pc) == command' = [command EXCEPT !.pc = pc]
Look(phase) == command' = [command EXCEPT !.pc = "status", !.phase = phase]
Return(outcome) == command' = Idle /\ result' = outcome

Fault == faults < MaxFaults /\ faults' = faults + 1

Begin(op) ==
    /\ command.op = "none"
    /\ command' = [Idle EXCEPT !.op = op, !.pc = "owner"]
    /\ result' = "none"
    /\ UNCHANGED <<marker, client, faults>>

\* A client without a record, another owner's record, or nothing applied yet.
Unowned ==
    \/ marker = "none" /\ client.backend # "absent"
    \/ marker = "other"
    \/ command.op # "apply" /\ marker = "none"

CheckOwner ==
    /\ At("owner")
    /\ CASE Unowned -> Return("blocked")
         [] ~Unowned /\ client.backend # "absent" -> Look("check") /\ UNCHANGED result
         [] ~Unowned /\ client.backend = "absent" /\ command.op = "apply" ->
                Go("record") /\ UNCHANGED result
         [] OTHER -> Return("failed")
    /\ UNCHANGED <<marker, client, faults>>

\* tailscale status --json
ReadStatus ==
    /\ At("status")
    /\ command' = [command EXCEPT !.pc = "preferences",
                     !.read = [backend |-> client.backend, url |-> client.url,
                               identity |-> client.identity]]
    /\ UNCHANGED <<marker, client, result, faults>>

\* Plausible mistakes: any client without a login may be taken over; the identity is
\* left to the administrator.
TakesOver(read, controller) == controller # "ours" /\ read.backend \notin {"NoState", "NeedsLogin"}
Foreign(read, controller) ==
    /\ controller # "ours"
    /\ ~(read.backend \in {"NoState", "NeedsLogin"} /\ controller = "default")

AnyIdentity(read) == FALSE
Misnamed(read) == read.identity # "asked"

\* inspect_peer() and the comparison of the hostname.
Inspected(read, controller) ==
    IF Foreign(read, controller) THEN "mismatch"
    ELSE CASE read.backend \in {"NoState", "NeedsLogin", "NeedsMachineAuth"} -> "awaiting_enrollment"
           [] read.backend = "Stopped" -> "client_not_running"
           [] OTHER -> IF Misnamed(read) THEN "mismatch" ELSE "enrolled"

\* A plausible mistake: a registration that is pending blocks, as anything unknown does.
BlocksPending(state) == state # "enrolled"
Blocks(state) == state \in {"mismatch", "client_not_running"}

\* tailscale debug prefs, and what follows from the two.
ReadPreferences ==
    /\ At("preferences")
    /\ LET state == Inspected(command.read, client.controller)
           pending == command.read.url \/ command.read.backend = "NeedsMachineAuth" IN
       CASE command.phase = "check" /\ Blocks(state) -> Return("blocked")
         [] command.phase = "check" /\ ~Blocks(state) /\ command.op = "apply" ->
                Go("record") /\ UNCHANGED result
         [] command.phase = "check" /\ ~Blocks(state) /\ command.op # "apply" ->
                Look("before") /\ UNCHANGED result
         [] command.phase # "check" /\ state = "mismatch" -> Return("blocked")
         [] /\ command.phase = "before" /\ command.op = "enroll"
            /\ state = "awaiting_enrollment" /\ ~pending -> Go("up") /\ UNCHANGED result
         [] /\ command.phase = "after" /\ command.code = "bad"
            /\ state # "mismatch" /\ state # "enrolled" /\ ~pending -> Return("blocked")
         [] OTHER -> Return(state)
    /\ UNCHANGED <<marker, client, faults>>

-----------------------------------------------------------------------------
(* apply.                                                                  *)

\* A plausible mistake: the ownership of a new machine is recorded after the installation.
InstallFirst == IF client.backend = "absent" THEN UNCHANGED marker ELSE marker' = "ours"
RecordFirst == marker' = "ours"

\* The playbook repeats the checks and records the ownership before anything else.
RecordOwnership ==
    /\ At("record")
    /\ IF Unowned THEN Return("failed") /\ UNCHANGED marker
       ELSE RecordFirst /\ Go("install") /\ UNCHANGED result
    /\ UNCHANGED <<client, faults>>

\* The client starts without a login; one that is there keeps its state.
InstallClient ==
    /\ At("install")
    /\ client' = IF client.backend = "absent" THEN [client EXCEPT !.backend = "NoState"] ELSE client
    /\ Return("installed")
    /\ UNCHANGED <<marker, faults>>

-----------------------------------------------------------------------------
(* enroll.                                                                 *)

\* tailscale up --login-server=... with the asked identity
Up ==
    /\ At("up")
    /\ client' = [client EXCEPT !.controller = "ours",
                    !.backend = IF @ = "NoState" THEN "NeedsLogin" ELSE @]
    /\ Go("waiting")
    /\ UNCHANGED <<marker, result, faults>>

\* It ends once the client runs, after 20 seconds, or is stopped after 30.
UpEnds ==
    /\ At("waiting")
    /\ \E code \in {"ok", "bad"} :
           /\ code = "ok" => client.backend = "Running"
           /\ IF code = "bad" /\ client.backend = "NeedsLogin" /\ ~client.url THEN Fault
              ELSE UNCHANGED faults
           /\ command' = [command EXCEPT !.pc = "status", !.phase = "after", !.code = code]
    /\ UNCHANGED <<marker, client, result>>

\* Ctrl-C: the waiting is given up, and the registration stays pending.
Interrupt ==
    /\ At("waiting") /\ Fault
    /\ Return("cancelled")
    /\ UNCHANGED <<marker, client>>

-----------------------------------------------------------------------------
(* The client, its controller, and the machine.                            *)

Register ==
    /\ client.backend = "NeedsLogin" /\ client.controller = "ours" /\ ~client.url
    /\ client' = [client EXCEPT !.url = TRUE]
    /\ UNCHANGED <<marker, command, result, faults>>

\* The administrator approves, not always for what was asked.
Approve ==
    /\ client.url
    /\ \E i \in {"asked", "other"}, b \in {"NeedsMachineAuth", "Running"} :
           client' = [client EXCEPT !.url = FALSE, !.identity = i, !.backend = b]
    /\ UNCHANGED <<marker, command, result, faults>>

Authorize ==
    /\ client.backend = "NeedsMachineAuth" /\ client.controller = "ours"
    /\ client' = [client EXCEPT !.backend = "Running"]
    /\ UNCHANGED <<marker, command, result, faults>>

\* An expired key, its registration and an approval take longer than two reads.
KeyExpires ==
    /\ client.backend = "Running" /\ ~At("preferences") /\ Fault
    /\ client' = [client EXCEPT !.backend = "NeedsLogin"]
    /\ UNCHANGED <<marker, command, result>>

\* The machine restarts: what was pending is forgotten.
Reboot ==
    /\ Fault
    /\ client' = [client EXCEPT !.url = FALSE]
    /\ command' = Idle
    /\ UNCHANGED <<marker, result>>

Kill ==
    /\ command.op # "none" /\ Fault
    /\ Return("failed")
    /\ UNCHANGED <<marker, client>>

Step ==
    \/ CheckOwner \/ ReadStatus \/ ReadPreferences \/ RecordOwnership \/ InstallClient
    \/ Up \/ UpEnds

Next ==
    \/ \E op \in {"apply", "enroll", "status"} : Begin(op)
    \/ Step \/ Register \/ Approve \/ Authorize
    \/ Interrupt \/ KeyExpires \/ Reboot \/ Kill

\* A command goes on; the operator applies until the client is there, then enrolls again and
\* again, and the administrator answers.
Fairness ==
    /\ WF_vars(Step) /\ WF_vars(Register) /\ WF_vars(Approve) /\ WF_vars(Authorize)
    /\ SF_vars(client.backend = "absent" /\ Begin("apply")) /\ SF_vars(Begin("enroll"))

Spec == Init /\ [][Next]_vars
FairSpec == Spec /\ Fairness

-----------------------------------------------------------------------------

\* What a command does from its two reads is right for the client as it is then: enrolled is
\* only reported of a client of the asked controller with the asked identity, and a client of
\* another controller is never pointed elsewhere.
RightlyTold ==
    /\ result' = "enrolled" /\ result # "enrolled" =>
           client.controller = "ours" /\ client.identity = "asked"
    /\ client.controller = "other" => client'.controller = "other"

EnrolledAsAsked == [][RightlyTold]_vars

\* What only an administrator resolves.
Elsewhere ==
    marker = "other" \/ client.controller = "other" \/ client.identity = "other"
    \/ client.backend = "Stopped"

\* However often the installation and the registration are cut off, time out or expire,
\* repeating them ends with an enrolled node.
EnrollmentSettles == <>(result = "enrolled" \/ Elsewhere)
=============================================================================
