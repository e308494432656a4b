--------------------------- MODULE NodeReplacement ---------------------------
(***************************************************************************)
(* A lost node on fresh hardware (scripts/backup_bootstrap.py, the restore *)
(* actions of backup_operations.py, restore_evidence.py): its original     *)
(* network identity is taken out of an application's snapshot and put in   *)
(* place of the temporary one, the application is installed and included   *)
(* in the backups, then the whole snapshot is staged and restored.         *)
(*                                                                         *)
(* One session runs these commands; another one may install and include    *)
(* the application in between.  The configuration is read before the       *)
(* operation lock is taken, the operator's phrase is waited for under it.  *)
(* The moves of one restoration are one step here (RestoreTransaction has  *)
(* them all); a cut leaves its marker, which recover settles.              *)
(***************************************************************************)
EXTENDS Naturals

CONSTANTS
    Repository,     \* snapshots at the target: [package, run]; "none" is the network alone
    Package,        \* the application this node is to run
    NoSnapshot

VARIABLES
    conf,       \* the scope that configuration.json names
    installed,  \* the application is installed
    identity,   \* the network identity in place: the temporary one or a snapshot's
    data,       \* the application's data
    boot,       \* boot[s]: the folder bootstrap/<snapshot>
    staged,     \* staged[s]: the folder restores/<snapshot>
    restoring,     \* rdc-restore-pending.json and its journal
    evidence,   \* restore-result.json
    session     \* the command that runs: where it is, of which snapshot, the scope it read

replacementVars ==
    <<conf, installed, identity, data, boot, staged, restoring, evidence, session>>

Folders == {"none", "partial", "ready"}
Commands == {"bootstrap-stage", "bootstrap-apply", "restore-stage", "restore-apply", "restore-recover"}
NoSession == [at |-> "idle", command |-> "none", of |-> NoSnapshot, seen |-> "none"]
NoMarker == [of |-> NoSnapshot, scope |-> "none", phase |-> "none", alone |-> FALSE]
NoEvidence == [of |-> NoSnapshot, scope |-> "none"]

Snapshots == Repository \union {NoSnapshot}
Scopes == {"none", "network", "full"}
SessionSteps == {"idle", "asked", "locked", "fetching", "confirm", "moving", "finishing", "clearing"}

ReplacementTypeOK ==
    /\ conf \in Scopes \union {"partial"} /\ installed \in BOOLEAN
    /\ identity \in Snapshots /\ data \in Snapshots
    /\ boot \in [Repository -> Folders] /\ staged \in [Repository -> Folders]
    /\ restoring \in [of : Snapshots, scope : Scopes, phase : {"none", "open", "committed"},
                    alone : BOOLEAN]
    /\ evidence \in [of : Snapshots, scope : Scopes]
    /\ session \in [at : SessionSteps, command : Commands \union {"none"}, of : Snapshots, seen : Scopes]

ReplacementInit ==
    /\ conf = "none" /\ installed = FALSE
    /\ identity = NoSnapshot /\ data = NoSnapshot
    /\ boot = [s \in Repository |-> "none"] /\ staged = [s \in Repository |-> "none"]
    /\ restoring = NoMarker /\ evidence = NoEvidence /\ session = NoSession

Pending == restoring # NoMarker

\* Every command but the first holds operation.lock from here to its end.
LockFree == session.at \in {"idle", "asked"}

Turn(step) == session' = [session EXCEPT !.at = step]

-----------------------------------------------------------------------------
(* Plausible mistakes; no specification uses them.                         *)

\* A fresh peer has no application, in the scope and on the disk.
ScopeOnly == session.seen = "network" /\ ~Pending
FreshPeer == session.seen = "network" /\ ~Pending /\ ~installed

\* What the evidence proves of the node as it is; a marker takes precedence.
EvidenceAlone == IF evidence = NoEvidence THEN "untested" ELSE "service-verified"
Latest ==
    IF Pending THEN "restore-pending"
    ELSE IF evidence = NoEvidence THEN "untested"
    ELSE IF evidence.scope # conf THEN "different-scope"
    ELSE "service-verified"

-----------------------------------------------------------------------------
(* The other session.                                                      *)

\* configure with the saved password and key.  A failure removes it all, a kill does not.
ImportAccess ==
    /\ conf = "none"
    /\ conf' \in {"partial", "network"}
    /\ UNCHANGED <<installed, identity, data, boot, staged, restoring, evidence, session>>

\* Every installation takes the backups' operation lock once they are configured.
InstallApplication ==
    /\ ~installed /\ LockFree /\ ~Pending
    /\ installed' = TRUE
    /\ UNCHANGED <<conf, identity, data, boot, staged, restoring, evidence, session>>

IncludeServices ==
    /\ conf = "network" /\ installed /\ LockFree /\ ~Pending
    /\ conf' = "full"
    /\ UNCHANGED <<installed, identity, data, boot, staged, restoring, evidence, session>>

-----------------------------------------------------------------------------
(* A command is asked for, reads its configuration and takes the lock.     *)

Ask(command, s) ==
    /\ session = NoSession /\ conf \in {"network", "full"}
    /\ session' = [at |-> "asked", command |-> command, of |-> s, seen |-> conf]
    /\ UNCHANGED <<conf, installed, identity, data, boot, staged, restoring, evidence>>

Lock ==
    /\ session.at = "asked" /\ Turn("locked")
    /\ UNCHANGED <<conf, installed, identity, data, boot, staged, restoring, evidence>>

\* Refused, cancelled, or failed with nothing to undo.
End ==
    /\ session.at \in {"locked", "confirm"} /\ session' = NoSession
    /\ UNCHANGED <<conf, installed, identity, data, boot, staged, restoring, evidence>>

-----------------------------------------------------------------------------
(* Staging.                                                                *)

\* The folder must not exist: whatever a cut left is refused for good.
StageBootstrap ==
    /\ session.at = "locked" /\ session.command = "bootstrap-stage"
    /\ FreshPeer /\ boot[session.of] = "none"
    /\ boot' = [boot EXCEPT ![session.of] = "partial"] /\ Turn("fetching")
    /\ UNCHANGED <<conf, installed, identity, data, staged, restoring, evidence>>

StageRestore ==
    /\ session.at = "locked" /\ session.command = "restore-stage"
    /\ staged[session.of] = "none"
    /\ staged' = [staged EXCEPT ![session.of] = "partial"] /\ Turn("fetching")
    /\ UNCHANGED <<conf, installed, identity, data, boot, restoring, evidence>>

\* The snapshot is of this node with the package that was named, and its binaries are those here.
SourceMatches(s) == s.package = Package

\* validate_restore: the snapshot's ownership is the scope of these backups.
InScope(s, scope) == s.package = IF scope = "full" THEN Package ELSE "none"

\* derive: the network's part of the full snapshot, bound to it by a digest.  Any failure
\* removes the folder.
Derive ==
    /\ session.at = "fetching" /\ session.command = "bootstrap-stage"
    /\ \/ FreshPeer /\ SourceMatches(session.of) /\ boot' = [boot EXCEPT ![session.of] = "ready"]
       \/ boot' = [boot EXCEPT ![session.of] = "none"]
    /\ session' = NoSession
    /\ UNCHANGED <<conf, installed, identity, data, staged, restoring, evidence>>

ValidateSnapshot ==
    /\ session.at = "fetching" /\ session.command = "restore-stage"
    /\ \/ /\ InScope(session.of, session.seen)
          /\ staged' = [staged EXCEPT ![session.of] = "ready"]
       \/ staged' = [staged EXCEPT ![session.of] = "none"]
    /\ session' = NoSession
    /\ UNCHANGED <<conf, installed, identity, data, boot, restoring, evidence>>

-----------------------------------------------------------------------------
(* Restoring.                                                              *)

\* review: verified against its full source again, then planned as any restore.
ReviewBootstrap ==
    /\ session.at = "locked" /\ session.command = "bootstrap-apply"
    /\ boot[session.of] = "ready" /\ FreshPeer /\ SourceMatches(session.of)
    /\ Turn("confirm")
    /\ UNCHANGED <<conf, installed, identity, data, boot, staged, restoring, evidence>>

PlanRestore ==
    /\ session.at = "locked" /\ session.command = "restore-apply"
    /\ staged[session.of] = "ready" /\ InScope(session.of, session.seen) /\ ~Pending
    /\ Turn("confirm")
    /\ UNCHANGED <<conf, installed, identity, data, boot, staged, restoring, evidence>>

\* The phrase was typed.
Apply ==
    /\ session.at = "confirm" /\ ~Pending
    /\ restoring' = [of |-> session.of, scope |-> session.seen, phase |-> "open",
                  alone |-> session.command = "bootstrap-apply"]
    /\ Turn("moving")
    /\ UNCHANGED <<conf, installed, identity, data, boot, staged, evidence>>

Commit ==
    /\ session.at = "moving" /\ session.command # "restore-recover"
    /\ identity' = restoring.of
    /\ data' = IF restoring.scope = "full" THEN restoring.of ELSE data
    /\ restoring' = [restoring EXCEPT !.phase = "committed"]
    /\ Turn("finishing")
    /\ UNCHANGED <<conf, installed, boot, staged, evidence>>

\* The previous data is back and in service.
RollBack ==
    /\ session.at = "moving"
    /\ restoring' = NoMarker /\ session' = NoSession
    /\ UNCHANGED <<conf, installed, identity, data, boot, staged, evidence>>

\* finish: the evidence is written while the marker still stands.
RecordEvidence ==
    /\ session.at = "finishing"
    /\ evidence' = [of |-> restoring.of, scope |-> restoring.scope]
    /\ Turn("clearing")
    /\ UNCHANGED <<conf, installed, identity, data, boot, staged, restoring>>

ClearMarker ==
    /\ session.at = "clearing"
    /\ restoring' = NoMarker /\ session' = NoSession
    /\ UNCHANGED <<conf, installed, identity, data, boot, staged, evidence>>

\* The journal must be of the scope the session has read.
Recover ==
    /\ session.at = "locked" /\ session.command = "restore-recover" /\ Pending
    /\ restoring.scope = session.seen
    /\ Turn(IF restoring.phase = "committed" THEN "finishing" ELSE "moving")
    /\ UNCHANGED <<conf, installed, identity, data, boot, staged, restoring, evidence>>

\* The process is killed, the machine stops, or the restoration fails and leaves its marker.
CutSession ==
    /\ session # NoSession /\ session' = NoSession
    /\ UNCHANGED <<conf, installed, identity, data, boot, staged, restoring, evidence>>

ReplacementNext ==
    \/ ImportAccess \/ InstallApplication \/ IncludeServices
    \/ \E c \in Commands, s \in Repository : Ask(c, s)
    \/ Lock \/ End \/ StageBootstrap \/ StageRestore \/ Derive \/ ValidateSnapshot
    \/ ReviewBootstrap \/ PlanRestore \/ Apply \/ Commit \/ RollBack
    \/ RecordEvidence \/ ClearMarker \/ Recover \/ CutSession

ReplacementSpec == ReplacementInit /\ [][ReplacementNext]_replacementVars

-----------------------------------------------------------------------------

\* The network identity taken out of a snapshot is put in place only while no application is
\* installed, although the check comes long before the operator's phrase.
BootstrapAlone == restoring.alone => ~installed

\* An application's data is never left with a network identity of another snapshot.
RestoredTogether == data # NoSnapshot => identity = data

\* "service-verified" is said of what is in place: the snapshot that was last committed, in
\* the scope the backups have now.
EvidenceTrue ==
    Latest = "service-verified" =>
        /\ identity = evidence.of
        /\ conf = "full" => data = evidence.of

\* A lost node gets its network identity back only without an application, the data never with
\* another identity, and "service-verified" is said of what is in place.
ReplacementSound == BootstrapAlone /\ RestoredTogether /\ EvidenceTrue
=============================================================================
