-------------------------- MODULE UpgradeProperties --------------------------
(***************************************************************************)
(* What an upgrade promises: the same fenced switch as a restore, a whole  *)
(* backup before anything moves, backups that follow the version in place, *)
(* closed services while it is undecided, and that it settles.             *)
(***************************************************************************)
EXTENDS UpgradeTransaction

\* What fairness cannot exclude and a settled outcome needs to stop happening.
Fault ==
    \/ WriteMarkerFails \/ Interrupt \/ Kill \/ Reboot
    \/ ~CheckFails /\ Raise
    \/ \E s \in Services : ServiceCrash(s)

Upgraded(p) == live[p] \in {"upgraded", "edited"}

\* Nothing of the source is moved, let alone migrated, before a backup that
\* holds everything clients wrote was taken and read back; and from then until
\* the upgrade is decided no client adds anything the backup lacks.
WholeBackupFirst ==
    /\ phase \in {"migrating", "committed"} /\ pending => captured = "whole"
    /\ pending /\ ~Decided /\ (\E p \in Paths : live[p] # "original") =>
           phase = "migrating"

\* A reported outcome is the durable truth: "upgraded" means a committed journal,
\* the new version in every path and a backup of it at the target; "recovered" a
\* rolled-back journal and the original data in every path.
ClaimHonest ==
    /\ claim = "upgraded" =>
           phase = "committed" /\ targetSaved /\ \A p \in Paths : Upgraded(p)
    /\ claim = "recovered" =>
           phase = "rolled-back" /\ \A p \in Paths : live[p] = "original"

\* The backups follow the version: once no upgrade is pending they name the
\* version in place (capture refuses any other), and their helpers are complete.
ScopeFollowsVersion ==
    ~pending =>
        /\ helpers # "between"
        /\ IF scope = "target" THEN \A p \in Paths : Upgraded(p)
                               ELSE \A p \in Paths : live[p] = "original"

\* While the marker is there and the last command has handled its own failure,
\* no unit comes up by itself, whatever was rebooted or crashed.
UnattendedBlocked ==
    [][\A s \in Services :
           pending /\ op = "none" /\ claim # "interrupted" /\ svc'[s] = "active" =>
               svc[s] = "active"]_vars

CopyOfRecord == IF phase = "committed" THEN "replacement" ELSE "original"
CopyAt(p) == IF live[p] = "original" THEN "original" ELSE "replacement"
Shown == IF Exposed THEN {CopyAt(p) : p \in Paths} ELSE {}
Edited == {p \in Paths : live[p] = "edited"}

\* An upgrade, seen by its clients, is the fenced switch a restore is: all of
\* the old data or all of the committed new data, decided once behind the
\* fence, and what clients then write is never reverted.
Switch == INSTANCE FencedSwitch WITH
    busy <- pending, copy <- CopyOfRecord, shown <- Shown, edits <- Edited

ImplementsSwitch == Switch!Spec

\* A pending upgrade settles once faults stop and the operator keeps running
\* upgrade recover, wherever it was interrupted.
UpgradeSettles ==
    <>[][~Fault]_vars => (pending ~> ~pending)
=============================================================================
