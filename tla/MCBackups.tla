------------------------------ MODULE MCBackups ------------------------------
(* Model checking of Backups: two units, two sources, two snapshots.       *)
EXTENDS BackupProperties

CONSTANTS daemon, server, first, second

MCUnits == {daemon, server}
MCVersions == {first, second}
=============================================================================
