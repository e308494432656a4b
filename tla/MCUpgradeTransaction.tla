------------------------ MODULE MCUpgradeTransaction ------------------------
(* Model checking of UpgradeTransaction: two units, two paths.             *)
EXTENDS UpgradeProperties

CONSTANTS server, database, config, store

MCServices == {server, database}
MCPaths == {config, store}
=============================================================================
