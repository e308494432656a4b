------------------------ MODULE MCRestoreTransaction ------------------------
(* Model checking of RestoreTransaction: two services, two paths.          *)
EXTENDS RestoreProperties

CONSTANTS proxy, database, config, store

MCServices == {proxy, database}
MCPaths == {config, store}
MCOnePath == {config}
=============================================================================
