------------------------- MODULE UpgradeTransaction -------------------------
(***************************************************************************)
(* The journalled upgrade of an application (scripts/upgrade_transaction   *)
(* .py, upgrade_runtime.py, upgrade_files.py).                             *)
(*                                                                         *)
(*   apply    write journal and marker, stop the application's units, take *)
(*            and read back a backup, save "migrating", copy every path    *)
(*            and put the copies in place by two renames each, raise the   *)
(*            fence of scripts/restore_runtime.py, install the new helpers *)
(*            and settings, start and verify the new version, save         *)
(*            "committed", finish;                                         *)
(*   rollback stop the units, raise the fence, put every retained path     *)
(*            back, start and verify the old version, save "rolled-back",  *)
(*            finish;                                                      *)
(*   recover  settle what the journal says: finish a decided upgrade after *)
(*            fencing and verifying it again, roll back any other;         *)
(*   finish   point the backups at the committed version, withdraw the     *)
(*            permit, drop the fence, take a backup of the committed       *)
(*            version, clean the workspaces, record the result and unlink  *)
(*            the marker.                                                  *)
(*                                                                         *)
(* Unlike a restore it fences after the data was captured and moved, its   *)
(* handlers withdraw the startup permit, and it goes on working after its  *)
(* clients are back.  Commands exclude each other by two locks.  The data  *)
(* in place is the source version until a commit: the catalogue holds one  *)
(* transition, so a committed upgrade is not followed by another.  The     *)
(* network unit, which only the capture stops, and the file service's      *)
(* background job are left out.  Loops may visit in any order.             *)
(***************************************************************************)
CONSTANTS
    Services,       \* the application's units: resources(owner).services but tailscaled
    Paths           \* upgrade_files.paths(owner)

ASSUME ServicesAssumption == Services # {}
ASSUME PathsAssumption == Paths # {}

VARIABLES
    op,         \* "none", "apply" or "recover": the running command
    goal,       \* what its steps lead to
    pc,         \* the step it takes next
    todo,       \* the units or paths the present loop has not visited
    phase,      \* the durable journal's phase
    pending,    \* etc/rdc-upgrade-pending.json exists
    record,     \* etc/rdc-restore-isolation.json exists
    unsynced,   \* names of /etc unlinked since its directory was last synced
    table,      \* the rdc_restore nftables table is loaded (lost at reboot)
    permit,     \* /run/rdc-restore-validation exists (lost at reboot)
    svc,        \* state of every unit
    live,       \* what each path of the installation holds
    old,        \* what the transaction's workspace keeps as old
    captured,   \* the journal's backup: "none", "whole" or "behind" the source data
    scope,      \* the version configuration.json of the backups names
    helpers,    \* the installed backup helpers
    targetSaved,\* a backup of the committed version was uploaded
    claim       \* the outcome last reported to the operator

process == <<op, goal, pc, todo>>
etc     == <<phase, pending, record, unsynced>>
run     == <<table, permit, svc>>
data    == <<live, old>>
backup  == <<captured, scope, helpers, targetSaved>>
vars    == <<process, etc, run, data, backup, claim>>

Goals == {"none", "promote", "rollback", "settleNew", "settleOld"}
Isolating == {"record", "table", "seal"}
Promoting == {"quiesce", "allow", "capture", "compare", "migrating", "swapOut", "swapIn", "install",
              "permit", "start", "verify"} \union Isolating
Publishing == {"scope", "refresh", "withdraw", "unfence", "release"}
Capturing == {"allowTarget", "pause", "resume", "upload"}
Finishing == Publishing \union Capturing \union {"clean", "result", "unmark", "sync"}
Steps == {"idle", "marker", "branch", "remove", "putBack", "commit", "rolledBack"}
             \union Promoting \union Finishing
Phases == {"none", "preparing", "migrating", "committed", "rolled-back"}
Claims == {"none", "upgraded", "recovered", "committed", "unrecovered", "interrupted"}

FlagsOK ==
    /\ pending \in BOOLEAN /\ record \in BOOLEAN /\ table \in BOOLEAN
    /\ permit \in BOOLEAN /\ targetSaved \in BOOLEAN

ValuesOK ==
    /\ op \in {"none", "apply", "recover"} /\ goal \in Goals /\ pc \in Steps
    /\ todo \subseteq Services \union Paths
    /\ phase \in Phases
    /\ unsynced \subseteq {"pending", "record"}
    /\ svc \in [Services -> {"active", "stopped", "failed"}]
    /\ live \in [Paths -> {"original", "copy", "upgraded", "edited", "missing"}]
    /\ old \in [Paths -> {"original", "none"}]
    /\ captured \in {"none", "whole", "behind"}
    /\ scope \in {"source", "target"} /\ helpers \in {"source", "between", "target"}
    /\ claim \in Claims

TypeOK == FlagsOK /\ ValuesOK

Init ==
    /\ op = "none" /\ goal = "none" /\ pc = "idle" /\ todo = {}
    /\ phase = "none" /\ pending = FALSE /\ record = FALSE /\ unsynced = {}
    /\ table = FALSE /\ permit = FALSE
    /\ svc = [s \in Services |-> "active"]
    /\ live = [p \in Paths |-> "original"] /\ old = [p \in Paths |-> "none"]
    /\ captured = "none" /\ scope = "source" /\ helpers = "source" /\ targetSaved = FALSE
    /\ claim = "none"

AllActive == \A s \in Services : svc[s] = "active"
AllDown == \A s \in Services : svc[s] # "active"

\* The fence drops client traffic to every ingress port.
Exposed == ~table /\ ~AllDown

-----------------------------------------------------------------------------
(* Plausible mistakes, each a changed form of the definition it precedes;   *)
(* no specification uses them.                                              *)

\* The ExecStartPre guard of every unit, for the upgrade marker.
NoGuard == TRUE
GuardPasses == pending => permit

\* What systemctl stop leaves; a unit that is killed instead counts as failed.
Killed == "failed"
Halted == "stopped"

\* verify starts every unit of the owner.
StartRunning == {s \in Services : svc[s] = "active"}
ToStart == Services

\* journal['phase']=...;save(root,journal)
SkipSave(p) == UNCHANGED phase
SaveGoal(p) == phase' = goal                  \* no phase validate() knows
Save(p) == phase' = p

\* ISOLATION.unlink(missing_ok=True)
RecordLeft == record
RecordGone == FALSE

\* The handlers' backend.freeze(journal).
Thawed == permit
Freeze == FALSE

\* publish() switches the backups' scope for a committed upgrade only.
ScopeAlways == "target"
Scope == IF phase = "committed" THEN "target" ELSE scope

\* The backup of the committed version is part of publish(), before the marker goes.
SkipTarget == "clean"
AfterRelease == IF phase = "committed" THEN "allowTarget" ELSE "clean"

-----------------------------------------------------------------------------
(* Moves of the process.                                                   *)

\* An attempt recover finishes instead of undoing it.
Decided == phase \in {"committed", "rolled-back"}

\* if (folder/'old').exists()
Kept(p) == old[p] # "none"

AfterVerify == CASE goal = "promote"  -> "commit"
                 [] goal = "rollback" -> "rolledBack"
                 [] OTHER             -> "scope"

Go(step) == pc' = step /\ UNCHANGED <<op, goal, todo>>

\* A step that opens a loop over set.
Open(step, set) == pc' = step /\ todo' = set /\ UNCHANGED <<op, goal>>

\* One visit of a loop over todo, then the step that follows the loop.
Visit(x, next, step, rest) ==
    /\ IF todo = {x} THEN pc' = step /\ todo' = rest
                     ELSE pc' = next /\ todo' = todo \ {x}
    /\ UNCHANGED <<op, goal>>

StartRollback == goal' = "rollback" /\ pc' = "quiesce" /\ todo' = Services

Return == op' = "none" /\ goal' = "none" /\ pc' = "idle" /\ todo' = {}

-----------------------------------------------------------------------------
(* apply, up to the fence.                                                 *)

\* check(): no marker, the source version is installed and ready, its backups
\* are configured, current and not being updated.  An upgraded node is current.
Ready ==
    /\ ~pending /\ AllActive
    /\ scope = "source" /\ helpers # "between"
    /\ \A p \in Paths : live[p] = "original"

StartApply ==
    /\ op = "none"
    /\ Ready
    /\ op' = "apply" /\ goal' = "promote" /\ pc' = "marker"
    /\ claim' = "none"
    /\ UNCHANGED <<todo, etc, run, data, backup>>

\* A new journal without a backup, then the marker that makes it the pending one.
Mark ==
    /\ phase' = "preparing" /\ pending' = TRUE /\ unsynced' = {}
    /\ captured' = "none"
    /\ UNCHANGED <<record, data, scope, helpers, targetSaved>>

WriteMarker ==
    /\ pc = "marker"
    /\ Mark
    /\ Open("quiesce", Services)
    /\ UNCHANGED <<run, claim>>

\* Not in the try block.  The marker's write may fail after the file was
\* replaced (directory sync), and then it is there.
WriteMarkerFails ==
    /\ pc = "marker"
    /\ Mark \/ UNCHANGED <<etc, data, backup>>
    /\ Return
    /\ UNCHANGED <<run, claim>>

\* Also the first loop of rollback, in both commands.
Stop(s) ==
    /\ pc = "quiesce" /\ s \in todo
    /\ svc' = [svc EXCEPT ![s] = Halted]
    /\ Visit(s, pc, IF goal = "promote" THEN "allow" ELSE "record", {})
    /\ UNCHANGED <<etc, table, permit, data, backup, claim>>

AllowSnapshot ==
    /\ pc = "allow"
    /\ permit' = TRUE
    /\ Go("capture")
    /\ UNCHANGED <<etc, table, svc, data, backup, claim>>

\* capture() copies what is there.
Capture ==
    /\ pc = "capture"
    /\ captured' = "whole"
    /\ Go("compare")
    /\ UNCHANGED <<etc, run, data, scope, helpers, targetSaved, claim>>

\* The copy was uploaded, downloaded and compared; no writer is running.
Compare ==
    /\ pc = "compare"
    /\ AllDown
    /\ permit' = FALSE
    /\ Go("migrating")
    /\ UNCHANGED <<etc, table, svc, data, backup, claim>>

\* The journal now holds the backup's identity.  Then every candidate is
\* copied; nothing of it survives an interruption, so it is not state.
SaveMigrating ==
    /\ pc = "migrating"
    /\ Save("migrating")
    /\ Open("swapOut", Paths)
    /\ UNCHANGED <<pending, record, unsynced, run, data, backup, claim>>

SwapOut(p) ==
    /\ pc = "swapOut" /\ p \in todo
    /\ old' = [old EXCEPT ![p] = live[p]]
    /\ live' = [live EXCEPT ![p] = "missing"]
    /\ Go("swapIn")
    /\ UNCHANGED <<etc, run, backup, claim>>

SwapIn(p) ==
    /\ pc = "swapIn" /\ p \in todo /\ live[p] = "missing"
    /\ live' = [live EXCEPT ![p] = "copy"]
    /\ Visit(p, "swapOut", "record", {})
    /\ UNCHANGED <<etc, run, old, backup, claim>>

-----------------------------------------------------------------------------
(* The fence: Runtime.isolate.                                             *)

WriteRecord ==
    /\ pc = "record"
    /\ IF table THEN Go("seal") /\ UNCHANGED <<record, unsynced>>
                ELSE Go("table") /\ record' = TRUE /\ unsynced' = {}
    /\ UNCHANGED <<phase, pending, run, data, backup, claim>>

LoadTable ==
    /\ pc = "table"
    /\ table' = TRUE
    /\ Go("seal")
    /\ UNCHANGED <<etc, permit, svc, data, backup, claim>>

Seal ==
    /\ pc = "seal"
    /\ record' = TRUE /\ unsynced' = {}
    /\ CASE goal = "promote"  -> Go("install")
         [] goal = "rollback" -> Open("remove", Paths)
         [] OTHER             -> Go("permit")
    /\ UNCHANGED <<phase, pending, run, data, backup, claim>>

-----------------------------------------------------------------------------
(* Behind the fence.                                                       *)

\* retire_containers, install_runtime and, for files, the schema migration.
\* (Synapse migrates its own data when it starts: one step here.)
Install ==
    /\ pc = "install"
    /\ live' = [p \in Paths |-> "upgraded"]
    /\ Go("permit")
    /\ UNCHANGED <<etc, run, old, backup, claim>>

AllowValidation ==
    /\ pc = "permit"
    /\ permit' = TRUE
    /\ IF ToStart = {} THEN Go("verify") ELSE Open("start", ToStart)
    /\ UNCHANGED <<etc, table, svc, data, backup, claim>>

\* migrate and restore_original start what verify starts again.
Start(s) ==
    /\ pc = "start" /\ s \in todo
    /\ GuardPasses
    /\ svc' = [svc EXCEPT ![s] = "active"]
    /\ Visit(s, pc, "verify", {})
    /\ UNCHANGED <<etc, table, permit, data, backup, claim>>

\* The settings and helpers in place are those of the version being verified.
Verify ==
    /\ pc = "verify"
    /\ AllActive
    /\ Go(AfterVerify)
    /\ UNCHANGED <<etc, run, data, backup, claim>>

Commit ==
    /\ pc = "commit"
    /\ Save("committed")
    /\ Go("scope")
    /\ UNCHANGED <<pending, record, unsynced, run, data, backup, claim>>

\* A retained old path takes the place of whatever is there: the removal, then
\* the rename.  "missing" also stands for a directory that is partly removed.
Remove(p) ==
    /\ pc = "remove" /\ p \in todo
    /\ IF Kept(p) THEN Go("putBack") /\ live' = [live EXCEPT ![p] = "missing"]
                  ELSE Visit(p, pc, "permit", {}) /\ UNCHANGED live
    /\ UNCHANGED <<etc, run, old, backup, claim>>

PutBack(p) ==
    /\ pc = "putBack" /\ p \in todo /\ live[p] = "missing" /\ old[p] # "none"
    /\ live' = [live EXCEPT ![p] = old[p]]
    /\ old' = [old EXCEPT ![p] = "none"]
    /\ Visit(p, "remove", "permit", {})
    /\ UNCHANGED <<etc, run, backup, claim>>

SaveRolledBack ==
    /\ pc = "rolledBack"
    /\ Save("rolled-back")
    /\ Go("scope")
    /\ UNCHANGED <<pending, record, unsynced, run, data, backup, claim>>

-----------------------------------------------------------------------------
(* finish: publish, clean, record, unmark.                                 *)

SetScope ==
    /\ pc = "scope"
    /\ scope' = Scope
    /\ Go(IF phase = "committed" THEN "refresh" ELSE "withdraw")
    /\ UNCHANGED <<etc, run, data, captured, helpers, targetSaved, claim>>

\* refresh_runtime: two renames under a marker of their own, resumed by a
\* later call.
RefreshHelpers ==
    /\ pc = "refresh"
    /\ helpers' = IF helpers = "source" THEN "between" ELSE "target"
    /\ Go(IF helpers' = "target" THEN "withdraw" ELSE "refresh")
    /\ UNCHANGED <<etc, run, data, captured, scope, targetSaved, claim>>

Withdraw ==
    /\ pc = "withdraw"
    /\ permit' = FALSE
    /\ Go("unfence")
    /\ UNCHANGED <<etc, table, svc, data, backup, claim>>

\* Clients can reach the services from here on.
Unfence ==
    /\ pc = "unfence"
    /\ table' = FALSE
    /\ Go("release")
    /\ UNCHANGED <<etc, permit, svc, data, backup, claim>>

\* The unlink is not followed by a sync of /etc.
Release ==
    /\ pc = "release"
    /\ record' = RecordGone /\ unsynced' = unsynced \union {"record"}
    /\ Go(AfterRelease)
    /\ UNCHANGED <<phase, pending, run, data, backup, claim>>

\* The backup of the committed version pauses what runs and resumes it, with
\* clients admitted and the marker still there.
AllowTarget ==
    /\ pc = "allowTarget"
    /\ permit' = TRUE
    /\ LET active == {s \in Services : svc[s] = "active"}
       IN IF active = {} THEN Go("upload") ELSE Open("pause", active)
    /\ UNCHANGED <<etc, table, svc, data, backup, claim>>

\* The loop after this one resumes the units this one paused.
Pause(s) ==
    /\ pc = "pause" /\ s \in todo
    /\ svc' = [svc EXCEPT ![s] = "stopped"]
    /\ Visit(s, pc, "resume", {t \in Services : svc'[t] = "stopped"})
    /\ UNCHANGED <<etc, table, permit, data, backup, claim>>

Resume(s) ==
    /\ pc = "resume" /\ s \in todo
    /\ GuardPasses
    /\ svc' = [svc EXCEPT ![s] = "active"]
    /\ Visit(s, pc, "upload", {})
    /\ UNCHANGED <<etc, table, permit, data, backup, claim>>

Upload ==
    /\ pc = "upload"
    /\ targetSaved' = TRUE
    /\ permit' = FALSE
    /\ Go("clean")
    /\ UNCHANGED <<etc, table, svc, data, captured, scope, helpers, claim>>

Clean ==
    /\ pc = "clean"
    /\ old' = [p \in Paths |-> "none"]
    /\ Go("result")
    /\ UNCHANGED <<etc, run, live, backup, claim>>

RecordResult ==
    /\ pc = "result"
    /\ Go("unmark")
    /\ UNCHANGED <<etc, run, data, backup, claim>>

Unmark ==
    /\ pc = "unmark"
    /\ pending' = FALSE /\ unsynced' = unsynced \union {"pending"}
    /\ Go("sync")
    /\ UNCHANGED <<phase, record, run, data, backup, claim>>

\* sync_directory: from here no power loss brings the marker back.
Sync ==
    /\ pc = "sync"
    /\ unsynced' = {}
    /\ claim' = IF phase = "committed" THEN "upgraded" ELSE "recovered"
    /\ Return
    /\ UNCHANGED <<phase, pending, record, run, data, backup>>

-----------------------------------------------------------------------------
(* recover.                                                                *)

StartRecover ==
    /\ op = "none"
    /\ pending
    /\ op' = "recover" /\ pc' = "branch"
    /\ claim' = "none"
    /\ UNCHANGED <<goal, todo, etc, run, data, backup>>

Branch ==
    /\ pc = "branch"
    /\ IF Decided
       THEN /\ goal' = IF phase = "committed" THEN "settleNew" ELSE "settleOld"
            /\ pc' = "record" /\ UNCHANGED todo
       ELSE StartRollback
    /\ UNCHANGED <<op, etc, run, data, backup, claim>>

-----------------------------------------------------------------------------
(* A step raises.                                                          *)

\* Before the commit: the handler rolls back.  The capture withdraws its permit.
RaisePromoting ==
    /\ op = "apply" /\ goal = "promote" /\ pc \in Promoting
    /\ StartRollback /\ UNCHANGED <<op, claim>>
    /\ permit' = (permit /\ pc \notin {"capture", "compare"})

\* The phase in memory is "committed" before save() is called.
RaiseCommitted ==
    /\ op = "apply" /\ goal = "promote" /\ pc \in Finishing \union {"commit"}
    /\ claim' = "committed" /\ Return /\ permit' = Freeze

\* In the handler's rollback, and anywhere in recover.
RaiseSettling ==
    /\ op = "recover" \/ goal = "rollback"
    /\ claim' = "unrecovered" /\ Return /\ permit' = Freeze

\* A failed capture still tries to start each unit it paused.
Resumed ==
    IF pc \in {"pause", "resume"}
    THEN \E failing \in SUBSET Services :
             svc' = [s \in Services |-> IF svc[s] = "stopped" /\ s \notin failing
                                        THEN "active" ELSE svc[s]]
    ELSE UNCHANGED svc

Raise ==
    /\ RaisePromoting \/ RaiseCommitted \/ RaiseSettling
    /\ Resumed
    /\ UNCHANGED <<etc, table, data, backup>>

\* KeyboardInterrupt: the BaseException handlers freeze too.
Interrupt ==
    /\ op = "recover" \/ (op = "apply" /\ goal = "promote" /\ pc # "marker")
    /\ permit' = Freeze
    /\ claim' = "interrupted"
    /\ Return
    /\ Resumed
    /\ UNCHANGED <<etc, table, data, backup>>

-----------------------------------------------------------------------------
(* The environment.                                                        *)

\* Also an interrupt while apply's handler rolls back: nothing catches it.
Kill ==
    /\ op # "none"
    /\ claim' = "interrupted"
    /\ Return
    /\ UNCHANGED <<etc, run, data, backup>>

\* Memory, the nftables table and /run are lost.  A power loss may also undo
\* the unlinks not yet synced, the latest ones first.  Units are enabled.
Reboot ==
    /\ \E undone \in SUBSET unsynced :
           /\ "record" \in undone /\ "pending" \in unsynced => "pending" \in undone
           /\ pending' = (pending \/ "pending" \in undone)
           /\ record' = (record \/ "record" \in undone)
    /\ unsynced' = {}
    /\ table' = FALSE /\ permit' = FALSE
    /\ svc' \in [Services -> {"stopped", "failed"} \union IF GuardPasses' THEN {"active"} ELSE {}]
    /\ claim' = IF op = "none" THEN claim ELSE "interrupted"
    /\ Return
    /\ UNCHANGED <<phase, data, backup>>

ServiceCrash(s) ==
    /\ svc[s] = "active"
    /\ svc' = [svc EXCEPT ![s] = "failed"]
    /\ UNCHANGED <<process, etc, table, permit, data, backup, claim>>

\* Restart=on-failure.
AutoRestart(s) ==
    /\ svc[s] = "failed"
    /\ GuardPasses
    /\ svc' = [svc EXCEPT ![s] = "active"]
    /\ UNCHANGED <<process, etc, table, permit, data, backup, claim>>

\* Clients write the version they reach; what they write to the source after
\* its backup was captured is not in that backup.
ClientWrite(p) ==
    /\ Exposed
    /\ \/ /\ live[p] = "upgraded"
          /\ live' = [live EXCEPT ![p] = "edited"] /\ UNCHANGED captured
       \/ /\ live[p] = "original" /\ captured = "whole"
          /\ captured' = "behind" /\ UNCHANGED live
    /\ UNCHANGED <<process, etc, run, old, scope, helpers, targetSaved, claim>>

-----------------------------------------------------------------------------

\* The process goes on.
Proceed ==
    \/ WriteMarker \/ AllowSnapshot \/ Capture \/ Compare \/ SaveMigrating
    \/ WriteRecord \/ LoadTable \/ Seal \/ Install
    \/ \E s \in Services : Stop(s) \/ Start(s) \/ Pause(s) \/ Resume(s)
    \/ \E p \in Paths : SwapOut(p) \/ SwapIn(p) \/ Remove(p) \/ PutBack(p)
    \/ AllowValidation \/ Verify \/ Commit \/ SaveRolledBack
    \/ SetScope \/ RefreshHelpers \/ Withdraw \/ Unfence \/ Release
    \/ AllowTarget \/ Upload \/ Clean \/ RecordResult \/ Unmark \/ Sync
    \/ Branch

Environment ==
    \/ Reboot
    \/ \E s \in Services : ServiceCrash(s) \/ AutoRestart(s)
    \/ \E p \in Paths : ClientWrite(p)

Next ==
    \/ StartApply \/ StartRecover
    \/ Proceed
    \/ WriteMarkerFails \/ Raise \/ Interrupt \/ Kill
    \/ Environment

Spec == Init /\ [][Next]_vars

(* Fairness.  A running command goes on, or raises where its own check      *)
(* refuses; the operator runs upgrade recover while an upgrade is pending,  *)
(* as every message of the code asks.                                       *)

CheckFails == (pc = "verify" /\ ~AllActive) \/ (pc = "compare" /\ ~AllDown)

FairSpec ==
    /\ Spec
    /\ WF_vars(Proceed \/ (CheckFails /\ Raise))
    /\ WF_vars(StartRecover)
=============================================================================
