------------------------- MODULE RestoreTransaction -------------------------
(***************************************************************************)
(* The journalled restore of one installation from a staged snapshot       *)
(* (scripts/restore_transaction.py) under the isolation of                 *)
(* scripts/restore_runtime.py.                                             *)
(*                                                                         *)
(* One process at a time runs (backup_operations.action holds a lock):     *)
(*   apply    read which services run, stop the certificate timer, write   *)
(*            the journal and the pending marker, raise the fence (record  *)
(*            + nftables table), stage a candidate of every path, stop the *)
(*            services, swap every path by two renames, save "validating", *)
(*            permit and start the services behind the fence, verify them, *)
(*            save "committed", finish;                                    *)
(*   rollback the handler of apply and the last branch of recover: stop,   *)
(*            put every retained old path back, start what ran before,     *)
(*            verify, save "rolled-back", finish;                          *)
(*   recover  read marker and journal, raise the fence again, withdraw the *)
(*            permit and settle according to the journal's phase;          *)
(*   finish   withdraw the permit, drop the fence, give the timer back,    *)
(*            clean the workspaces, record evidence, unlink the marker.    *)
(*                                                                         *)
(* A step of the process may raise at any point, the process may be        *)
(* interrupted or killed, the host may reboot, a service may crash and be  *)
(* restarted by systemd, and clients write whenever they can reach a       *)
(* service.  Installations whose package is the gateway also suspend the   *)
(* gateway's policy, and Matrix installations clear one-time keys before   *)
(* Synapse starts: neither is part of this module.                         *)
(*                                                                         *)
(* The code visits services and paths in a fixed order; here any order may *)
(* be taken, which adds behaviours and removes none.                       *)
(***************************************************************************)
CONSTANTS
    Services,       \* the units of resources(owner).services
    Paths,          \* restoration_paths(owner)
    Managed         \* owner.tls_mode is managed-acme: there is a renewal timer

ASSUME ServicesAssumption == Services # {}
ASSUME PathsAssumption == Paths # {}
ASSUME ManagedAssumption == Managed \in BOOLEAN

VARIABLES
    op,         \* "none", "apply" or "recover": the running process
    goal,       \* what its steps lead to
    pc,         \* the step it takes next
    todo,       \* the services or paths the present loop has not visited
    draft,      \* the journal in apply's memory, before the marker refers to it
    journal,    \* the durable journal the marker refers to
    pending,    \* etc/rdc-restore-pending.json exists
    record,     \* etc/rdc-restore-isolation.json exists
    unsynced,   \* names of /etc unlinked since its directory was last synced
    table,      \* the rdc_restore nftables table is loaded (lost at reboot)
    permit,     \* /run/rdc-restore-validation exists (lost at reboot)
    timer,      \* rdc-certificate-renew.timer is active
    svc,        \* state of every unit
    live,       \* what each path of the installation holds
    old,        \* what the transaction's workspace keeps as old
    evidence,   \* restore-result.json names the journal's transaction
    claim       \* the outcome last reported to the operator

process == <<op, goal, pc, todo, draft>>
etc     == <<journal, pending, record, unsynced>>
run     == <<table, permit, timer, svc>>
data    == <<live, old>>
report  == <<evidence, claim>>
vars    == <<process, etc, run, data, report>>

Goals == {"none", "promote", "rollback", "settleNew", "settleOld"}
Isolating == {"record", "table", "seal"}
Promoting == {"stage", "quiesce", "swapOut", "swapIn", "validating", "permit", "start", "verify"}
Finishing == {"withdraw", "unfence", "release", "clean", "evidence", "unmark"}
Steps == {"idle", "marker", "branch", "remove", "putBack", "commit", "rolledBack"}
             \union Isolating \union Promoting \union Finishing
Phases == {"none", "preparing", "validating", "committed", "rolled-back"}
Content == {"original", "restored", "edited"}
Claims == {"none", "restored", "recovered", "committed", "unrecovered", "interrupted"}

FlagsOK ==
    /\ pending \in BOOLEAN /\ record \in BOOLEAN /\ table \in BOOLEAN
    /\ permit \in BOOLEAN /\ timer \in BOOLEAN /\ evidence \in BOOLEAN

ValuesOK ==
    /\ op \in {"none", "apply", "recover"} /\ goal \in Goals /\ pc \in Steps
    /\ todo \subseteq Services \union Paths
    /\ draft \in [active : [Services -> BOOLEAN], timer : BOOLEAN]
    /\ journal \in [phase : Phases, active : [Services -> BOOLEAN], timer : BOOLEAN]
    /\ unsynced \subseteq {"pending", "record"}
    /\ svc \in [Services -> {"active", "stopped", "failed"}]
    /\ live \in [Paths -> Content \union {"missing"}]
    /\ old \in [Paths -> Content \union {"missing", "none"}]
    /\ claim \in Claims

TypeOK == FlagsOK /\ ValuesOK

Init ==
    /\ op = "none" /\ goal = "none" /\ pc = "idle" /\ todo = {}
    /\ draft = [active |-> [s \in Services |-> FALSE], timer |-> FALSE]
    /\ journal = [phase |-> "none", active |-> [s \in Services |-> FALSE], timer |-> FALSE]
    /\ pending = FALSE /\ record = FALSE /\ unsynced = {}
    /\ table = FALSE /\ permit = FALSE /\ timer = Managed
    /\ svc \in [Services -> {"active", "stopped"}]
    /\ live = [p \in Paths |-> "original"] /\ old = [p \in Paths |-> "none"]
    /\ evidence = FALSE /\ claim = "none"

AllActive == \A s \in Services : svc[s] = "active"

\* What staging makes of the snapshot: its copy of a path, completed with the
\* settings this installation keeps, under the owner's permissions.
Candidate == "restored"

\* The fence drops client traffic to every service port.
Exposed == ~table /\ \E s \in Services : svc[s] = "active"

-----------------------------------------------------------------------------
(* Plausible mistakes, each a changed form of the definition it precedes;   *)
(* no specification uses them.                                              *)

\* The ExecStartPre guard of every unit.
NoGuard == TRUE
GuardPasses == pending => permit

\* Which retained data rollback puts back: if old.exists().
AlwaysKept(p) == TRUE
Kept(p) == old[p] # "none"

\* The services a goal starts: those of the candidate, or those that ran before.
ToStart == IF goal \in {"promote", "settleNew"}
           THEN Services
           ELSE {s \in Services : journal.active[s]}

SkipCommit == IF goal = "rollback" THEN "rolledBack" ELSE "withdraw"
AfterVerify == CASE goal = "promote"  -> "commit"
                 [] goal = "rollback" -> "rolledBack"
                 [] OTHER             -> "withdraw"

\* verify() is called only if some service was to start.
VerifyAlways == IF ToStart = {} THEN "verify" ELSE "start"
AfterPermit == IF ToStart = {} THEN AfterVerify ELSE "start"

\* What recover takes for an attempt to undo.
UndoUnlessUndone == journal.phase # "rolled-back"
Undecided == journal.phase \in {"preparing", "validating"}

\* if self.prepared and self.timer_active: self.start(TIMER)
TimerForgotten == timer
TimerBack == timer \/ journal.timer

\* journal['phase']=phase;save(root,journal)
SkipSave(phase) == UNCHANGED journal
SaveGoal(phase) == journal' = [journal EXCEPT !.phase = goal]  \* no phase recover accepts
Save(phase) == journal' = [journal EXCEPT !.phase = phase]

\* ISOLATION.unlink(missing_ok=True)
RecordLeft == record
RecordGone == FALSE

-----------------------------------------------------------------------------
(* Moves of the process.                                                   *)

Go(step) == pc' = step /\ UNCHANGED <<op, goal, todo, draft>>

\* One visit of a loop over todo, then the step that follows the loop.
Visit(x, next, step, rest) ==
    /\ IF todo = {x} THEN pc' = step /\ todo' = rest
                     ELSE pc' = next /\ todo' = todo \ {x}
    /\ UNCHANGED <<op, goal, draft>>

RollbackRunning == goal' = "rollback" /\ pc' = "remove" /\ todo' = Paths
StartRollback == goal' = "rollback" /\ pc' = "quiesce" /\ todo' = Services

Return == op' = "none" /\ goal' = "none" /\ pc' = "idle" /\ todo' = {} /\ UNCHANGED draft

-----------------------------------------------------------------------------
(* apply, up to the marker.                                                *)

\* Nothing is pending, no isolation is left, every path is there.
Plan ==
    /\ ~pending /\ ~record /\ ~table
    /\ \A p \in Paths : live[p] # "missing"

\* prepare() stops the renewal timer and takes the TLS lock; when the lock is
\* busy it restarts the timer, and nothing changed.
HoldTimer == timer' = (timer /\ ~Managed)

StartApply ==
    /\ op = "none"
    /\ Plan
    /\ op' = "apply" /\ goal' = "promote" /\ pc' = "marker"
    /\ draft' = [active |-> [s \in Services |-> svc[s] = "active"],
                 timer |-> Managed /\ timer]
    /\ HoldTimer
    /\ claim' = "none"
    /\ UNCHANGED <<todo, etc, table, permit, svc, data, evidence>>

\* The journal is saved, then the marker that makes it the pending one.  From
\* here the data in place is what this transaction calls original.
Mark ==
    /\ journal' = [phase |-> "preparing", active |-> draft.active, timer |-> draft.timer]
    /\ pending' = TRUE
    /\ unsynced' = {}
    /\ live' = [p \in Paths |-> "original"]
    /\ old' = [p \in Paths |-> "none"]
    /\ evidence' = FALSE
    /\ UNCHANGED record

WriteMarker ==
    /\ pc = "marker"
    /\ Mark
    /\ Go("record")
    /\ UNCHANGED <<run, claim>>

\* Either write fails: release() gives the timer back.  The marker's write may
\* fail after the file was replaced (directory sync), and then it is there.
WriteMarkerFails ==
    /\ pc = "marker"
    /\ Mark \/ UNCHANGED <<etc, data, evidence>>
    /\ timer' = (timer \/ draft.timer)
    /\ Return
    /\ UNCHANGED <<table, permit, svc, claim>>

-----------------------------------------------------------------------------
(* The fence: Runtime.isolate, of apply and of recover.                    *)

WriteRecord ==
    /\ pc = "record"
    /\ IF table THEN Go("seal") /\ UNCHANGED <<record, unsynced>>
                ELSE Go("table") /\ record' = TRUE /\ unsynced' = {}
    /\ UNCHANGED <<journal, pending, run, data, report>>

LoadTable ==
    /\ pc = "table"
    /\ table' = TRUE
    /\ Go("seal")
    /\ UNCHANGED <<etc, permit, timer, svc, data, report>>

\* The rules are read back and their digest is recorded.
Seal ==
    /\ pc = "seal"
    /\ record' = TRUE /\ unsynced' = {}
    /\ Go(IF op = "apply" THEN "stage" ELSE "branch")
    /\ UNCHANGED <<journal, pending, run, data, report>>

-----------------------------------------------------------------------------
(* apply, behind the fence.                                                *)

\* The candidate of every path is copied, completed and synced; a candidate
\* that an interruption left behind is never used, so it is not state.
Stage ==
    /\ pc = "stage"
    /\ pc' = "quiesce" /\ todo' = Services
    /\ UNCHANGED <<op, goal, draft, etc, run, data, report>>

\* Also the first loop of rollback.
Stop(s) ==
    /\ pc = "quiesce" /\ s \in todo
    /\ svc' = [svc EXCEPT ![s] = "stopped"]
    /\ Visit(s, pc, IF goal = "promote" THEN "swapOut" ELSE "remove", Paths)
    /\ UNCHANGED <<etc, table, permit, timer, data, report>>

SwapOut(p) ==
    /\ pc = "swapOut" /\ p \in todo
    /\ old' = [old EXCEPT ![p] = live[p]]
    /\ live' = [live EXCEPT ![p] = "missing"]
    /\ Go("swapIn")
    /\ UNCHANGED <<etc, run, report>>

SwapIn(p) ==
    /\ pc = "swapIn" /\ p \in todo /\ live[p] = "missing"
    /\ live' = [live EXCEPT ![p] = Candidate]
    /\ Visit(p, "swapOut", "validating", {})
    /\ UNCHANGED <<etc, run, old, report>>

SaveValidating ==
    /\ pc = "validating"
    /\ Save("validating")
    /\ Go("permit")
    /\ UNCHANGED <<pending, record, unsynced, run, data, report>>

\* The last step before finish: the restored data becomes the data of record.
Commit ==
    /\ pc = "commit"
    /\ Save("committed")
    /\ Go("withdraw")
    /\ UNCHANGED <<pending, record, unsynced, run, data, report>>

-----------------------------------------------------------------------------
(* Starting services behind the fence, for every goal.                     *)

AllowValidation ==
    /\ pc = "permit"
    /\ permit' = TRUE
    /\ pc' = AfterPermit /\ todo' = ToStart
    /\ UNCHANGED <<op, goal, draft, etc, table, timer, svc, data, report>>

Start(s) ==
    /\ pc = "start" /\ s \in todo
    /\ GuardPasses
    /\ svc' = [svc EXCEPT ![s] = "active"]
    /\ Visit(s, pc, "verify", {})
    /\ UNCHANGED <<etc, table, permit, timer, data, report>>

\* Runtime.verify asks for every service of the owner, whoever was started.
Verify ==
    /\ pc = "verify"
    /\ AllActive
    /\ Go(AfterVerify)
    /\ UNCHANGED <<etc, run, data, report>>

-----------------------------------------------------------------------------
(* rollback.                                                               *)

\* A retained old path takes the place of whatever is there: the removal, then
\* the rename.  "missing" also stands for a directory that is partly removed.
Remove(p) ==
    /\ pc = "remove" /\ p \in todo
    /\ IF Kept(p) THEN Go("putBack") /\ live' = [live EXCEPT ![p] = "missing"]
                  ELSE Visit(p, pc, "permit", {}) /\ UNCHANGED live
    /\ UNCHANGED <<etc, run, old, report>>

PutBack(p) ==
    /\ pc = "putBack" /\ p \in todo /\ live[p] = "missing" /\ old[p] # "none"
    /\ live' = [live EXCEPT ![p] = old[p]]
    /\ old' = [old EXCEPT ![p] = "none"]
    /\ Visit(p, "remove", "permit", {})
    /\ UNCHANGED <<etc, run, report>>

SaveRolledBack ==
    /\ pc = "rolledBack"
    /\ Save("rolled-back")
    /\ Go("withdraw")
    /\ UNCHANGED <<pending, record, unsynced, run, data, report>>

-----------------------------------------------------------------------------
(* finish.                                                                 *)

Withdraw ==
    /\ pc = "withdraw"
    /\ permit' = FALSE
    /\ Go("unfence")
    /\ UNCHANGED <<etc, table, timer, svc, data, report>>

\* Clients can reach the services from here on.
Unfence ==
    /\ pc = "unfence"
    /\ table' = FALSE
    /\ Go("release")
    /\ UNCHANGED <<etc, permit, timer, svc, data, report>>

\* The rest of Runtime.release.  The unlink is not followed by a sync of /etc.
Release ==
    /\ pc = "release"
    /\ record' = RecordGone /\ unsynced' = unsynced \union {"record"}
    /\ timer' = TimerBack
    /\ Go("clean")
    /\ UNCHANGED <<journal, pending, table, permit, svc, data, report>>

Clean ==
    /\ pc = "clean"
    /\ old' = [p \in Paths |-> "none"]
    /\ Go("evidence")
    /\ UNCHANGED <<etc, run, live, report>>

RecordEvidence ==
    /\ pc = "evidence"
    /\ evidence' = (evidence \/ journal.phase = "committed")
    /\ Go("unmark")
    /\ UNCHANGED <<etc, run, data, claim>>

\* Not followed by a sync of /etc either.  apply reports a rollback as a
\* RestoreError whose recovered is true.
Unmark ==
    /\ pc = "unmark"
    /\ pending' = FALSE /\ unsynced' = unsynced \union {"pending"}
    /\ claim' = IF goal \in {"promote", "settleNew"} THEN "restored" ELSE "recovered"
    /\ Return
    /\ UNCHANGED <<journal, record, run, data, evidence>>

-----------------------------------------------------------------------------
(* recover.                                                                *)

StartRecover ==
    /\ op = "none"
    /\ pending
    /\ op' = "recover" /\ pc' = "record"
    /\ HoldTimer
    /\ claim' = "none"
    /\ UNCHANGED <<goal, todo, draft, etc, table, permit, svc, data, evidence>>

\* prepare() finds the TLS lock taken: it restarts the timer the journal names.
RecoverBusy ==
    /\ Managed
    /\ op = "none"
    /\ pending
    /\ timer' = journal.timer
    /\ claim' = "unrecovered"
    /\ UNCHANGED <<process, etc, table, permit, svc, data, evidence>>

Branch ==
    /\ pc = "branch"
    /\ permit' = FALSE
    /\ IF Undecided
       THEN StartRollback
       ELSE /\ goal' = IF journal.phase = "committed" THEN "settleNew" ELSE "settleOld"
            /\ pc' = "permit" /\ UNCHANGED todo
    /\ UNCHANGED <<op, draft, etc, table, timer, svc, data, report>>

-----------------------------------------------------------------------------
(* A step raises.                                                          *)

\* isolated is still False: no rollback, the marker stays.
RaiseIsolating ==
    /\ op = "apply" /\ pc \in Isolating
    /\ claim' = "unrecovered" /\ Return /\ UNCHANGED permit

RaisePromoting ==
    /\ op = "apply" /\ goal = "promote" /\ pc \in Promoting
    /\ StartRollback /\ UNCHANGED <<op, draft, claim, permit>>

\* The phase in memory is "committed" before save() is called.
RaiseCommitted ==
    /\ op = "apply" /\ goal = "promote" /\ pc \in Finishing \union {"commit"}
    /\ claim' = "committed" /\ Return /\ UNCHANGED permit

RaiseRollback ==
    /\ op = "apply" /\ goal = "rollback"
    /\ claim' = "unrecovered" /\ Return /\ permit' = FALSE

\* recover has no handler: the permit stays where it is.
RaiseRecover ==
    /\ op = "recover"
    /\ claim' = "unrecovered" /\ Return /\ UNCHANGED permit

Raise ==
    /\ RaiseIsolating \/ RaisePromoting \/ RaiseCommitted \/ RaiseRollback \/ RaiseRecover
    /\ UNCHANGED <<etc, table, timer, svc, data, evidence>>

\* KeyboardInterrupt in apply's try block: BaseException withdraws the permit.
Interrupt ==
    /\ op = "apply" /\ goal = "promote" /\ pc # "marker"
    /\ permit' = FALSE
    /\ claim' = "interrupted"
    /\ Return
    /\ UNCHANGED <<etc, table, timer, svc, data, evidence>>

-----------------------------------------------------------------------------
(* The environment.                                                        *)

\* Also an interrupt where nothing catches it (rollback, recover).
Kill ==
    /\ op # "none"
    /\ claim' = "interrupted"
    /\ Return
    /\ UNCHANGED <<etc, run, data, evidence>>

\* Memory, the nftables table and /run are lost.  A power loss may also undo
\* the unlinks not yet synced, the latest ones first.
Reboot ==
    /\ \E undone \in SUBSET unsynced :
           /\ "record" \in undone /\ "pending" \in unsynced => "pending" \in undone
           /\ pending' = (pending \/ "pending" \in undone)
           /\ record' = (record \/ "record" \in undone)
    /\ unsynced' = {}
    /\ table' = FALSE /\ permit' = FALSE /\ timer' = Managed
    /\ svc' \in [Services -> {"stopped", "failed"} \union IF pending' THEN {} ELSE {"active"}]
    /\ claim' = IF op = "none" THEN claim ELSE "interrupted"
    /\ Return
    /\ UNCHANGED <<journal, data, evidence>>

ServiceCrash(s) ==
    /\ svc[s] = "active"
    /\ svc' = [svc EXCEPT ![s] = "failed"]
    /\ UNCHANGED <<process, etc, table, permit, timer, data, report>>

\* Restart=on-failure.
AutoRestart(s) ==
    /\ svc[s] = "failed"
    /\ GuardPasses
    /\ svc' = [svc EXCEPT ![s] = "active"]
    /\ UNCHANGED <<process, etc, table, permit, timer, data, report>>

ClientWrite(p) ==
    /\ Exposed
    /\ live[p] = "restored"
    /\ live' = [live EXCEPT ![p] = "edited"]
    /\ UNCHANGED <<process, etc, run, old, report>>

-----------------------------------------------------------------------------

\* The process goes on.
Proceed ==
    \/ WriteMarker \/ WriteRecord \/ LoadTable \/ Seal \/ Stage
    \/ \E s \in Services : Stop(s) \/ Start(s)
    \/ \E p \in Paths : SwapOut(p) \/ SwapIn(p) \/ Remove(p) \/ PutBack(p)
    \/ SaveValidating \/ Commit \/ AllowValidation \/ Verify \/ SaveRolledBack
    \/ Withdraw \/ Unfence \/ Release \/ Clean \/ RecordEvidence \/ Unmark
    \/ Branch

Environment ==
    \/ Reboot
    \/ \E s \in Services : ServiceCrash(s) \/ AutoRestart(s)
    \/ \E p \in Paths : ClientWrite(p)

Next ==
    \/ StartApply \/ StartRecover \/ RecoverBusy
    \/ Proceed
    \/ WriteMarkerFails \/ Raise \/ Interrupt \/ Kill
    \/ Environment

Spec == Init /\ [][Next]_vars

(* Fairness.  A running process goes on, or raises where its own check      *)
(* refuses; the operator runs restore-recover while a transaction is        *)
(* pending, as every message of the code asks.  Nothing obliges an          *)
(* operator to start a restore, a client to write or a service to restart.  *)

CheckFails == pc = "verify" /\ ~AllActive

FairSpec ==
    /\ Spec
    /\ WF_vars(Proceed \/ (CheckFails /\ Raise))
    /\ WF_vars(StartRecover)
=============================================================================
