------------------------------- MODULE Backups -------------------------------
(***************************************************************************)
(* The backups of a node (scripts/backup_operations.py, backup_snapshot.py,*)
(* backup_schedule.py, backup_transport.py, backup_target.py and the       *)
(* include_services of the application packages).                          *)
(*                                                                         *)
(* Two processes, the operator's command and the timer's run, take backups:*)
(*   check the scope, take the certificate lock, record which units are    *)
(*   active, stop them, copy, start them again whatever happened, upload   *)
(*   under the operation lock, record the attempt.                         *)
(* The operator also configures the backups, extends their scope when an   *)
(* application was installed, and enables the schedule: a copy of the      *)
(* backup program (RUNTIME) with its units and schedule.json.  Extending   *)
(* the scope replaces that copy by two renames under a durable intent.     *)
(* A certificate renewal restarts units under the certificate lock.        *)
(*                                                                         *)
(* Left out: refusals while a restore or an upgrade is pending (the modules*)
(* of those procedures show them), the schedule's frequency, and what a    *)
(* snapshot holds beyond whether and with which scope it was copied.       *)
(***************************************************************************)
EXTENDS Naturals, Sequences, FiniteSets

CONSTANTS
    Units,          \* resources(owner).services
    Versions,       \* the project sources an operator may run a command from
    MaxSnapshots    \* bound: snapshots uploaded

ASSUME UnitsAssumption == IsFiniteSet(Units)
ASSUME VersionsAssumption == {"none", "partial"} \intersect Versions = {}
ASSUME MaxSnapshotsAssumption == MaxSnapshots \in Nat

Processes == {"operator", "timer"}

VARIABLES
    command,    \* command[p]: what p is doing
    pc,         \* pc[p]: the step it takes next
    source,     \* source[p]: the version of the project it would install
    todo,       \* todo[p]: active units it has still to stop
    recovery,   \* recovery[p]: units it stopped and has still to start again
    failing,    \* failing[p]: an exception is on its way through the finally
    scopeOf,    \* scopeOf[p]: the scope of the backup it takes
    stage,      \* stage[p]: its local copy of the data
    lock,       \* holder of operation.lock
    tls,        \* the certificate lock is held by a capture
    conf,       \* configuration.json, with the scope it names
    target,     \* the storage account at the backup target
    initialized,\* the encrypted repository exists
    app,        \* an application is installed
    snapshots,  \* what was uploaded
    svc,        \* state of every unit
    excused,    \* stopped units that a run reported, or left when it was itself cut
    runtime,    \* RUNTIME
    candidate,  \* .rdc-backup-runtime-next
    previous,   \* .rdc-backup-runtime-previous
    intent,     \* runtime-update.json: <<previous, desired>> or <<>>
    units,      \* scheduler unit files written: 0, 1 or 2
    schedule,   \* schedule.json, with the scope it names
    timer,      \* rdc-backup.timer is enabled
    attempt     \* last-attempt.json

process  == <<command, pc, source, todo, recovery, failing, scopeOf, stage>>
locks    == <<lock, tls>>
storage  == <<target, initialized, snapshots>>
program  == <<runtime, candidate, previous, intent>>
plan     == <<units, schedule, timer>>
vars     == <<process, locks, storage, program, plan, conf, app, svc, excused, attempt>>

Contents == Versions \union {"none", "partial"}
Scopes == {"network", "full"}
Steps == {"idle", "files", "configured", "lock", "check", "stop", "copy", "copying", "start", "end",
          "upload", "record", "recordFailure", "include", "refresh", "stage", "staging", "intend",
          "away", "place", "settle", "scope", "enable", "create", "creating", "units", "schedule",
          "enabled"}

Snapshot == [whole : BOOLEAN, scope : Scopes, due : Scopes, by : Processes]

TypeOK ==
    /\ command \in [Processes -> {"none", "configure", "run", "include", "enable"}]
    /\ pc \in [Processes -> Steps] /\ source \in [Processes -> Versions \union {"none"}]
    /\ todo \in [Processes -> SUBSET Units] /\ recovery \in [Processes -> SUBSET Units]
    /\ failing \in [Processes -> BOOLEAN]
    /\ scopeOf \in [Processes -> Scopes \union {"none"}]
    /\ stage \in [Processes -> {"none", "partial", "torn", "whole"}]
    /\ lock \in Processes \union {"free"} /\ tls \in BOOLEAN
    /\ conf \in Scopes \union {"none", "partial"}
    /\ target \in {"none", "partial", "ready", "blocked", "authorized"}
    /\ initialized \in BOOLEAN /\ app \in BOOLEAN
    /\ snapshots \in Seq(Snapshot) /\ Len(snapshots) <= MaxSnapshots
    /\ svc \in [Units -> {"active", "stopped"}] /\ excused \subseteq Units
    /\ runtime \in Contents /\ candidate \in Contents /\ previous \in Contents
    /\ intent \in {<<>>} \union (Versions \X Versions)
    /\ units \in 0 .. 2 /\ schedule \in Scopes \union {"none"} /\ timer \in BOOLEAN
    /\ attempt \in [success : 0 .. MaxSnapshots, last : {"none", "succeeded", "failed"}]

Everywhere(x) == [p \in Processes |-> x]

Init ==
    /\ command = Everywhere("none") /\ pc = Everywhere("idle") /\ source = Everywhere("none")
    /\ todo = Everywhere({}) /\ recovery = Everywhere({})
    /\ failing = Everywhere(FALSE) /\ scopeOf = Everywhere("none") /\ stage = Everywhere("none")
    /\ lock = "free" /\ tls = FALSE
    /\ conf = "none" /\ target = "none" /\ initialized = FALSE /\ app = FALSE
    /\ snapshots = <<>> /\ svc = [u \in Units |-> "active"] /\ excused = {}
    /\ runtime = "none" /\ candidate = "none" /\ previous = "none" /\ intent = <<>>
    /\ units = 0 /\ schedule = "none" /\ timer = FALSE
    /\ attempt = [success |-> 0, last |-> "none"]

Active == {u \in Units : svc[u] = "active"}

\* Between is_active being recorded and the last start of the finally block.
Capturing(p) == pc[p] \in {"stop", "copy", "copying", "start", "end"}

-----------------------------------------------------------------------------
(* Plausible mistakes, each a changed form of the definition it precedes;   *)
(* no specification uses them.                                              *)

\* fcntl.flock(lock,LOCK_EX|LOCK_NB): the timer and every command that changes something.
LockFree == lock = "free"

\* with context: the certificate lock is held for the whole capture.
TlsUnheld == tls
TlsHeld == TRUE

\* record_attempt(BASE/'last-attempt.json',result), with the identity of this backup.
AnyAttempt == [success |-> attempt.success, last |-> "succeeded"]
Succeeded == [success |-> Len(snapshots), last |-> "succeeded"]

\* The finally block starts what was stopped, whether or not the copy succeeded.
AfterSuccess(p, stopped) == IF failing'[p] THEN {} ELSE stopped
ToStart(p, stopped) == stopped

\* The intent is durable before the first rename and says what both directories hold.
ForgetIntent(p) == <<>>
Intent(p) == <<runtime, source[p]>>

\* if RUNTIME.exists(): a cut between the renames is resumed at the second one.
MustExist == intent # <<>> /\ runtime = intent[1]
Resumable ==
    /\ intent # <<>>
    /\ \/ runtime = "none"
       \/ runtime = intent[1] /\ previous = "none"
       \/ runtime = intent[2]

\* include(network_owner(owner),application): the network identity stays in the scope.
ApplicationOnly == "application"
Extended == "full"

-----------------------------------------------------------------------------
(* Moves of a process.                                                     *)

Go(p, step) ==
    /\ pc' = [pc EXCEPT ![p] = step]
    /\ UNCHANGED <<command, source, todo, recovery, failing, scopeOf, stage>>

\* A step of a loop over the units, and the one that follows when none are left.
Loop(p, step, left, after) == pc' = [pc EXCEPT ![p] = IF left = {} THEN after ELSE step]

\* The finally block.
Finally(p) ==
    /\ todo' = [todo EXCEPT ![p] = {}]
    /\ Loop(p, "start", recovery'[p], "end")

\* The process returns; its locks and its temporary directory go with it.
Return(p) ==
    /\ command' = [command EXCEPT ![p] = "none"] /\ pc' = [pc EXCEPT ![p] = "idle"]
    /\ source' = [source EXCEPT ![p] = "none"]
    /\ todo' = [todo EXCEPT ![p] = {}] /\ recovery' = [recovery EXCEPT ![p] = {}]
    /\ failing' = [failing EXCEPT ![p] = FALSE]
    /\ scopeOf' = [scopeOf EXCEPT ![p] = "none"] /\ stage' = [stage EXCEPT ![p] = "none"]
    /\ lock' = IF lock = p THEN "free" ELSE lock
    /\ tls' = (tls /\ ~Capturing(p))

\* An exception in a run: the timer records the failed attempt first.
Fail(p) == IF p = "timer" /\ command[p] = "run"
           THEN Go(p, "recordFailure") /\ UNCHANGED locks
           ELSE Return(p)

\* A copy that is being made while a unit runs has its clients' writes in it, or half of them.
Torn == [p \in Processes |-> IF stage[p] = "partial" THEN "torn" ELSE stage[p]]

-----------------------------------------------------------------------------
(* Preparing the node and the storage.                                     *)

\* configure: the profile names the prepared target's key; BASE must not exist.  A failure removes it again, a kill does not.
StartConfigure ==
    /\ command["operator"] = "none" /\ conf = "none" /\ target = "ready"
    /\ conf' = "partial"
    /\ command' = [command EXCEPT !["operator"] = "configure"]
    /\ pc' = [pc EXCEPT !["operator"] = "files"]
    /\ UNCHANGED <<source, todo, recovery, failing, scopeOf, stage, locks, storage,
                   program, plan, app, svc, excused, attempt>>

Configure ==
    /\ pc["operator"] = "files"
    /\ conf' \in {"network", "none"}
    /\ Return("operator")
    /\ UNCHANGED <<storage, program, plan, app, svc, excused, attempt>>

\* target prepare: whatever a cut leaves is refused by the next one.
PrepareTarget ==
    /\ target = "none"
    /\ target' \in {"partial", "ready"}
    /\ UNCHANGED <<process, locks, initialized, snapshots, program, plan, conf, app, svc, excused,
                   attempt>>

\* target authorize: one writer.  authorized_keys.new of a cut is in the way of the next.
Authorize ==
    /\ target = "ready" /\ conf = "network"
    /\ target' \in {"blocked", "authorized"}
    /\ UNCHANGED <<process, locks, initialized, snapshots, program, plan, conf, app, svc, excused,
                   attempt>>

\* initialize, under the operation lock; Restic refuses an existing repository.
Initialize ==
    /\ command["operator"] = "none" /\ conf \in Scopes /\ lock = "free"
    /\ target = "authorized" /\ ~initialized
    /\ initialized' = TRUE
    /\ UNCHANGED <<process, locks, target, snapshots, program, plan, conf, app, svc, excused,
                   attempt>>

InstallApplication ==
    /\ ~app
    /\ app' = TRUE
    /\ UNCHANGED <<process, locks, storage, program, plan, conf, svc, excused, attempt>>

-----------------------------------------------------------------------------
(* A command begins and takes the operation lock.                          *)

\* owned_schedule: schedule.json names the network owner, also once the scope is full.
Owned == schedule = "network"

\* The program the timer starts: the runtime in place, read and verified.
Executable == Owned /\ runtime \in Versions

\* configured() passed.  What it returned before the lock is read again behind it.
Begin(p, name, step, version) ==
    /\ command[p] = "none" /\ conf \in Scopes
    /\ command' = [command EXCEPT ![p] = name] /\ pc' = [pc EXCEPT ![p] = step]
    /\ source' = [source EXCEPT ![p] = version]
    /\ UNCHANGED <<todo, recovery, failing, scopeOf, stage, tls, storage, program, plan, conf, app, svc,
                   excused, attempt>>

\* LOCK_NB: a busy lock ends the command before it did anything.
StartCommand(name, step, version) ==
    /\ LockFree /\ lock' = "operator"
    /\ Begin("operator", name, step, version)

StartRun == StartCommand("run", "check", "none")
StartInclude(v) == StartCommand("include", "include", v)
StartEnable(v) == initialized /\ StartCommand("enable", "enable", v)

TimerFires ==
    /\ timer /\ Executable
    /\ Begin("timer", "run", "lock", "none") /\ UNCHANGED lock

TimerLocks ==
    /\ pc["timer"] = "lock" /\ LockFree
    /\ lock' = "timer"
    /\ Go("timer", "check")
    /\ UNCHANGED <<tls, storage, program, plan, conf, app, svc, excused, attempt>>

\* The run is skipped, not failed.
TimerBusy ==
    /\ pc["timer"] = "lock" /\ ~LockFree
    /\ Return("timer")
    /\ UNCHANGED <<storage, program, plan, conf, app, svc, excused, attempt>>

-----------------------------------------------------------------------------
(* A backup.                                                               *)

\* backup_now and the head of capture: the units that are active are recorded.
Check(p) ==
    /\ pc[p] = "check"
    /\ ~(app /\ conf = "network")
    /\ ~tls
    /\ tls' = TlsHeld
    /\ scopeOf' = [scopeOf EXCEPT ![p] = conf]
    /\ todo' = [todo EXCEPT ![p] = Active]
    /\ Loop(p, "stop", Active, "copy")
    /\ UNCHANGED <<command, source, recovery, failing, stage, lock, storage, program,
                   plan, conf, app, svc, excused, attempt>>

\* Any check of backup_now or of capture: an application the scope does not cover,
\* a certificate operation in progress, a unit in transition.
CheckRefuses(p) ==
    /\ pc[p] = "check"
    /\ Fail(p)
    /\ UNCHANGED <<storage, program, plan, conf, app, svc, excused, attempt>>

\* recovery.append(name) comes first: a failed stop may still have stopped it.
Stop(p, u) ==
    /\ pc[p] = "stop" /\ u \in todo[p]
    /\ svc' = [svc EXCEPT ![u] = "stopped"]
    /\ recovery' = [recovery EXCEPT ![p] = @ \union {u}]
    /\ todo' = [todo EXCEPT ![p] = @ \ {u}]
    /\ Loop(p, "stop", todo'[p], "copy")
    /\ UNCHANGED <<command, source, failing, scopeOf, stage, locks, storage, program, plan, conf,
                   app, excused, attempt>>

BeginCopy(p) ==
    /\ pc[p] = "copy"
    /\ stage' = [stage EXCEPT ![p] = IF Active = {} THEN "partial" ELSE "torn"]
    /\ pc' = [pc EXCEPT ![p] = "copying"]
    /\ UNCHANGED <<command, source, todo, recovery, failing, scopeOf, locks, storage,
                   program, plan, conf, app, svc, excused, attempt>>

EndCopy(p) ==
    /\ pc[p] = "copying"
    /\ stage' = [stage EXCEPT ![p] = IF @ = "partial" THEN "whole" ELSE @]
    /\ UNCHANGED <<command, source, failing, scopeOf, locks, storage, program, plan, conf, app, svc,
                   excused, attempt>>
    /\ recovery' = [recovery EXCEPT ![p] = ToStart(p, @)]
    /\ Finally(p)

\* An exception in the try block, SystemExit included.
Unwind(p) ==
    /\ failing' = [failing EXCEPT ![p] = TRUE]
    /\ stage' = [stage EXCEPT ![p] = "none"]
    /\ UNCHANGED <<command, source, scopeOf, locks>>

CaptureFails(p) ==
    /\ pc[p] \in {"stop", "copy", "copying"}
    /\ Unwind(p)
    /\ IF pc[p] = "stop"
       THEN \E u \in todo[p] :
                /\ svc' \in {svc, [svc EXCEPT ![u] = "stopped"]}
                /\ recovery' = [recovery EXCEPT ![p] = ToStart(p, @ \union {u})]
       ELSE recovery' = [recovery EXCEPT ![p] = ToStart(p, @)] /\ UNCHANGED svc
    /\ Finally(p)
    /\ UNCHANGED <<storage, program, plan, conf, app, excused, attempt>>

\* Every unit is tried; one that does not come up makes the run report it.
Start(p, u) ==
    /\ pc[p] = "start" /\ u \in recovery[p]
    /\ \/ svc' = [svc EXCEPT ![u] = "active"] /\ UNCHANGED <<failing, excused>>
       \/ /\ failing' = [failing EXCEPT ![p] = TRUE]
          /\ excused' = excused \union {u} /\ UNCHANGED svc
    /\ recovery' = [recovery EXCEPT ![p] = @ \ {u}]
    /\ Finally(p)
    /\ UNCHANGED <<command, source, scopeOf, stage, locks, storage, program, plan, conf, app, attempt>>

\* ServiceRecoveryError takes the place of an upload and of any other error.
EndCapture(p) ==
    /\ pc[p] = "end"
    /\ tls' = FALSE
    /\ IF failing[p]
       THEN IF p = "timer" THEN Go(p, "recordFailure") /\ UNCHANGED lock
                           ELSE Return(p)
       ELSE Go(p, "upload") /\ UNCHANGED lock
    /\ UNCHANGED <<storage, program, plan, conf, app, svc, excused, attempt>>

\* Restic stores the snapshot at once or not at all.
Store(p) ==
    /\ Len(snapshots) < MaxSnapshots
    /\ initialized /\ target = "authorized"
    /\ snapshots' = Append(snapshots, [whole |-> stage[p] = "whole", scope |-> scopeOf[p],
                                       due |-> conf, by |-> p])
    /\ UNCHANGED <<target, initialized>>

Upload(p) ==
    /\ pc[p] = "upload"
    /\ Store(p)
    /\ IF p = "timer" THEN Go(p, "record") /\ UNCHANGED locks ELSE Return(p)
    /\ UNCHANGED <<program, plan, conf, app, svc, excused, attempt>>

\* The transport failed; what was stored before its answer was lost stays stored.
UploadFails(p) ==
    /\ pc[p] = "upload"
    /\ Store(p) \/ UNCHANGED storage
    /\ Fail(p)
    /\ UNCHANGED <<program, plan, conf, app, svc, excused, attempt>>

RecordAttempt ==
    /\ pc["timer"] = "record"
    /\ attempt' = Succeeded
    /\ Return("timer")
    /\ UNCHANGED <<storage, program, plan, conf, app, svc, excused>>

RecordFailure ==
    /\ pc["timer"] = "recordFailure"
    /\ attempt' = [attempt EXCEPT !.last = "failed"]
    /\ Return("timer")
    /\ UNCHANGED <<storage, program, plan, conf, app, svc, excused>>

-----------------------------------------------------------------------------
(* include-services, and refresh_runtime in it.                            *)

IncludeServices ==
    /\ pc["operator"] = "include"
    /\ app /\ Active = Units
    /\ schedule # "none" => Owned
    /\ Go("operator", IF schedule = "none" THEN "scope" ELSE "refresh")
    /\ UNCHANGED <<locks, storage, program, plan, conf, app, svc, excused, attempt>>

\* An interrupted transition is resumed from its own source only.  Otherwise the
\* candidate is made, unless it is there and whole.
Refresh ==
    /\ pc["operator"] = "refresh"
    /\ LET desired == source["operator"]
       IN \/ /\ intent # <<>> /\ intent[2] = desired /\ Resumable
             /\ Go("operator", CASE runtime = "none" -> "place" [] runtime = desired -> "settle"
                                 [] OTHER -> "away")
          \/ /\ intent = <<>> /\ runtime = desired
             /\ Go("operator", "scope")
          \/ /\ intent = <<>> /\ runtime \in Versions \ {desired} /\ previous = "none"
             /\ candidate \in {"none", desired}
             /\ Go("operator", IF candidate = "none" THEN "stage" ELSE "intend")
    /\ UNCHANGED <<locks, storage, program, plan, conf, app, svc, excused, attempt>>

\* create_runtime: a failure removes the directory, a kill leaves it partial.
StageCandidate ==
    /\ pc["operator"] = "stage"
    /\ candidate' = "partial"
    /\ Go("operator", "staging")
    /\ UNCHANGED <<locks, storage, runtime, previous, intent, plan, conf, app, svc, excused, attempt>>

FinishCandidate ==
    /\ pc["operator"] = "staging"
    /\ candidate' = source["operator"]
    /\ Go("operator", "intend")
    /\ UNCHANGED <<locks, storage, runtime, previous, intent, plan, conf, app, svc, excused, attempt>>

WriteIntent ==
    /\ pc["operator"] = "intend"
    /\ intent' = Intent("operator")
    /\ Go("operator", "away")
    /\ UNCHANGED <<locks, storage, runtime, candidate, previous, plan, conf, app, svc, excused, attempt>>

MoveAway ==
    /\ pc["operator"] = "away" /\ previous = "none"
    /\ previous' = runtime /\ runtime' = "none"
    /\ Go("operator", "place")
    /\ UNCHANGED <<locks, storage, candidate, intent, plan, conf, app, svc, excused, attempt>>

PutInPlace ==
    /\ pc["operator"] = "place" /\ candidate = source["operator"]
    /\ runtime' = candidate /\ candidate' = "none"
    /\ Go("operator", "settle")
    /\ UNCHANGED <<locks, storage, previous, intent, plan, conf, app, svc, excused, attempt>>

Settle ==
    /\ pc["operator"] = "settle" /\ runtime = source["operator"]
    /\ intent' = <<>>
    /\ Go("operator", "scope")
    /\ UNCHANGED <<locks, storage, runtime, candidate, previous, plan, conf, app, svc, excused, attempt>>

\* private_json(BASE/'configuration.json',dict(data,ownership=owner))
ExtendScope ==
    /\ pc["operator"] = "scope"
    /\ conf' = Extended
    /\ Return("operator")
    /\ UNCHANGED <<storage, program, plan, app, svc, excused, attempt>>

-----------------------------------------------------------------------------
(* schedule enable and disable.                                            *)

\* A schedule that is there is enabled again when it is owned and verified; without
\* one, anything left of an earlier attempt is refused.
Enable ==
    /\ pc["operator"] = "enable"
    /\ \E i \in 1 .. Len(snapshots) : conf = "full" => snapshots[i].scope = "full"
    /\ \/ schedule # "none" /\ Executable /\ Go("operator", "enabled")
       \/ schedule = "none" /\ runtime = "none" /\ units = 0 /\ Go("operator", "create")
    /\ UNCHANGED <<locks, storage, program, plan, conf, app, svc, excused, attempt>>

CreateRuntime ==
    /\ pc["operator"] \in {"create", "creating"}
    /\ runtime' = IF pc["operator"] = "create" THEN "partial" ELSE source["operator"]
    /\ Go("operator", IF pc["operator"] = "create" THEN "creating" ELSE "units")
    /\ UNCHANGED <<locks, storage, candidate, previous, intent, plan, conf, app, svc, excused, attempt>>

WriteUnits ==
    /\ pc["operator"] = "units"
    /\ units' = units + 1
    /\ Go("operator", IF units' = 2 THEN "schedule" ELSE "units")
    /\ UNCHANGED <<locks, storage, program, schedule, timer, conf, app, svc, excused, attempt>>

\* 'ownership':data['ownership'] is the whole scope, where owned_schedule compares
\* the network profile.
WriteSchedule ==
    /\ pc["operator"] = "schedule"
    /\ schedule' = conf
    /\ Go("operator", "enabled")
    /\ UNCHANGED <<locks, storage, program, units, timer, conf, app, svc, excused, attempt>>

EnableTimer ==
    /\ pc["operator"] = "enabled"
    /\ timer' = TRUE
    /\ Return("operator")
    /\ UNCHANGED <<storage, program, units, schedule, conf, app, svc, excused, attempt>>

\* Without the lock: a run in progress is allowed to finish.
Disable ==
    /\ command["operator"] = "none" /\ conf \in Scopes
    /\ timer /\ Executable
    /\ timer' = FALSE
    /\ UNCHANGED <<process, locks, storage, program, units, schedule, conf, app, svc, excused, attempt>>

-----------------------------------------------------------------------------
(* Failures.                                                               *)

\* include-services or schedule enable raises; create_runtime cleans up after itself.
Raise ==
    /\ command["operator"] \in {"include", "enable"} /\ lock = "operator"
    /\ candidate' = IF pc["operator"] = "staging" THEN "none" ELSE candidate
    /\ runtime' = IF pc["operator"] = "creating" THEN "none" ELSE runtime
    /\ Return("operator")
    /\ UNCHANGED <<storage, previous, intent, plan, conf, app, svc, excused, attempt>>

\* The units a run leaves stopped when it is cut here.
LeftStopped(p) == {u \in recovery[p] : svc[u] = "stopped"}

\* SIGTERM of the timer's run (SystemExit), SIGINT of the operator's: the capture
\* unwinds, but a finally block that is already starting units is left where it is.
Interrupt(p) ==
    /\ command[p] = "run" /\ pc[p] \notin {"stop", "copy", "copying"}
    /\ excused' = excused \union LeftStopped(p)
    /\ IF p = "timer" /\ pc[p] \notin {"lock", "recordFailure"}
       THEN Go(p, "recordFailure") /\ tls' = (tls /\ ~Capturing(p)) /\ UNCHANGED lock
       ELSE Return(p)
    /\ UNCHANGED <<storage, program, plan, conf, app, svc, attempt>>

Kill(p) ==
    /\ command[p] # "none"
    /\ excused' = excused \union LeftStopped(p)
    /\ Return(p)
    /\ UNCHANGED <<storage, program, plan, conf, app, svc, attempt>>

\* The units are enabled.  The unlink of the intent is not synced: it may come back.
Reboot ==
    /\ command' = Everywhere("none") /\ pc' = Everywhere("idle") /\ source' = Everywhere("none")
    /\ todo' = Everywhere({}) /\ recovery' = Everywhere({})
    /\ failing' = Everywhere(FALSE) /\ scopeOf' = Everywhere("none") /\ stage' = Everywhere("none")
    /\ lock' = "free" /\ tls' = FALSE
    /\ svc' = [u \in Units |-> "active"] /\ excused' = {}
    /\ intent' \in {intent} \union IF previous \in Versions /\ runtime \in Versions
                                   THEN {<<previous, runtime>>} ELSE {}
    /\ UNCHANGED <<storage, runtime, candidate, previous, plan, conf, app, attempt>>

\* A unit comes up, and its clients write.
Up(u) ==
    /\ svc' = [svc EXCEPT ![u] = "active"] /\ excused' = excused \ {u}
    /\ stage' = Torn
    /\ UNCHANGED <<command, pc, source, todo, recovery, failing, scopeOf>>

\* The operator starts a unit that was left stopped.
Recover(u) ==
    /\ \A p \in Processes : ~Capturing(p)
    /\ u \in excused
    /\ Up(u)
    /\ UNCHANGED <<locks, storage, program, plan, conf, app, attempt>>

\* A certificate renewal restarts the unit that serves it, under its lock.
Renew(u) ==
    /\ ~tls
    /\ Up(u)
    /\ UNCHANGED <<locks, storage, program, plan, conf, app, attempt>>

-----------------------------------------------------------------------------

Proceed(p) ==
    \/ Check(p) \/ CheckRefuses(p) \/ BeginCopy(p) \/ EndCopy(p)
    \/ EndCapture(p) \/ Upload(p)
    \/ \E u \in Units : Stop(p, u) \/ Start(p, u)

\* What only the operator's commands and only the timer's run do.
Administer ==
    \/ Configure \/ IncludeServices \/ Refresh \/ StageCandidate \/ FinishCandidate \/ WriteIntent
    \/ MoveAway \/ PutInPlace \/ Settle \/ ExtendScope
    \/ Enable \/ CreateRuntime \/ WriteUnits \/ WriteSchedule \/ EnableTimer

Scheduled == TimerLocks \/ TimerBusy \/ RecordAttempt \/ RecordFailure

Prepare ==
    \/ StartConfigure \/ PrepareTarget \/ Authorize \/ Initialize \/ InstallApplication
    \/ StartRun
    \/ \E v \in Versions : StartInclude(v) \/ StartEnable(v)

Next ==
    \/ Prepare \/ Administer \/ Scheduled \/ Disable \/ TimerFires
    \/ \E p \in Processes : Proceed(p) \/ CaptureFails(p) \/ UploadFails(p) \/ Interrupt(p) \/ Kill(p)
    \/ Raise \/ Reboot
    \/ \E u \in Units : Recover(u) \/ Renew(u)

Spec == Init /\ [][Next]_vars

(* Fairness.  A process goes on, a step that cannot succeed raises, the     *)
(* operator starts units left stopped, and repeats a cut update of the      *)
(* backup program from the same source, as its message asks.                *)
FairSpec ==
    /\ Spec
    /\ WF_vars(Administer \/ Raise) /\ WF_vars(Scheduled)
    /\ \A p \in Processes : WF_vars(Proceed(p) \/ UploadFails(p))
    /\ SF_vars(\E u \in Units : Recover(u))
    /\ SF_vars(\E v \in Versions : intent # <<>> /\ intent[2] = v /\ StartInclude(v))
=============================================================================
