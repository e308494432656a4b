# Verification of resilient-datacenter

TLA+ models of the stateful parts of this repository, TLC configurations that
check them on small instances, and TLAPS proofs. Everything modelled is Python
under `src/scripts`; paths below are relative to that directory unless they
start with another one.

## The system

A small institution runs one or more machines: a *controller* (headscale), a
*relay* (DERP), *peers* and *portable* machines that carry one application each
(`matrix`, `nextcloud` or the regional `gateway`). One `rdc` command prepares,
installs, backs up, restores, upgrades and connects them. The commands are run
by an operator and are short-lived; systemd keeps the services, a few timers
and the guards running between them. What is hard is not load but
*interruption*: every command changes several directories, units, firewall
tables and markers in sequence, may be killed between any two of them, and must
leave behind a state from which a later command or a boot can go on.

| part | state it keeps | operations | hard behaviours | modules |
|---|---|---|---|---|
| restore transaction (`restore_transaction`, `restore_runtime`) | pending marker, journal, isolation record, nftables table, permit, retained directories | apply, recover; startup guard | interruption between any two steps, reboot, a rollback that fails, clients let in before the marker is gone | `RestoreTransaction`, `FencedSwitch` |
| upgrade transaction (`upgrade_transaction`, `upgrade_runtime`, `upgrade_files`) | the same, and the backup's scope and helpers | apply, recover | as for a restore, with a backup inside the transaction and one after it | `UpgradeTransaction`, `FencedSwitch` |
| gateway policy and recovery (`gateway_store`, `gateway_transition`, `gateway_runtime`, `gateway_operations`, `gateway_recovery`) | policy, pending candidate, clock record, review and floor, nftables set, proxy | change, certificate, run, guard; suspension by a restore | three processes that share one store; expiry; a clock set back; replay from an old snapshot | `GatewayPolicy` |
| certificates (`certificate_lifecycle`, `service_certificates`, `nextcloud_certificates`, `service_issuer`) | generations, `active` and `previous`, issued lineage, renewal program | issue, install, enable, renew, replace | a cut between two links, failed verification, rollback, pruning | `Certificates` |
| frontend of a portable site (`portable_application_install`, `portable_frontend_runtime`) | generations by digest, `active`, the unit | install, renew | a renewal killed anywhere and repeated | `FrontendRenewal` |
| installation (`service_operations`, `nextcloud_operations`, `portable_application_install`, `gateway_operations`) | owned files, database, first configuration, units | install or resume | a kill in a write, in `initdb`, in the first configuration; a power cut between units | `ApplicationInstall` |
| enrollment (`local_node`, `local_enrollment`, `local_checks`, `profile_status`) | ownership record, networking client | apply, enroll, status | two separate reads, a controller that approves late, expired keys | `LocalEnrollment` |
| backup (`backup_operations`, `backup_snapshot`, `backup_schedule`, `backup_transport`, `backup_target`) | configuration, locks, repository, schedule, program copy, attempt record | prepare, configure, initialize, run, include, schedule, update; the timer's run | services paused while they are copied, an operator's run against the timer's, a program that replaces itself | `Backups` |
| replacement of a node (`backup_bootstrap`, `restore_evidence`) | staged folders, marker, evidence | stage and apply the identity, install, include, stage and restore the data, recover | a check long before the operator's phrase, two sessions | `NodeReplacement` |
| regional approvals (`regional_agreements`, `regional_workspace`, `regional_operations`) | one workspace per institution | approve, offer, accept, import, export, revoke | documents carried by hand: late, repeated, lost; two clocks | `RegionalApprovals` |
| regional connectors (`service_link`, `service_regional`, `nextcloud_link`, `nextcloud_regional`) | pending, disabled, configuration; what the units have loaded | attach, disable, a start under a marker | a cut anywhere; data replaced underneath | `ServiceConnector` |
| guests of a portable site (`proxmox_provision`, `guest_upload`, `guest_installation`, `proxmox_api`) | journals, upload record, the host's guests and volumes | allocate, upload, attach, start, finish, boot, confirm | requests executed late or never, answers lost, a console beside the program | `GuestProvisioning` |
| preparation (`setup_wizard`, `product_journey`, `portable_wizard`, `portable_site`, `portable_kit`, the bundle writers) | drafts, prepared folders with a record, plans | answer, back, save, resume, prepare, verify | answers that change which questions are asked; a killed or concurrent writer | `SetupWizard`, `JourneyWizard`, `SitePlan`, `PreparedFolder` |
| status (`status_probe`, `product_status`) | none | one report by six workers | conditions that mask each other, or change between two workers | `NodeStatus` |
| command line (`rdc`, `product_guide`) | none | parse, menu, guide, dispatch, exit status | what a script reads of an outcome | `CommandLine` |
| releases, Ansible deployment, acceptance drivers | none of their own | | | not modelled |

How they interact: `backup_operations.action` serialises backup, restore and
bootstrap with one lock; restore and upgrade share the permit, the fence and the
startup guard (`restore_runtime.guard_script` looks at both markers) and both
suspend the regional connector; a capture takes the lock certificate renewal
takes; an upgrade takes a backup before it moves anything and after it
committed; a restore of a gateway holds the gateway's store lock and suspends
its policy until reviewed; installing, including, restoring and upgrading each
refuse to start while a marker of another is pending. Between machines nothing
is called: institutions exchange files, guests are reached through the host's
API, nodes through their controller.

What is composed. `RestoreTransaction` and `UpgradeTransaction` contain the
guard, fence and units they share, and both implement `FencedSwitch`.
`GatewayPolicy` contains the certificate activation and the restore that act on
the same store. `Backups` contains the certificate lock, the installation that
extends the scope, and two processes. `NodeReplacement` composes staging,
installation, inclusion, restoration and evidence. `Node` and `Operator` put
the remaining components beside each other (`MCNode` and `MCOperator` give them
their instances): these share no file and no process,
so no interleaving of two of them differs from the two alone, and a variable
`focus`, chosen in the initial state, says which one is explored.

What makes each part correct is the heading of each section below.

## All runs

| run | module | distinct states | shows |
|---|---|---|---|
| `restore` | `MCRestoreTransaction` | 98 344 | a restore keeps its promises under every interruption, and implements the fenced switch |
| `restore_wedge`, `restore_permit`, `restore_claim` | same | violated | three disagreements with what the code or its docs say |
| `gateway` | `MCGatewayPolicy` | 319 020 | no revoked, expired, replayed or unreviewed partner passes |
| `gateway_race`, `gateway_wedge` | same | violated | two disagreements |
| `upgrade` | `MCUpgradeTransaction` | 7 608 | an upgrade keeps a restore's promises, and its backups |
| `backup` | `MCBackups` | 315 292 | consistent snapshots, services that come back, truthful records |
| `node` | `MCNode` | 239 178 | certificates, frontend, installation, enrollment |
| `operator` | `MCOperator` | 877 259 | approvals, connectors, guests, preparation, status, replacement, command line |
| `journey_save` | `JourneyWizard` | violated | one disagreement |

The violated runs are listed with their quotations in `PROJECT.json` and
explained in the section of their component.

Deadlock is checked in the first five modules, where something can always
happen. `MCNode` and `MCOperator` switch it off: an installation, a
registration, a wizard, a process that has exited, a folder that was written
really stop. What must come to an end there is said by a liveness property
(`node`) or by what is true in the end (`operator`).

## Restore transaction

### Modules

* `FencedSwitch` -- the abstract specification: while a transaction is busy it
  may hide the installation, switch the copy of record from original to
  replacement once, while hidden, and show the copy of record again. Clients may
  write to a shown replacement.
* `RestoreTransaction` -- `restore_transaction.py` with `restore_runtime.py`,
  one action per durable effect.
* `RestoreProperties` -- the invariants, action properties, the refinement
  mapping and the liveness properties.
* `MCRestoreTransaction` -- constants for TLC.
* `RestoreTransaction_proofs` -- the inductive invariant and the theorems.

### State and actions

`pending`, `record` and `journal` are the files under `/etc` and the transaction
directory; `table` and `permit` are lost at a reboot; `live[p]` is what an owned
path holds and `old[p]` what the workspace retains for it; `svc` is the state of
every unit. The process in memory is `op` (which command), `goal` (what its
steps lead to: promote the candidate, roll back, or settle a decided
transaction), `pc` (the next step) and `todo` (what a loop has not visited).
`claim` is the last outcome told to the operator, for the properties only.

`apply` is `StartApply`, `WriteMarker`, the fence (`WriteRecord`, `LoadTable`,
`Seal`), `Stage`, `Stop`, `SwapOut` and `SwapIn` per path, `SaveValidating`,
`AllowValidation`, `Start`, `Verify`, `Commit`. `finish` is `Withdraw`,
`Unfence`, `Release`, `Clean`, `RecordEvidence`, `Unmark`. `rollback` is `Stop`,
`Remove` and `PutBack` per path, `AllowValidation`, `Start`, `Verify`,
`SaveRolledBack`, `finish`. `recover` is `StartRecover`, the fence and
`Branch`. `Raise` gives every step of the process a way to fail, with the five
different things the code then does; `Interrupt` is a keyboard interrupt the
code catches, `Kill` one it does not. The environment is `Reboot`,
`ServiceCrash`, `AutoRestart` and `ClientWrite`.

Three details are easy to overlook and are in the model. The unlinks of the
record and of the marker are not followed by a sync of `/etc`, so a power loss
may bring both, or the marker alone, back (`unsynced`). `verify` asks for every
service while `rollback` starts only those that ran before. And
`journal['phase']` is assigned before it is saved, which decides what the
exception handler does.

Abstractions: staging builds a directory nobody looks at until it is renamed, so
it is one step; `missing` stands for an absent or half-removed directory; the
order in which services and paths are visited is left open, which only adds
behaviours. The checks of ownership, mode and binary hashes before anything is
changed are steps that may raise.

### Runs

| run | question | result |
|---|---|---|
| `restore` | all safety properties, the refinement, and that a pending transaction settles once faults stop if it found all services running or all down; two services, two paths, renewal timer present | holds |
| `restore_wedge` | that it settles without that condition | violated |
| `restore_permit` | no unattended startup while a transaction is pending | violated |
| `restore_claim` | a restore reported committed is committed | violated |

Two paths are the least for which a swap can stop half-way with one path
replaced and one not, and two services the least for which some run and some do
not; neither loop depends on more than "some left" and "none left". Nothing is
counted, so nothing else is bounded: transactions follow one another without
end.

### Fairness

`FairSpec` says that a running process goes on, or raises where its own check
refuses (a Python process is scheduled and every call in it has a timeout), and
that the operator runs `restore-recover` while a transaction is pending, which
every message of the code asks for. Nothing obliges a restore to be started, a
client to write, or a service to restart. The liveness properties assume that
faults -- kills, reboots, service crashes, failing calls -- eventually stop
(`<>[][~Fault]_vars`): if they never do, no code settles anything.

### What the violated runs show

* `restore_wedge`: a restore begins with the proxy running and the database
  stopped. It fails, `rollback` starts the proxy only, `verify` refuses because
  the database is down, and `restore-recover` repeats exactly this. The data is
  back in place and the fence is up, but the transaction never settles.
* `restore_permit`: `restore-recover` creates the permit, a service fails to
  start, the exception leaves the function. The permit stays, and from then on
  systemd restarts units by itself although the marker is there. The fence keeps
  clients away (`ServedDecided` holds), so it is the promise in
  `docs/backups.md` that fails, not the isolation.
* `restore_claim`: writing the journal fails at the very last save. The message
  tells the operator not to roll back; the next `restore-recover` reads
  `validating` and does. No client has seen the data in between.

### Proofs

`RestoreTransaction_proofs` proves, for any non-empty sets of services and
paths, every property of the `restore` run, the refinement included. None of
them is inductive. The invariant `Inv` has six layers on top of the types, each
proved by one lemma with one step per action, using the layers before it:

* `Control` -- which steps go with which command and goal;
* `Fence` -- while the process is past `Seal` and before `Unfence` the table and
  its record are there, and either implies the marker;
* `Phase` -- which journal phases go with which steps;
* `Progress` -- what each path and its `old` hold at each step, by whether the
  loop has visited it, and at rest by the journal's phase;
* `Guarded` -- data that is not settled (all original, or all replaced under a
  committed journal) is behind the marker, and either fenced or without any
  running service, because the guard refuses without a permit;
* `Reported` -- what a claim implies.

The property theorems follow from `Inv` without any further induction; the
action properties and the refinement look at each action once more.

### Only model-checked

The liveness properties, `UniformSettles` and `RecoverySettles`: the proof
system does not handle fairness. Everything else about this component that is
checked is also proved.

### Not modelled

The truncation of one-time keys before Synapse starts (between two steps that
are modelled). The content of directories, certificates and the nftables rules:
a rule set is there or not. What a restore does to a gateway's policy is in
`GatewayPolicy`.

## Gateway policy

### Modules

* `GatewayPolicy` -- the store, the three processes that use it, the firewall,
  the clock.
* `GatewayProperties` -- what may pass, and what must come to pass.
* `MCGatewayPolicy` -- two agreements with different lives.
* `GatewayPolicy_proofs` -- the inductive invariant and the theorems.

### State and actions

The files: `policy` is `state.json`, `pending` `pending.json`, `certIntent` the
certificate marker, `latest` `clock.json`, `floor` and `review` the recovery
record beside the store, `restoring` the restore's marker, `aside` what the
restore keeps in its workspace (the candidate before the swap, the retained
policy after it), `snapshot` what the last backup holds. The kernel: `firewall`
gives every partner the seconds its set element has left. The proxy: `config` is
`envoy.json`, `serving` what the running proxy has loaded, `unit` and `seen` how
far `gateway_runtime.main('run')` has come and the policy it has read.

Three processes interleave.

* *The operator's command* holds the store's lock: `op` and `pc`. A change is
  `gateway_transition.apply` statement by statement (`ChangeCloses` ..
  `ChangeFinishes`; `ChangeFails` is its handler, entered from any step, with
  the closing that works or does not). A certificate replacement is
  `activate_certificate`; `CertificateReturns` is the return to the previous
  generation. A restore has the steps in which the policy takes part: `Suspend`,
  `RestoreCloses`, `Stage`, `Quiesce`, `Swap`, `PutBack`, `StartUnits`,
  `RestoreFinishes`.
* *The unit's start* holds no lock: `UnitStarts` (close, boundary and clock
  checks), `UnitLoads` (read the policy, write the configuration), `UnitChecks`
  (look at the markers), `UnitOpens`, `UnitLaunches`. systemd repeats it.
* *The guard* runs while the lock of the *current* directory is free: during a
  restore, after the swap, the lock file held is that of the directory moved
  away, and `LockFree` says so.

The environment passes time (`Tick`, at which the kernel drops expired
elements), sets the clock to any time (`SetClock`), kills the command, fails the
unit, and reboots.

Abstractions. An agreement is a value with the three times the code compares,
and each is with another partner, so addresses and domains never clash. The
guard's run is one step: everything it reads is protected by the lock it holds,
except what a unit's start does beside it. The permit of a restore is taken to
be there whenever the marker is, which lets the gateway start more often than it
may. The commit and the end of a restore are one step, and its staged data other
than the policy are left to `RestoreTransaction`. A backup's capture is one step
under the lock; that it stops the units and starts them again is covered by
`UnitFails` and the unit's start. Checks of profile, network, image and
ownership are steps that may fail.

### Runs

| run | question | result |
|---|---|---|
| `gateway` | types; only selected and unrevoked, fresh and reviewed partners pass; revocations and the floor are final; the guard and the operator settle things once faults stop | holds |
| `gateway_race` | no partner of the old policy passes when the new one is committed | violated |
| `gateway_wedge` | a pending restore of a gateway is settled however far it had come | violated |

Bounds: `MaxTime` 2 and `MaxGeneration` 2. The early agreement is signed before
the clock starts, so that every floor refuses it, and its firewall entry ends at
the tick; the late one becomes valid at the tick and satisfies every floor. Two
generations allow a change and then a restore of an older policy, or a change
that supersedes another; one snapshot is taken, restored any number of times as
the generations allow. The clock may be behind, at or ahead of `latest`.

### Fairness

A command proceeds, or fails where the code's own check refuses (`Refused`: the
clock, `open`'s checks, the review, a unit that cannot start); the unit and the
guard are run by systemd; the operator repeats `restore-recover` while the
marker is there. `Calm` says that requests, kills, reboots, failures that no
check explains and settings of the clock stop. Under it `GuardSettles` says that
firewall and store come to agree, and `SuspendedSettles` that a restore which
had suspended the policy is settled, if the clock is not behind its checkpoint.

### What the violated runs show

* `gateway_race`: the host boots, the unit's start finds no marker; before it
  opens, the operator's change journals its intent and closes; the start opens
  for the old policy and launches; the change commits. The old partners pass
  until the change restarts the unit. `AdmitsSelected` holds: by the time the
  change is done they do not.
* `gateway_wedge`: a restore writes its marker and fails, or is killed, before
  `begin_restore`. `restore-recover` puts everything back and starts the
  gateway, and `check_restore_boundary` refuses, because the marker is there and
  no review is pending. The gateway stays closed and the marker stays, however
  often the recovery is repeated. `SuspendedSettles` is the part that holds.

Two smaller things were noticed and have no run. The value `policy_time` returns
is thrown away when the unit starts, and the firewall's timeouts come from a
second reading of the clock, so a clock set back between the two is not noticed.
And the proxy's routes are computed when its configuration is written: an
agreement that only becomes valid later is let through the firewall by the guard
and routed at the next restart.

### Proofs

`GatewayPolicy_proofs` proves all five safety properties of the `gateway` run
for any set of agreements, any times of theirs and any bounds, from the
assumptions that an agreement is issued before it is accepted and accepted
before it expires. The invariant `Inv` adds four layers to the types:

* `Control` -- which steps go with which command, that a restore runs under its
  marker and a change under its intent and never both, and that a change past
  its commit has committed what it journalled;
* `History` -- the journalled candidate, the current policy, the one kept aside
  and the snapshot are ordered by what they know of the revocations. Without it
  `RevocationFinal` is not inductive: a rollback could bring back anything;
* `Routing` -- from the restart on, what the unit has loaded or serves is
  selected by the policy in force, and the policy is swapped only under a
  stopped unit;
* `Closed` -- under review the firewall is shut and no start that has passed its
  checks is still on its way to open it; otherwise every entry is of a fresh
  agreement.

Each layer has one lemma with one step per action that can disturb it.

### Only model-checked

`GuardSettles` and `SuspendedSettles`: liveness.

### Not modelled

The archive of the DNS issuer, the certificate generations on disk
(`Certificates` has those of the other services), and the HTTP routes.
Installation is in `ApplicationInstall`, `status` in `NodeStatus`.

## Upgrade transaction

*Clients see one decided version; nothing moves before a whole backup; the
backups follow the version; a pending upgrade settles.*

`UpgradeTransaction` has the variables of `RestoreTransaction` with the same
meaning and four for the backups: `captured` (the journal's own backup), `scope`
(the version `configuration.json` names), `helpers` (the installed backup
helpers) and `targetSaved`. `apply` is `StartApply`, `WriteMarker`, `Stop`,
`AllowSnapshot`, `Capture`, `Compare`, `SaveMigrating`, `SwapOut` and `SwapIn`,
the fence, `Install`, `AllowValidation`, `Start`, `Verify`, `Commit`; `finish`
is `SetScope`, `RefreshHelpers`, `Withdraw`, `Unfence`, `Release`, the second
backup (`AllowTarget`, `Pause`, `Resume`, `Upload`), `Clean`, `RecordResult`,
`Unmark`, `Sync`; `rollback` and `recover` follow the restore's. `Raise`,
`Interrupt` and `Kill` end any step, with what the code's handlers do. An
interrupt inside `apply`'s own rollback is caught by nobody and is a `Kill`.

Run `upgrade`: two units, two paths, for the reasons given for a restore. The
refinement `ImplementsSwitch` is the same abstract `FencedSwitch`, with "the
journal says committed" for the moment of decision. `UpgradeSettles` holds
without the condition a restore needs: `recover` starts every unit it verifies.

The invariant proved is layered as the restore's is (`Control`, `Fence`,
`Phase`, `Progress`, `Guarded`, `Reported`). What it adds to the properties:
until the decision the data that moves is behind the fence, or its units are
down without the permit (`Guarded`), although the fence is raised only after the
move; no step leaves the permit behind unless it was cut (`Reported`); and a
client that reaches the data reaches no path that was migrated and not committed
(`ReachedDecided`), on which the refinement rests.

`FairSpec`: the process goes on or its own check raises; the operator repeats
`upgrade recover` while the marker stands, as every message says. Faults (kills,
reboots, unexplained failures) stop eventually.

Seen while modelling, without a run of their own: when saving "committed" fails,
the message says committed although `recover` will roll back (as in
`restore_claim`); a kill during the capture leaves a plaintext `snapshot-*`
directory nothing removes; after a commit with a failing backup target the
services run, but a reboot keeps them down until `recover`.

Not modelled: the catalogue of image sets, the commands of the schema migration,
the network unit (which only the capture stops), the file service's background
job.

## Backups

*A snapshot is consistent and of the scope that was due; a paused service comes
back or is reported; the record of scheduled runs is truthful; the program that
runs them survives its own replacement.*

`Backups` has two processes, the operator's command and the timer's run, each
with a command, a step, the units it has `todo` to stop and the ones in
`recovery` to start again. The capture is `Check`, `Stop`, `BeginCopy`,
`EndCopy`, `Start`, `EndCapture`, then `Upload` under the operation lock. `tls`
is the certificate lock, which the capture and a renewal (`Renew`) exclude each
other by; a copy made while a unit runs, or comes up, is torn. The program is
`runtime`, replaced through `candidate` and `previous` by two renames under
`intent`. `excused` records for the properties which stopped units a run
reported or was itself cut while starting.

Run `backup`: two units (one may be started again while the other is not), two
versions of the program (the least for a replacement), `MaxSnapshots` 2 (one of
each process, or one of each scope).

`FairSpec`: processes go on, and the operator starts the units that a run
reported as stopped and repeats the command that was cut from the same source.
These two are strongly fair: a capture, or a lock that the timer holds, is in
their way now and then, never for good.

Hazards the code does not survive and the model contains: SIGTERM inside the
`finally` that starts the units again leaves the rest stopped, although the
handler at `backup_runner.py:11` exists for that block (`NoSilentOutage` excepts
exactly this cut); and `schedule enable` after `include-services` stores the
full scope as the owner, so that every scheduled run, status, repeated enable
and disable is refused, in the order `docs/matrix-services.md:87` and
`docs/nextcloud-services.md:61` prescribe (no property claims that an enabled
schedule runs). A kill while the program is first copied, and one while the
target or the configuration is prepared, leave something every later attempt
refuses.

`Backups_proofs` proves the five invariants of the run for any units, versions
and bound. None is inductive; `Inv` adds to them and the types:

* `Control` and `Locked` -- which steps go with which command, and that who is
  beyond the lock holds it: the two processes are never both there;
* `Certified` -- the certificate lock is held exactly while a capture runs,
  which keeps a renewal from restarting a paused unit;
* `Paused` -- what a capture has stopped stays down until it has copied, and is
  in the list of what it starts again (`SnapshotsSound`, `NoSilentOutage`);
* `Recorded` -- the timer records the snapshot it has just stored;
* `Replacing` -- without an intent the program is in place, with one both
  versions are where it says, and how far the command has got between.

Only model-checked: `UpdateSettles` (liveness; its `Calm` uses ENABLED).

Not modelled: the schedule's frequency, the content of what is copied, the
account's SSH configuration, versions mixed by the timer's lazy imports.

## Certificates and the frontend

*Both links always name a whole certificate; what is reported is what is served;
a failed activation leaves the one it found; renewals arrive.*

`Certificates` is one command at a time, as the operation lock makes it: `tls`
holds the generations, the two links and their temporary names, `issuer` the
lineage, the renewal program under its durable intent and the timer. `activate`
is `Compare`, `MakeGeneration`, `FillGeneration`, `LinkTarget`, `PointTarget`,
`Restart`, then either `KeepLink`, `KeepPoint`, `Prune` or `LinkBack`,
`PointPreviousBack`, `RestartBack`. `Refuse` is any check that fails.

`FrontendRenewal` is the frontend's own activation, which verifies nothing
before it has switched: `Fill`, `Filled`, `Look`, `Switch`, `RestartWorks` or
`RestartFails`, `Rollback`, `RestartOld`.

Both are in run `node`: three certificates, so that one is active, one previous
and one new, and pruning has something to remove; for the frontend two materials
that work and one the listener refuses, `MaxFaults` 3.

Fairness: the process goes on; the timer's run is strongly fair (an operator's
command may hold the lock each time it fires). `RenewalArrives` excepts what the
code really leaves behind: a kill while a generation is filled makes that same
certificate refused until another one is issued, and a stray `active.new` or
`previous.new` refuses every later activation. Two more of this kind: a kill
between the issuer's directory and its record makes every later `issue` refuse
it (`service_issuer.py:194`), and a frontend renewal that was killed after its
switch, repeated with material the listener refuses, is not rolled back, because
the link already names it. `RestsOnProven` says what holds: an installed
frontend whose last command was not killed rests on material it came up with.

`Node_proofs` proves `CertificatesWhole` and `FailureKeepsOld` for any
certificates. `CertificateInv` says which steps go with which command
(`Commanded`), where an activation has got to with the link and which
generations it relies on (`Activating`: the one it came from stays whole, or a
rollback would have nothing to return to), and that what was verified is what is
served (`Verified`). `FrontendInv` does the same for the frontend: the
generations behind its step (`FrontendLinked`) and what it has come up with
(`FrontendProven`).

Not modelled: what a certificate must contain (any may be refused), the
provider's token, packages, file modes.

## Installation

*Whatever was cut and repeated, the credentials on disk open the database, and
nothing is served before it is prepared.*

An installation is a list of steps that survive (`MatrixSteps`,
`NextcloudSteps`, `FrontendSteps`, `GatewaySteps`), which one command runs from
the beginning each time: a file that has the wanted content is kept (`Keep`),
another is refused (`RefuseFile`), a missing one is written (`BeginWrite`,
`EndWrite`; or in one rename, `WriteAtomic`). `Systemd` starts what was asked,
in the order of the units' dependencies; the firewall table goes with a
`PowerCut`, enabled units come back.

In run `node`: four applications, two credentials that may be drawn, `MaxCuts` 3
(a kill, a failure and a power cut of one installation).
`InstallResumes` says that repeating completes it unless it is `Wedged`, and
`Wedged` lists what no repetition gets over although the docs promise
resumption: a torn file or first configuration, a base directory without its
marker, a database whose `initdb` was killed. A gateway whose store was cut
half-way is one of them: `preflight` reads the store's profile before
`initialize` could resume from its own intent.

Fairness: the operator repeats, the command and systemd go on.

`InstallSound` is proved in `Node_proofs` for any credentials and cuts, over
the plans of all applications at once: the proofs speak of steps that are past
(`Past`), never of positions. `InstallInv` says that only what is being written
is partial (`InstallWriting`), that the credentials on the disk are the
command's and there before anything is made of them (`InstallCredentials`), that
the identity is taken from the first configuration before that goes
(`InstallIdentified`), and that the proxy is asked for last
(`InstallPrepared`).

Not modelled: rendered contents, images, accounts, the background job, the
temporary file a killed atomic write leaves behind.

## Enrollment

*Enrolled is said only of the client that was asked for, and no client is taken
from another controller.*

`LocalEnrollment`: a command sees the client in two reads (`ReadStatus`,
`ReadPreferences`), and between them the client registers (`Register`), its
administrator approves (`Approve`, `Authorize`), a key expires, the machine
restarts. In run `node`, `MaxFaults` 3. The one interleaving left out is a key
that expires and is approved again between the two reads of one check. Liveness:
the commands are repeated and the administrator answers; `Elsewhere` is what
only an administrator resolves (another owner's record, another controller's
client, another name, a stopped client). `EnrolledAsAsked` is proved from
`ReadsAgree`: between its two reads the client changes only where the answer
does not depend on it, and a registration is asked for only when it takes no
client away.

## Replacement of a node

*The network identity of a snapshot is put in place only without an application,
the data never with another identity, and "service-verified" is true.*

`NodeReplacement` has one session that runs the five commands of a recovery and
another that installs the application and extends the backups in between. A
session reads the configuration (`Ask`), takes the lock (`Lock`), stages
(`StageBootstrap`, `Derive`; `StageRestore`, `ValidateSnapshot`), reviews
(`ReviewBootstrap`, `PlanRestore`), waits for the operator's phrase and restores
(`Apply`, `Commit` or `RollBack`, `RecordEvidence`, `ClearMarker`); `CutSession`
ends it anywhere and `Recover` settles the marker. The restoration's moves are
one step (`RestoreTransaction` has them all), as are the other session's
installation and inclusion, which hold the lock.

In run `operator` with two snapshots of the application and one of the network,
so that the identity and the data can come from different ones.

Seen: a kill while staging leaves a folder for which the same snapshot is
refused for ever; and because the scope is read before the lock
(`backup_operations.py:248`, `:266`), a restore that read the smaller scope just
before `include-services` leaves, when it is cut, a marker whose scope
`restore-recover` refuses.

Proved, for any repository: `ReplacementTyped` and `ReplacementsSound`. The
invariant adds to the types where each step of a session leaves the marker
(`SessionMarker`), that the network alone is restored without an application
(`Alone`), that the scope only grows (`ScopeGrows`, without which an old session
could put a network snapshot over restored data) and what is in place
(`Restored`).

## Regional approvals and connectors

*No two parties hold different terms under one name; no application speaks to
partners by a configuration that was not reviewed since its data was replaced.*

`RegionalApprovals`: each institution has a workspace with the peers it
approved, the agreements it holds and the identifiers it revoked. Signed
documents are sets that only grow (`offers`, `made`), which is what documents
carried by hand are: late, repeated, out of order, lost (the export of an
acceptance is an action of its own, `ExportAgreement`). A command is one step,
because a workspace's state is replaced in one rename under its lock. In run
`operator`: two institutions, two identifiers, `MaxTime` 2 with a clock each, so
that one side may find valid what the other finds expired. Signatures cannot be
forged in the model; the shapes of documents and the capacity limits are left
out. Seen: an initiator cannot revoke an offer whose acceptance it never
imported.

`ServiceConnector`: `link` holds the three files, `units` what each unit has
loaded. `AttachConnector` and its steps, `AttachFails` with the handler,
`Disable`, `UnitStarts`; `Fence`, `ReplaceData` and `Unfence` are a restore or
an upgrade around it. Chat and files differ in the order of a few steps and
`package` says which one this is. In run `operator` with two documents. Seen:
chat's `disable` answers connector-not-installed when a first attach was cut
after `pending.json`; a kill between `disabled.json` and the restart leaves the
units with the connector while the status says suspended (`OutcomeTrue` speaks
of completed commands); the whitelist is computed at a start, so that an expired
partner stays in it until the next one (the gateway blocks it); an exported
document can be attached though it is stale by then.

Proved, for any institutions, identifiers, bound and documents:
`ApprovalsTyped`, `TermsAgree`, `LinkTyped`, `ConnectorReviewed`, `ReportsTrue`.

## Guests of a portable site

*No installer starts twice; what the host shows was asked for.*

`GuestProvisioning` has the host (`vm`, `store`), the administrator's disk
(`journal`, `upload`), one command (`proc`), and the requests on their way
(`flight`): a request may be executed at once, late or never (`Execute`), its
answer may be lost (`Answered` or `Cut`), and the program repeats none by
itself. A change carries the digest of the configuration it was computed from,
and is refused when that changed. `Console` starts and stops guests beside the
program. In run `operator`: one guest (they share nothing but the medium), two
uploads (one abandoned), `MaxPosts` 2 equal requests.

Seen: a guest started from the console between `finish`'s look and its change
makes `boot` report a session with its medium as one from the disk alone
(`guest_installation.py:98`); no property, since nothing of the program's own is
wrong.

Proved, for any guests and uploads: `GuestTyped`, `StartsAskedOnce`,
`HostBacked`. The invariant counts: a start request that was sent, is in flight
or was executed has its journal, and the journal never goes back.

## Preparation

*Where an operator is led is valid: drafts resume, the plan that is shown is
one, a layout passes its own validation, a record tells of whole files, and what
the menu puts together is a command.*

* `SetupWizard` -- the questions depend on the answers, and going back changes
  them: `Answer`, `Back`, `SaveDraft`, `Resume`, `Prepare`. `MaxRelays` and
  `MaxNodes` 2: one beyond the first is the least for which a question can
  disappear.
* `JourneyWizard` -- two locations that must differ, drafts that must validate.
  Run `journey_save` shows the one thing that fails: after going back and
  making the locations equal, the offered `:save` is refused and the answers
  are lost.
* `SitePlan` -- the layout that is prepared from a /16 and a first guest number
  against the validation. TLC takes both ends of every private block and their
  neighbours; `LayoutsValid` and `PreparedValid` are proved for every number.
* `PreparedFolder` -- bundles, journeys and kits: files, then the record that
  names them, with two writers of a bundle, kills and replacement. Nothing locks
  a folder, so the commands interleave freely: a replacement that finds its old
  record already removed fails (`RecordGone`), and a new preparation that finds
  a name taken ends or, in the setup, becomes a replacement (`Refused`). What
  holds is `RecordGenuine`: every file a record names is there and whole, and it
  has the recorded content unless a replacement ran beside another command. The
  history variable `overlap` says so: it is set when such commands meet and
  cleared when a replacement that is alone has invalidated the old record; no
  action depends on it. The exception is real: two replacements whose files
  alternate both end without an error and leave the record of the later one
  beside a file of the other, although `docs/guided-setup.md:78` says that the
  record lists the current files and their checksums. TLC finds such an end
  when it is asked for a genuine record whenever no command works. A killed kit wedges the
  wizard (the directory is there, `verify` fails, `prepare` refuses). The model
  writes a command's files in any order; the code's order is one of them.

`PreparationSound` is proved in `Preparation_proofs`, for any bounds, places,
commands and contents, by an invariant for each part:

* `SetupInv` -- every answer is acceptable, and the questions before the one
  that is asked are answered. The work is in the lemmas about the list of
  questions: an answer changes only later ones (`PrefixKept`), and dropping the
  answers nothing asks for changes none (`PermittedShape`);
* `JourneyInv` -- the answers before the question are values of their fields,
  and past its question the second location differs from the first;
* `FolderInv` -- what a command has written so far is whole, a replacement
  invalidates before it writes, a kit is prepared by one command only, and while
  no replacement has overlapped another command each file has its writer's
  content and a record is of what the files are;
* the plan and the command need no more than what they are made from.

## Status and the command line

*A report that asks for no attention is right, and so is an exit status.*

`NodeStatus`: six workers (`Answer(d)`), each looking for its conditions in the
order of the source's tests, while conditions come and go (`Comes`, `Goes`) and
workers fail. `lasting` is what was wrong all the time, `clean` that nothing
was. Up to two conditions of one worker at the start, so that one can mask the
other, and `MaxTroubles` 1 later ones; with 2 it was checked once (2.4 million
states). `docs/product-start.md:41` gives the meaning of the exit status. Seen:
a gateway's pending certificate replacement is not looked at when it has an
issuer; a stopped renewal timer is shown and needs no attention; a gateway with
approved peers, or an attached connector, always asks for attention.

`CommandLine`: the parser's forms as a table of words and options (`Forms`), the
menu and the guide that put argument lists together, what each action answers
(`Answers`), and the exit status made of it (`ExitOf`). `TasksAccepted` says
that the parser never refuses what the menu or a guide made; `ExitTruthful`
holds the exit status against the table of `docs/operations.md:129`, except for
`Overlooked`, where the source differs: a portable installation cancelled at its
phrase exits 0, and so do the gateway's certificate commands whatever they
found. Two more departures are in the model and within what `ExitTruthful`
allows: `backup initialize` cancelled, and an interrupted `services apply` or
`restore-apply`, exit 3 for a refusal instead of 4; an upgrade interrupted in
its transaction exits 4 as cancelled though it is pending.

`QuietHonest` is proved in `Preparation_proofs`. `StatusInv` says of every
dimension that needs no attention that none of the conditions its worker looks
for has lasted. It rests on three lemmas about the tables: every row of each is
a state that needs attention (`TablesLoud`), the first condition that holds
names the state (`FirstNames`), and every condition of a node is in the table of
some worker (`SomeoneLooks`). For the command, `TasksFit` goes through what the
menu and the guide make, and `AnswersTell` through what the actions answer.

## The composed runs

`Node` and `Operator` choose a component in the initial state. Types and
invariants are those of the components, joined where they are about one promise
(`CertificatesWhole`, `PreparationSound`, `QuietHonest`); each part has its own
mutation. Symmetry is used in `operator` only, where no property is temporal:
institutions and documents are alike. In `node` the fairness of the components
is stated once for all of them: what proceeds, what answers, what is begun and
begun again, of the component that is explored; since the others never move this
is each component's own `FairSpec`.

## Proofs

| module | theorems | for every |
|---|---|---|
| `RestoreTransaction_proofs` | `TypeCorrect`, `FenceIsOwned`, `ServesOnlyDecided`, `RetainsOriginal`, `ClaimsAreTrue`, `MovesUnderStopped`, `KeepsEdits`, `Implements` | services and paths, non-empty |
| `UpgradeTransaction_proofs` | `TypeCorrect`, `BackupComesFirst`, `ClaimsAreTrue`, `BackupsFollow`, `StaysBlocked`, `Implements` | units and paths, non-empty |
| `GatewayPolicy_proofs` | `TypeCorrect`, `AdmitsOnlySelected`, `RestoredStaysShut`, `NeverReplays`, `RevocationsAreFinal` | agreements, their times, the bounds |
| `Backups_proofs` | `BackupInvariance`, `BackupsTyped`, `SnapshotsAreSound`, `OutagesAreKnown`, `RecordIsTruthful`, `ProgramIsKept` | units, versions, the bound |
| `Node_proofs` | `NodeInvariance`, `NodeTyped`, `CertificatesAreWhole`, `FailureReturns`, `InstallationIsSound`, `EnrollmentIsAsAsked` | certificates, credentials, the bounds |
| `GuestProvisioning_proofs` | `GuestTyped`, `StartsAskedOnce`, `HostBacked` | guests, uploads |
| `Operator_proofs` | `ApprovalsTyped`, `TermsAgree`, `LinkTyped`, `ConnectorReviewed`, `ReportsTrue`, `ReplacementTyped`, `ReplacementsSound`, `TogetherAsAlone` | institutions, identifiers, time; documents; snapshots |
| `Preparation_proofs` | `PreparationInvariance`, `PreparationIsSound`, `ReadingsAreHonest`, `LayoutsValid`, `PreparedValid` | relays, nodes, places, writers, contents; networks and numbers |

Each follows one argument: a strengthening of the property that the initial
state satisfies and every action preserves, one step per action, and the
property from it. What the strengthenings add is told in the sections. TLC
checked the larger of them (those of the backups and of a node) on the runs'
instances before they were proved.

`Node_proofs` and `Preparation_proofs` are about the compositions: each
component's invariant is kept by its own steps and by those of the others, which
leave its variables alone. `Operator_proofs` and `GuestProvisioning_proofs`
state theirs of the component's own specification, which `TogetherAsAlone` shows
the composition to imply.

The assumptions are those the modules declare: sets that are not empty or
finite, a value `None` that is none of the others (also none of the answers that
the wizards write out), and natural bounds, at least one relay and one node.

Only model-checked: every liveness property (`UniformSettles`, `GuardSettles`,
`SuspendedSettles`, `UpgradeSettles`, `UpdateSettles`, `NodeSettles`), because
the proof system handles neither fairness nor ENABLED. Every other property of
every passing run, invariant, action property or refinement, is proved.

## Hazards without a property

Two of the hazards in `PROJECT.json` have none, both for the same reason: the
code has the flaw, the model contains it, and a property would only repeat it
(the cut inside `finally`, and the schedule after `include-services`). Two of
the gateway were noticed and are told in its section.

## Not modelled

* Releases and builds: files and network of one process into a directory that
  must not exist, checked by a digest; no state is kept.
* Ansible deployment: what its tasks do is defined by Ansible, not here. The two
  roles the local enrollment depends on are in `LocalEnrollment` as it uses
  them.
* The acceptance drivers (`ci_*.py`): tests of the product on machines.
* Rendering: inventories, unit files, proxy, router and name server
  configurations, messages. No property here is about their text.
* The network probe, downloads, package installation and the support report:
  they read, and keep nothing.
* Two commands of different components on one node at the same time, beyond the
  locks and markers they share: these are in the module of each.

## Left to do

`GatewayPolicy` could take the issuer's archive in, and the installation's
steps the temporary files a killed atomic write leaves.
