---------------------------- MODULE GatewayPolicy ----------------------------
(***************************************************************************)
(* The partner policy of a regional gateway: which signed agreements are   *)
(* let through, by whom that is changed and who enforces it                *)
(* (scripts/gateway_store.py, gateway_transition.py, gateway_runtime.py,   *)
(* gateway_operations.py, gateway_certificates.py, gateway_recovery.py,    *)
(* gateway_backup.py).                                                     *)
(*                                                                         *)
(* Three processes work on one store.                                      *)
(*   An operator's command, which holds the store's lock:                  *)
(*     change       journal the candidate policy, close the firewall,      *)
(*                  commit, restart the proxy, open the firewall;          *)
(*     certificate  mark the intent, close, restart with the new           *)
(*                  certificate or again with the previous one, reopen;    *)
(*     restore      suspend the policy until it is reviewed, swap in a     *)
(*                  snapshot's policy merged with the current revocations, *)
(*                  or roll back.                                          *)
(*   The guard, every five seconds, which passes if the lock is held: it   *)
(*     opens the firewall for the current policy or closes it.             *)
(*   The proxy's unit, which holds no lock: it closes the firewall, reads  *)
(*     the policy, opens the firewall unless something is pending, and     *)
(*     runs the proxy; systemd restarts it when it fails.                  *)
(* A firewall entry carries a timeout, so the kernel removes it without    *)
(* any of them.  The clock runs, and may be set in either direction.       *)
(*                                                                         *)
(* AlwaysFresh, Unrevoked, NoPermit, UnsuspendedOnly, Above, SnapshotOnly  *)
(* and OpenOnly are what a mistake would make of the operator after each;  *)
(* no specification uses them.                                             *)
(***************************************************************************)
EXTENDS Naturals

CONSTANTS
    Agreements,     \* the signed agreements ever presented, each of another partner
    Issued,         \* offer.payload.issued_at
    Accepted,       \* acceptance.payload.accepted_at
    Expires,        \* offer.payload.expires_at
    MaxTime,        \* bound: the clock stops here
    MaxGeneration,  \* bound: no change or restore beyond this generation
    None            \* no policy

Times == 1..MaxTime
Policies == [generation : 0..MaxGeneration, agreements : SUBSET Agreements,
             revoked : SUBSET Agreements]

ASSUME BoundsAssumption == MaxTime \in Nat \ {0} /\ MaxGeneration \in Nat
ASSUME AgreementsAssumption ==
    /\ Issued \in [Agreements -> Nat] /\ Accepted \in [Agreements -> Nat]
    /\ Expires \in [Agreements -> Nat]
    /\ \A a \in Agreements : Issued[a] <= Accepted[a] /\ Accepted[a] < Expires[a]
ASSUME NoneAssumption == None \notin Policies

VARIABLES
    wall,       \* the system clock
    latest,     \* clock.json: the latest time an enforcing step has seen
    policy,     \* state.json
    pending,    \* pending.json: the journalled candidate, or None
    certIntent, \* certificate-pending.json exists
    floor,      \* rdc-gateway-recovery.json: the approval floor, 0 if there is none
    review,     \* rdc-gateway-recovery.json: review_pending
    restoring,  \* rdc-restore-pending.json exists
    aside,      \* the restore's candidate before its swap, the retained policy after it
    snapshot,   \* the policy and clock of the last backup
    op,         \* the operator's command that holds the lock
    pc,         \* its next step
    firewall,   \* seconds left of every agreement's entry in the nftables set
    config,     \* envoy.json: the agreements the next proxy routes
    serving,    \* the agreements the running proxy routes
    unit,       \* the proxy's unit
    seen,       \* the policy the starting unit has read
    guardTimer  \* rdc-regional-guard.timer is active

clock   == <<wall, latest>>
store   == <<policy, pending, certIntent, floor, review>>
restore == <<restoring, aside, snapshot>>
command == <<op, pc>>
proxy   == <<config, serving, unit, seen>>
vars    == <<clock, store, restore, command, firewall, proxy, guardTimer>>

Nothing == [kind |-> "none"]
Aside == [kind : {"candidate", "retained"}, policy : Policies, latest : 0..MaxTime]
             \union {Nothing}
Snapshots == [policy : Policies, latest : 0..MaxTime, floor : 0..MaxTime] \union {None}
Shut == [a \in Agreements |-> 0]

FlagsOK ==
    /\ certIntent \in BOOLEAN /\ review \in BOOLEAN
    /\ restoring \in BOOLEAN /\ guardTimer \in BOOLEAN

PoliciesOK ==
    /\ policy \in Policies /\ pending \in Policies \union {None}
    /\ aside \in Aside /\ snapshot \in Snapshots
    /\ seen \in Policies \union {None}

TimesOK == wall \in Times /\ latest \in 0..MaxTime /\ floor \in 0..MaxTime

EnforcementOK ==
    /\ firewall \in [Agreements -> Nat]
    /\ config \subseteq Agreements /\ serving \subseteq Agreements
    /\ unit \in {"down", "failed", "starting", "checked", "loaded", "opening", "launching", "up"}

CommandOK ==
    /\ op \in {"none", "change", "certificate", "previous", "restore", "rollback"}
    /\ pc \in {"idle", "close", "validate", "commit", "install", "restart", "await", "review",
               "open", "finish", "clear", "reopen", "suspend", "stage", "quiesce", "swap",
               "putBack", "start"}

TypeOK == FlagsOK /\ PoliciesOK /\ TimesOK /\ EnforcementOK /\ CommandOK

\* A gateway as installed: no partners, proxy running, firewall closed.
Init ==
    /\ wall = 1 /\ latest = 1
    /\ policy = [generation |-> 0, agreements |-> {}, revoked |-> {}]
    /\ pending = None /\ certIntent = FALSE /\ floor = 0 /\ review = FALSE
    /\ restoring = FALSE /\ aside = Nothing /\ snapshot = None
    /\ op = "none" /\ pc = "idle"
    /\ firewall = Shut /\ config = {} /\ serving = {} /\ unit = "up" /\ seen = None
    /\ guardTimer = TRUE

-----------------------------------------------------------------------------
(* What the policy allows.                                                 *)

AlwaysFresh(a) == TRUE
Fresh(a) == floor = 0 \/ (Issued[a] >= floor /\ Accepted[a] >= floor)

Unrevoked(p) == {a \in p.agreements :
                     Fresh(a) /\ Accepted[a] <= wall /\ wall < Expires[a]}

\* store.peers: signed by both, begun, not expired, not revoked, and not older
\* than the approval floor.
Peers(p) == {a \in p.agreements \ p.revoked :
                 Fresh(a) /\ Accepted[a] <= wall /\ wall < Expires[a]}

\* Every entry ends one second early rather than late.
Entries(p) == [a \in Agreements |->
                   IF a \in Peers(p) /\ Expires[a] > wall + 1 THEN Expires[a] - (wall + 1) ELSE 0]

\* policy_time refuses a clock that has been set back.
OnTime == wall >= latest

NoPermit == ~restoring

\* check_restore_boundary; the permit may be there whenever a restore is pending.
Boundary == restoring => review

UnsuspendedOnly == pending = None /\ ~certIntent
NothingPending == pending = None /\ ~certIntent /\ ~review

\* Runtime.open: its checks, then one nft batch.
Openable == ~review /\ ~certIntent /\ Boundary /\ unit = "up" /\ OnTime
Open == firewall' = Entries(policy) /\ latest' = wall
Close == firewall' = Shut

-----------------------------------------------------------------------------
(* Moves of the command.                                                   *)

At(o, step) == op = o /\ pc = step
Then(step) == pc' = step /\ UNCHANGED op
Begin(o, step) == op = "none" /\ op' = o /\ pc' = step
Return == op' = "none" /\ pc' = "idle"

\* The unit's stop ends the proxy, and its ExecStopPost closes the firewall.
Halt(state) == unit' = state /\ serving' = {} /\ seen' = None /\ Close /\ UNCHANGED config

-----------------------------------------------------------------------------
(* change: a policy of selected agreements, or a revocation.               *)

Candidate(selected, ids) ==
    [generation |-> policy.generation + 1, agreements |-> selected,
     revoked |-> policy.revoked \union ids]

\* store.candidate and the durable intent of gateway_transition.apply.
StartChange(selected, ids) ==
    /\ Begin("change", "close")
    /\ ~restoring /\ ~certIntent /\ pending = None
    /\ policy.generation < MaxGeneration
    /\ \A a \in selected : Fresh(a)
    /\ pending' = Candidate(selected, ids)
    /\ UNCHANGED <<clock, policy, certIntent, floor, review, restore, firewall, proxy, guardTimer>>

SelectPolicy(selected) == StartChange(selected, {})

\* While a review is due only fresh agreements are kept.
Revoke(a) == StartChange({b \in policy.agreements : review => Fresh(b)}, {a})

Resume ==
    /\ Begin("change", "close")
    /\ ~restoring /\ ~certIntent /\ pending # None
    /\ UNCHANGED <<clock, store, restore, firewall, proxy, guardTimer>>

ChangeCloses ==
    /\ At("change", "close") /\ Then("validate")
    /\ Close
    /\ UNCHANGED <<clock, store, restore, proxy, guardTimer>>

ChangeValidates ==
    /\ At("change", "validate") /\ Then("commit")
    /\ OnTime /\ latest' = wall
    /\ UNCHANGED <<wall, store, restore, firewall, proxy, guardTimer>>

ChangeCommits ==
    /\ At("change", "commit") /\ Then("install")
    /\ policy' = pending
    /\ UNCHANGED <<clock, pending, certIntent, floor, review, restore, firewall, proxy, guardTimer>>

ChangeInstalls ==
    /\ At("change", "install") /\ Then("restart")
    /\ config' = Peers(policy)
    /\ UNCHANGED <<clock, store, restore, firewall, serving, unit, seen, guardTimer>>

\* systemctl restart: whatever the unit was doing ends here.
Restart == Halt("starting")

Restarts ==
    /\ op \in {"change", "certificate", "previous"} /\ pc = "restart" /\ Then("await")
    /\ Restart
    /\ UNCHANGED <<clock, store, restore, guardTimer>>

\* The unit is ready, and the certificate it serves is the selected one.
Awaits ==
    /\ pc = "await" /\ unit = "up"
    /\ Then(CASE op = "change" -> "review"
              [] op \in {"certificate", "previous"} -> "clear"
              [] OTHER -> "finish")
    /\ UNCHANGED <<clock, store, restore, firewall, proxy, guardTimer>>

\* review_recovery: fresh agreements end the review.
ChangeReviews ==
    /\ At("change", "review") /\ Then("open")
    /\ review => \A a \in policy.agreements : Fresh(a)
    /\ review' = FALSE
    /\ UNCHANGED <<clock, policy, pending, certIntent, floor, restore, firewall, proxy, guardTimer>>

ChangeOpens ==
    /\ At("change", "open") /\ Then("finish")
    /\ Openable /\ Open
    /\ UNCHANGED <<wall, store, restore, proxy, guardTimer>>

ChangeFinishes ==
    /\ At("change", "finish") /\ Return
    /\ pending' = None
    /\ UNCHANGED <<clock, policy, certIntent, floor, review, restore, firewall, proxy, guardTimer>>

\* Any step raises: the handler closes, or cannot.  The last step may raise
\* after it has removed the intent.
ChangeFails ==
    /\ op = "change" /\ Return
    /\ Close \/ UNCHANGED firewall
    /\ pending' = pending \/ (pc = "finish" /\ pending' = None)
    /\ UNCHANGED <<clock, policy, certIntent, floor, review, restore, proxy, guardTimer>>

-----------------------------------------------------------------------------
(* certificate: replace, or resume a replacement.                          *)

StartCertificate ==
    /\ Begin("certificate", "close")
    /\ ~restoring /\ pending = None
    /\ certIntent' = TRUE
    /\ UNCHANGED <<clock, policy, pending, floor, review, restore, firewall, proxy, guardTimer>>

\* activate() does not restart for a certificate that is active already.
CertificateCloses ==
    /\ At("certificate", "close") /\ (Then("restart") \/ Then("await"))
    /\ Close
    /\ UNCHANGED <<clock, store, restore, proxy, guardTimer>>

\* activate() points back to the previous certificate and restarts again.
CertificateReturns ==
    /\ op = "certificate" /\ pc \in {"restart", "await"}
    /\ op' = "previous" /\ pc' = "restart"
    /\ UNCHANGED <<clock, store, restore, firewall, proxy, guardTimer>>

CertificateClears ==
    /\ op \in {"certificate", "previous"} /\ pc = "clear" /\ Then("reopen")
    /\ certIntent' = FALSE
    /\ UNCHANGED <<clock, policy, pending, floor, review, restore, firewall, proxy, guardTimer>>

CertificateReopens ==
    /\ op \in {"certificate", "previous"} /\ pc = "reopen" /\ Return
    /\ \/ review /\ Close /\ UNCHANGED latest
       \/ Openable /\ Open
    /\ UNCHANGED <<wall, store, restore, proxy, guardTimer>>

\* The handler writes the intent again and closes, or cannot.
CertificateFails ==
    /\ op \in {"certificate", "previous"} /\ Return
    /\ certIntent' = TRUE \/ UNCHANGED certIntent
    /\ Close \/ UNCHANGED firewall
    /\ UNCHANGED <<clock, policy, pending, floor, review, restore, proxy, guardTimer>>

-----------------------------------------------------------------------------
(* Backup and restore of the gateway's data.  RestoreTransaction has all    *)
(* the steps of a restore; here are those the policy takes part in, and     *)
(* commit and finish are one.  Bound: one snapshot is taken.                *)

Capture ==
    /\ op = "none" /\ ~restoring /\ NothingPending /\ snapshot = None
    /\ snapshot' = [policy |-> policy, latest |-> latest, floor |-> floor]
    /\ UNCHANGED <<clock, store, restoring, aside, command, firewall, proxy, guardTimer>>

StartRestore ==
    /\ Begin("restore", "suspend")
    /\ ~restoring /\ pending = None /\ ~certIntent /\ snapshot # None
    /\ policy.generation < MaxGeneration
    /\ restoring' = TRUE
    /\ UNCHANGED <<clock, store, aside, snapshot, firewall, proxy, guardTimer>>

Above(S) == 1 + CHOOSE t \in S : \A s \in S : s <= t
AtLeast(S) == CHOOSE t \in S : \A s \in S : s <= t

\* begin_restore: the floor is above every time either history knows.
Suspend ==
    /\ At("restore", "suspend") /\ Then("close")
    /\ floor' = AtLeast({wall, latest, floor, snapshot.latest, snapshot.floor})
    /\ review' = TRUE
    /\ UNCHANGED <<clock, policy, pending, certIntent, restore, firewall, proxy, guardTimer>>

RestoreCloses ==
    /\ At("restore", "close") /\ Then("stage")
    /\ Close
    /\ UNCHANGED <<clock, store, restore, proxy, guardTimer>>

\* prepare_candidate: the snapshot's agreements, everybody's revocations.
SnapshotOnly(saved) == [saved EXCEPT !.generation = policy.generation + 1]
Merge(saved) == [saved EXCEPT !.generation = policy.generation + 1,
                              !.revoked = policy.revoked \union saved.revoked]

Stage ==
    /\ At("restore", "stage") /\ Then("quiesce")
    /\ aside' = [kind |-> "candidate", policy |-> Merge(snapshot.policy),
                 latest |-> AtLeast({latest, snapshot.latest, floor})]
    /\ UNCHANGED <<clock, store, restoring, snapshot, firewall, proxy, guardTimer>>

Quiesce ==
    /\ op \in {"restore", "rollback"} /\ pc = "quiesce"
    /\ Then(IF op = "restore" THEN "swap" ELSE "putBack")
    /\ Halt("down") /\ guardTimer' = FALSE
    /\ UNCHANGED <<clock, store, restore>>

Exchange == policy' = aside.policy /\ latest' = aside.latest

Swap ==
    /\ At("restore", "swap") /\ Then("start")
    /\ Exchange
    /\ aside' = [kind |-> "retained", policy |-> policy, latest |-> latest]
    /\ UNCHANGED <<wall, pending, certIntent, floor, review, restoring, snapshot, firewall, proxy, guardTimer>>

PutBack ==
    /\ At("rollback", "putBack") /\ Then("start")
    /\ IF aside.kind = "retained" THEN Exchange ELSE UNCHANGED <<policy, latest>>
    /\ aside' = Nothing
    /\ UNCHANGED <<wall, pending, certIntent, floor, review, restoring, snapshot, firewall, proxy, guardTimer>>

StartUnits ==
    /\ op \in {"restore", "rollback"} /\ pc = "start" /\ Then("await")
    /\ Halt("starting") /\ guardTimer' = TRUE
    /\ UNCHANGED <<clock, store, restore>>

RestoreFinishes ==
    /\ op \in {"restore", "rollback"} /\ pc = "finish" /\ Return
    /\ restoring' = FALSE /\ aside' = Nothing
    /\ UNCHANGED <<clock, store, snapshot, firewall, proxy, guardTimer>>

RestoreFails ==
    /\ op \in {"restore", "rollback"}
    /\ IF op = "restore" THEN op' = "rollback" /\ pc' = "quiesce" ELSE Return
    /\ UNCHANGED <<clock, store, restore, firewall, proxy, guardTimer>>

Recover ==
    /\ Begin("rollback", "quiesce")
    /\ restoring
    /\ UNCHANGED <<clock, store, restore, firewall, proxy, guardTimer>>

-----------------------------------------------------------------------------
(* The proxy's unit.                                                       *)

UnitStarts ==
    /\ unit = "starting"
    /\ Close
    /\ \/ OnTime /\ Boundary /\ latest' = wall /\ unit' = "checked"
       \/ ~(OnTime /\ Boundary) /\ unit' = "failed" /\ UNCHANGED latest
    /\ UNCHANGED <<wall, store, restore, command, config, serving, seen, guardTimer>>

UnitLoads ==
    /\ unit = "checked" /\ unit' = "loaded"
    /\ seen' = policy
    /\ config' = Peers(policy)
    /\ UNCHANGED <<clock, store, restore, command, firewall, serving, guardTimer>>

UnitChecks ==
    /\ unit = "loaded"
    /\ IF NothingPending THEN unit' = "opening" /\ UNCHANGED seen
                         ELSE unit' = "launching" /\ seen' = None
    /\ UNCHANGED <<clock, store, restore, command, firewall, config, serving, guardTimer>>

\* The clock is read again here, and compared with nothing.
UnitOpens ==
    /\ unit = "opening" /\ unit' = "launching"
    /\ firewall' = Entries(seen) /\ seen' = None
    /\ UNCHANGED <<clock, store, restore, command, config, serving, guardTimer>>

UnitLaunches ==
    /\ unit = "launching" /\ unit' = "up"
    /\ serving' = config
    /\ UNCHANGED <<clock, store, restore, command, firewall, config, seen, guardTimer>>

UnitFails ==
    /\ unit \notin {"down", "failed"}
    /\ Halt("failed")
    /\ UNCHANGED <<clock, store, restore, command, guardTimer>>

AutoRestart ==
    /\ unit = "failed" /\ unit' = "starting"
    /\ UNCHANGED <<clock, store, restore, command, firewall, config, serving, seen, guardTimer>>

-----------------------------------------------------------------------------
(* The guard.  It acts under the lock, which an operation holds; a restore  *)
(* holds the lock file of the directory it has moved away.                  *)

LockFree == op = "none" \/ aside.kind = "retained"

OpenOnly == IF pending = None /\ Openable THEN Open ELSE UNCHANGED <<firewall, latest>>
Recheck == IF pending = None /\ Openable THEN Open ELSE Close /\ UNCHANGED latest

Guard ==
    /\ guardTimer /\ LockFree
    /\ Recheck
    /\ UNCHANGED <<wall, store, restore, command, proxy, guardTimer>>

-----------------------------------------------------------------------------
(* The environment.                                                        *)

\* A second passes, and the kernel drops the entries whose time is over.
Tick ==
    /\ wall < MaxTime /\ wall' = wall + 1
    /\ firewall' = [a \in Agreements |-> IF firewall[a] > 0 THEN firewall[a] - 1 ELSE 0]
    /\ UNCHANGED <<latest, store, restore, command, proxy, guardTimer>>

SetClock(t) ==
    /\ wall' = t
    /\ UNCHANGED <<latest, store, restore, command, firewall, proxy, guardTimer>>

Kill ==
    /\ op # "none" /\ Return
    /\ UNCHANGED <<clock, store, restore, firewall, proxy, guardTimer>>

\* The nftables table is gone with the proxy; both units are enabled.
Reboot ==
    /\ Return
    /\ Halt("starting") /\ guardTimer' = TRUE
    /\ UNCHANGED <<clock, store, restore>>

-----------------------------------------------------------------------------

Request ==
    \/ \E S \in SUBSET Agreements : SelectPolicy(S)
    \/ \E a \in Agreements : Revoke(a)
    \/ Resume \/ StartCertificate \/ Capture \/ StartRestore \/ Recover

Proceed ==
    \/ ChangeCloses \/ ChangeValidates \/ ChangeCommits \/ ChangeInstalls \/ Restarts \/ Awaits
    \/ ChangeReviews \/ ChangeOpens \/ ChangeFinishes
    \/ CertificateCloses \/ CertificateClears \/ CertificateReopens
    \/ Suspend \/ RestoreCloses \/ Stage \/ Quiesce \/ Swap \/ PutBack \/ StartUnits
    \/ RestoreFinishes

Fail == ChangeFails \/ CertificateReturns \/ CertificateFails \/ RestoreFails

\* The checks that make the next step of a command raise.
Refused ==
    \/ pc \in {"validate", "open"} /\ ~OnTime
    \/ pc = "open" /\ ~Openable
    \/ pc = "reopen" /\ ~(review \/ Openable)
    \/ pc = "review" /\ review /\ \E a \in policy.agreements : ~Fresh(a)
    \/ pc = "await" /\ ~(OnTime /\ Boundary)

UnitRuns == UnitStarts \/ UnitLoads \/ UnitChecks \/ UnitOpens \/ UnitLaunches \/ AutoRestart

Next ==
    \/ Request \/ Proceed \/ Fail \/ Kill
    \/ UnitRuns \/ UnitFails
    \/ Guard
    \/ Tick \/ Reboot \/ \E t \in Times : SetClock(t)

Spec == Init /\ [][Next]_vars

\* A command proceeds, or fails where it must; the operator repeats
\* restore-recover; systemd runs the unit and the guard's timer.
FairSpec ==
    /\ Spec
    /\ WF_vars(Proceed) /\ WF_vars(Refused /\ Fail) /\ WF_vars(Recover)
    /\ WF_vars(UnitRuns) /\ WF_vars(Guard)
=============================================================================
