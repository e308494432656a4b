---------------------------- MODULE Certificates ----------------------------
(***************************************************************************)
(* The TLS certificate of a node's service (scripts/certificate_lifecycle  *)
(* .py, service_certificates.py, nextcloud_certificates.py and             *)
(* service_issuer.py).                                                     *)
(*                                                                         *)
(*   activate keeps every certificate in a generation directory named by   *)
(*            its digest, moves the link "active", restarts the service,   *)
(*            verifies what it serves and moves the link back when that    *)
(*            fails; then it moves "previous" and prunes the rest;         *)
(*   issue    gets a certificate and publishes it for an installation;     *)
(*   install  uses the published pair as the initial certificate;          *)
(*   enable   installs the renewal program under a durable intent,         *)
(*            activates the issued certificate and starts the timer;       *)
(*   renew    is the timer's run: renew, activate, publish, record;        *)
(*   replace  activates a certificate the operator supplies.               *)
(*                                                                         *)
(* Commands exclude each other by the operation lock, so one process is    *)
(* enough.  The checks of a certificate's content may refuse any material,  *)
(* and a restart may fail for any.                                         *)
(***************************************************************************)
CONSTANTS
    Materials,      \* certificates with their keys
    None

ASSUME NoneAssumption == None \notin Materials

VARIABLES
    proc,       \* the running command: op, pc, and activate's target and old
    tls,        \* the generations, the two links, and their .new names
    issuer,     \* /etc/rdc-service-acme and the renewal program
    served,     \* what the service presents to clients, None when it is down
    claim       \* the last outcome reported

vars == <<proc, tls, issuer, served, claim>>

ActivateSteps == {"compare", "generation", "fill", "link", "point", "restart", "backLink",
                  "backPoint", "backRestart", "keepLink", "keepPoint", "prune"}
Steps == ActivateSteps \union {"idle", "home", "mark", "order", "material", "publish", "copy", "timer"}
Claims == {"none", "done", "serving", "recovered", "unrecovered", "failed"}
Some == Materials \union {None}

ProcOK ==
    proc \in [op : {"none", "issue", "install", "enable", "renew", "replace"}, pc : Steps,
              target : Some, old : Some]
TlsOK ==
    tls \in [gens : [Materials -> {"absent", "partial", "whole"}], active : Some, previous : Some,
             activeNew : BOOLEAN, previousNew : BOOLEAN]
IssuerOK ==
    issuer \in [home : {"absent", "bare", "marked"}, lineage : Some, program : {"none", "partial", "whole"}, timer : BOOLEAN]

\* A command that reached activate has a certificate to activate.
TypeOK ==
    /\ ProcOK /\ TlsOK /\ IssuerOK /\ served \in Some /\ claim \in Claims
    /\ proc.pc \in ActivateSteps => proc.target \in Materials
    /\ proc.pc \in {"material", "publish"} => issuer.lineage \in Materials

Idle == [op |-> "none", pc |-> "idle", target |-> None, old |-> None]

Init ==
    /\ proc = Idle
    /\ tls = [gens |-> [m \in Materials |-> "absent"], active |-> None, previous |-> None,
              activeNew |-> FALSE, previousNew |-> FALSE]
    /\ issuer = [home |-> "absent", lineage |-> None, program |-> "none", timer |-> FALSE]
    /\ served = None /\ claim = "none"

-----------------------------------------------------------------------------
(* Plausible mistakes, each a changed form of the definition it precedes;   *)
(* no specification uses them.                                              *)

\* keep={target,previous}
KeepNew == {proc.target}
Keep == {proc.target, proc.old}

\* The handler points back to the certificate that was active before.
PointPrevious == tls.previous
PointBack == proc.old

\* if previous==target: a retry verifies what is served, and restarts when it differs.
TrustLink == proc.op # "install"
Serving == proc.op # "install" /\ served = proc.target

\* enable reads the issued material first.
AnyTime == TRUE
Issued == issuer.lineage # None

-----------------------------------------------------------------------------
(* Moves of the process.                                                   *)

At(step) == proc.pc = step
Go(step) == proc' = [proc EXCEPT !.pc = step]

\* The command ends with outcome c.
Return(c) == proc' = Idle /\ claim' = c

Begin(op, step) ==
    /\ proc.op = "none"
    /\ proc' = [Idle EXCEPT !.op = op, !.pc = step]
    /\ claim' = "none"
    /\ UNCHANGED <<tls, issuer, served>>

\* generation(base,'active')
Active == tls.active

\* The application's activate is called for material m, and reads the link.
Activate(m) == proc' = [proc EXCEPT !.pc = "compare", !.target = m, !.old = Active]

\* The service restarts, and up to six connections see certificate m; or that fails,
\* and it presents one of S or nothing.
RestartServes(m) == served' = m
RestartFails(S) == served' \in S \union {None}

\* What follows a call of activate that returned.
Activated ==
    CASE proc.op = "renew"   -> Go("publish") /\ UNCHANGED claim
      [] proc.op = "enable"  -> Go("timer") /\ UNCHANGED claim
      [] proc.op = "install" -> Return("done")
      [] OTHER               -> Return("serving")

-----------------------------------------------------------------------------
(* The commands up to activate, and after it.                              *)

\* configuration: the issuer's directory without its record is refused.
Marked == issuer.home = "marked"
ProgramWhole == issuer.program = "whole"

StartIssue == Begin("issue", "home")
StartRenew == issuer.timer /\ Marked /\ ProgramWhole /\ Begin("renew", "order")

\* issue: the directory is made and then marked, or must be the marked one.
MakeHome ==
    /\ At("home")
    /\ CASE issuer.home = "absent" ->
                issuer' = [issuer EXCEPT !.home = "bare"] /\ Go("mark") /\ UNCHANGED claim
         [] issuer.home = "bare" -> Return("failed") /\ UNCHANGED issuer
         [] OTHER                -> Go("order") /\ UNCHANGED <<issuer, claim>>
    /\ UNCHANGED <<tls, served>>

MarkHome ==
    /\ At("mark")
    /\ issuer' = [issuer EXCEPT !.home = "marked"]
    /\ Go("order")
    /\ UNCHANGED <<tls, served, claim>>

\* A material not seen before.
Fresh == {m \in Materials : /\ tls.gens[m] = "absent"
                            /\ m \notin {tls.active, tls.previous, served, issuer.lineage}}

\* The provider is asked; a renewal that is not due keeps the lineage.
Order ==
    /\ At("order")
    /\ \E m \in Fresh \union ({issuer.lineage} \ {None}) :
           issuer' = [issuer EXCEPT !.lineage = m]
    /\ Go("material")
    /\ UNCHANGED <<tls, served, claim>>

\* What the provider left is read and checked: issue publishes it, renew activates it,
\* also when nothing was due.
TakeMaterial ==
    /\ At("material")
    /\ IF proc.op = "renew" THEN Activate(issuer.lineage) ELSE Go("publish")
    /\ UNCHANGED <<tls, issuer, served, claim>>

OrderFails ==
    /\ At("order") \/ At("material")
    /\ Return("failed")
    /\ UNCHANGED <<tls, issuer, served>>

\* publish writes the pair for an installation's profile, then the status is written;
\* either may fail after a renewal is served.
Publish ==
    /\ At("publish")
    /\ Return(IF proc.op = "issue" THEN "done" ELSE "serving")
    /\ UNCHANGED <<tls, issuer, served>>

PublishFails ==
    /\ At("publish")
    /\ Return("failed")
    /\ UNCHANGED <<tls, issuer, served>>

\* An installation takes the published pair or one the operator has; one that runs
\* again insists on the pair it activated.
StartInstall(m) ==
    /\ proc.op = "none" /\ Active \in {None, m}
    /\ proc' = [op |-> "install", pc |-> "compare", target |-> m, old |-> Active]
    /\ claim' = "none"
    /\ UNCHANGED <<tls, issuer, served>>

StartReplace(m) ==
    /\ Active # None /\ proc.op = "none"
    /\ proc' = [op |-> "replace", pc |-> "compare", target |-> m, old |-> Active]
    /\ claim' = "none"
    /\ UNCHANGED <<tls, issuer, served>>

\* enable: the installed program is verified, or copied under a durable intent (which
\* a partial program implies).
StartEnable == Marked /\ Issued /\ Active # None /\ Begin("enable", "copy")

EnterProgram ==
    /\ At("copy") /\ issuer.program = "none"
    /\ issuer' = [issuer EXCEPT !.program = "partial"]
    /\ UNCHANGED <<proc, tls, served, claim>>

CopyProgram ==
    /\ At("copy") /\ issuer.program # "none"
    /\ issuer' = [issuer EXCEPT !.program = "whole"]
    /\ Activate(issuer.lineage)
    /\ UNCHANGED <<tls, served, claim>>

StartTimer ==
    /\ At("timer")
    /\ issuer' = [issuer EXCEPT !.timer = TRUE]
    /\ Return("serving")
    /\ UNCHANGED <<tls, served>>

-----------------------------------------------------------------------------
(* activate.                                                               *)

\* The material does not suit: its dates, its key, its names, or nothing trusted signed it.
Refuse ==
    /\ At("compare")
    /\ Return("failed")
    /\ UNCHANGED <<tls, issuer, served>>

\* An active target is verified, and the service restarted when that fails.
Compare ==
    /\ At("compare")
    /\ CASE proc.old # proc.target -> Go("generation") /\ UNCHANGED <<served, claim>>
         [] proc.old = proc.target /\ (Serving \/ proc.op = "install") ->
                Activated /\ UNCHANGED served
         [] OTHER -> \/ RestartServes(proc.target) /\ Activated
                     \/ RestartFails({proc.target}) /\ Return("failed")
    /\ UNCHANGED <<tls, issuer>>

\* A directory that is there must hold the very bytes; a partial one never does.
MakeGeneration ==
    /\ At("generation")
    /\ CASE tls.gens[proc.target] = "whole"  -> Go("link") /\ UNCHANGED <<tls, claim>>
         [] tls.gens[proc.target] = "absent" ->
                /\ tls' = [tls EXCEPT !.gens[proc.target] = "partial"]
                /\ Go("fill") /\ UNCHANGED claim
         [] OTHER -> Return("failed") /\ UNCHANGED tls
    /\ UNCHANGED <<issuer, served>>

FillGeneration ==
    /\ At("fill")
    /\ tls' = [tls EXCEPT !.gens[proc.target] = "whole"]
    /\ Go("link")
    /\ UNCHANGED <<issuer, served, claim>>

\* point: a symbolic link under a temporary name, then a rename over the old one.
\* A temporary name that is there is a stale transaction.
Link(step, next) ==
    /\ At(step)
    /\ IF tls.activeNew THEN Return("failed") /\ UNCHANGED tls
       ELSE tls' = [tls EXCEPT !.activeNew = TRUE] /\ Go(next) /\ UNCHANGED claim
    /\ UNCHANGED <<issuer, served>>

Point(step, m, next) ==
    /\ At(step)
    /\ tls' = [tls EXCEPT !.active = m, !.activeNew = FALSE]
    /\ IF next = "done" THEN Activated ELSE Go(next) /\ UNCHANGED claim
    /\ UNCHANGED <<issuer, served>>

LinkTarget == Link("link", "point")
PointTarget ==
    Point("point", proc.target, IF proc.op = "install" THEN "done" ELSE "restart")

\* restart and verify: a failed one may leave the service on either, or down.
Restart ==
    /\ At("restart")
    /\ \/ RestartServes(proc.target) /\ Go("keepLink")
       \/ RestartFails({proc.target, proc.old}) /\ Go("backLink")
    /\ UNCHANGED <<tls, issuer, claim>>

LinkBack == Link("backLink", "backPoint")
PointPreviousBack == Point("backPoint", PointBack, "backRestart")

RestartBack ==
    /\ At("backRestart")
    /\ \/ RestartServes(tls.active) /\ Return("recovered")
       \/ RestartFails({tls.active}) /\ Return("unrecovered")
    /\ UNCHANGED <<tls, issuer>>

KeepLink ==
    /\ At("keepLink")
    /\ IF tls.previousNew THEN Return("failed") /\ UNCHANGED tls
       ELSE tls' = [tls EXCEPT !.previousNew = TRUE] /\ Go("keepPoint") /\ UNCHANGED claim
    /\ UNCHANGED <<issuer, served>>

KeepPoint ==
    /\ At("keepPoint")
    /\ tls' = [tls EXCEPT !.previous = proc.old, !.previousNew = FALSE]
    /\ Go("prune")
    /\ UNCHANGED <<issuer, served, claim>>

Prune ==
    /\ At("prune")
    /\ tls' = [tls EXCEPT !.gens = [m \in Materials |-> IF m \in Keep THEN tls.gens[m] ELSE "absent"]]
    /\ Activated
    /\ UNCHANGED <<issuer, served>>

-----------------------------------------------------------------------------
(* The environment.                                                        *)

\* Also an interrupt: the handlers catch no BaseException.
Kill ==
    /\ proc.op # "none"
    /\ Return("failed")
    /\ UNCHANGED <<tls, issuer, served>>

\* The service starts with the certificate that "active" names.  It is started by
\* the installation, after the initial certificate.
StartService ==
    /\ tls.active # None
    /\ served' = tls.active
    /\ proc' = Idle
    /\ claim' = IF proc.op = "none" THEN claim ELSE "failed"
    /\ UNCHANGED <<tls, issuer>>

-----------------------------------------------------------------------------

Proceed ==
    \/ MakeHome \/ MarkHome \/ Order \/ TakeMaterial \/ Publish \/ EnterProgram \/ CopyProgram \/ StartTimer
    \/ Compare \/ MakeGeneration \/ FillGeneration \/ LinkTarget \/ PointTarget \/ Restart
    \/ LinkBack \/ PointPreviousBack \/ RestartBack \/ KeepLink \/ KeepPoint \/ Prune

Next ==
    \/ StartIssue \/ StartRenew \/ StartEnable
    \/ \E m \in Materials : StartInstall(m) \/ StartReplace(m)
    \/ Proceed \/ OrderFails \/ PublishFails \/ Refuse
    \/ Kill \/ StartService

Spec == Init /\ [][Next]_vars

(* Fairness.  A command goes on, and the timer fires again and again.       *)
FairSpec == Spec /\ WF_vars(Proceed) /\ SF_vars(StartRenew)
=============================================================================
