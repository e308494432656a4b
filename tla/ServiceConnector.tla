-------------------------- MODULE ServiceConnector --------------------------
(***************************************************************************)
(* The regional connector of an application (scripts/service_link.py and   *)
(* service_regional.py for chat, nextcloud_link.py and nextcloud_regional. *)
(* py for files; the two differ in the order of a few steps).              *)
(*                                                                         *)
(* attach validates a reviewed document, writes it as pending, suspends    *)
(* the connector, stops the two units, writes and validates the            *)
(* configuration, lifts the suspension and starts the units.  A unit loads *)
(* the connector when it starts and finds it active.  disable suspends and *)
(* restarts.  A start under the marker of a restore or an upgrade suspends *)
(* the connector until it is attached again.                               *)
(*                                                                         *)
(* One operation lock covers attach, disable, restore and upgrade.         *)
(***************************************************************************)
CONSTANTS
    Configs,        \* what prepare makes of reviewed documents
    NoDocument

ASSUME NoConfigAssumption == NoDocument \notin Configs /\ "down" \notin Configs /\ "inner" \notin Configs

VARIABLES
    package,    \* the application of this machine
    transition,       \* the running command
    link,       \* /etc/rdc-service-regional: pending.json, disabled.json, configuration.json
    units,      \* what each unit has loaded
    marker,     \* a pending restore or upgrade
    checked,    \* configurations the proxy's own validation passed
    stale,      \* the application's data was replaced after the last review
    outcome     \* what the last command reported

linkVars == <<package, transition, link, units, marker, checked, stale, outcome>>

Units == {"application", "proxy"}
Loads == Configs \union {"down", "inner"}       \* "inner": no connector
Steps == {"idle", "pending", "disabled", "stop", "write", "validate", "lift", "enable", "restart",
          "fail", "failDisabled", "failRestart", "suspend", "inner", "clear"}
Outcomes == {"none", "configured", "disabled", "failed"}

LinkTypeOK ==
    /\ package \in {"matrix", "nextcloud"}
    /\ transition \in [pc : Steps, config : Configs \union {NoDocument}]
    /\ link \in [pending : Configs \union {NoDocument}, disabled : BOOLEAN, conf : Configs \union {NoDocument}]
    /\ units \in [Units -> Loads]
    /\ marker \in BOOLEAN /\ stale \in BOOLEAN /\ checked \subseteq Configs
    /\ outcome \in Outcomes

NoTransition == [pc |-> "idle", config |-> NoDocument]

\* The application is installed and runs without a connector.
LinkInit ==
    /\ package \in {"matrix", "nextcloud"}
    /\ transition = NoTransition
    /\ link = [pending |-> NoDocument, disabled |-> FALSE, conf |-> NoDocument]
    /\ units = [u \in Units |-> "inner"]
    /\ marker = FALSE /\ checked = {} /\ stale = FALSE /\ outcome = "none"

-----------------------------------------------------------------------------
(* Plausible mistakes; no specification uses them.                         *)

\* materialize: a start under the marker leaves the suspension on disk.
WhileMarked == link.disabled
Suspended == link.disabled \/ marker

\* The handler of a failed attach suspends again before it restarts.
ThenRestart == "failRestart"
AfterFailure == "failDisabled"

-----------------------------------------------------------------------------

At(step) == transition.pc = step
Continue(step) == transition' = [transition EXCEPT !.pc = step]
Report(o) == transition' = NoTransition /\ outcome' = o

\* What a unit that starts now loads: active(settings).
Loaded(l, m) ==
    IF l.disabled \/ l.pending # NoDocument \/ m \/ l.conf = NoDocument THEN "inner" ELSE l.conf

\* Chat writes the configuration and has the proxy validate it in place; files validate
\* a candidate first.
Order == [matrix |-> [stop |-> "write", write |-> "validate", validate |-> "lift"],
          nextcloud |-> [stop |-> "validate", validate |-> "write", write |-> "lift"]]

\* One document at a time: one that is pending is resumed only as it is.
Resumable(c) == link.pending \in {NoDocument, c}

\* What disable finds installed; for chat a pending first attachment is not.
Installed == link.conf # NoDocument \/ (package = "nextcloud" /\ link.pending # NoDocument)

-----------------------------------------------------------------------------
(* attach.                                                                 *)

\* The operator reviews the document and confirms it.
AttachConnector(c) ==
    /\ At("idle") /\ ~marker
    /\ Resumable(c)
    /\ transition' = [pc |-> "pending", config |-> c]
    /\ outcome' = "none"
    /\ UNCHANGED <<link, units, marker, checked, stale>>

WritePending ==
    /\ At("pending")
    /\ link' = [link EXCEPT !.pending = transition.config]
    /\ Continue("disabled")
    /\ UNCHANGED <<units, marker, checked, stale, outcome>>

WriteDisabled ==
    /\ At("disabled")
    /\ link' = [link EXCEPT !.disabled = TRUE]
    /\ Continue("stop")
    /\ UNCHANGED <<units, marker, checked, stale, outcome>>

StopUnits ==
    /\ At("stop")
    /\ units' = [u \in Units |-> "down"] /\ Continue(Order[package].stop)
    /\ UNCHANGED <<link, marker, checked, stale, outcome>>

WriteConfiguration ==
    /\ At("write")
    /\ link' = [link EXCEPT !.conf = transition.config]
    /\ Continue(Order[package].write)
    /\ UNCHANGED <<units, marker, checked, stale, outcome>>

Validate ==
    /\ At("validate")
    /\ checked' = checked \union {transition.config}
    /\ Continue(Order[package].validate)
    /\ UNCHANGED <<link, units, marker, stale, outcome>>

LiftPending ==
    /\ At("lift")
    /\ link' = [link EXCEPT !.pending = NoDocument]
    /\ Continue("enable")
    /\ UNCHANGED <<units, marker, checked, stale, outcome>>

LiftDisabled ==
    /\ At("enable")
    /\ link' = [link EXCEPT !.disabled = FALSE]
    /\ stale' = FALSE
    /\ Continue("restart")
    /\ UNCHANGED <<units, marker, checked, outcome>>

\* systemctl restart of both units, then their readiness.
Restart(step, o) ==
    /\ At(step)
    /\ units' = [u \in Units |-> Loaded(link, marker)]
    /\ IF o = "clear" THEN Continue("clear") /\ UNCHANGED outcome ELSE Report(o)
    /\ UNCHANGED <<link, marker, checked, stale>>

RestartAttached == Restart("restart", "configured")

\* Any of these raises.  A stop or a restart that fails leaves each unit as it was,
\* down or started.
Disturbed == {f \in [Units -> Loads] : \A u \in Units : f[u] \in {units[u], "down", Loaded(link, marker)}}

AttachFails ==
    /\ transition.pc \in {"stop", "write", "validate", "lift", "enable", "restart"}
    /\ IF transition.pc \in {"stop", "restart"} THEN units' \in Disturbed ELSE UNCHANGED units
    /\ Continue("fail")
    /\ UNCHANGED <<link, marker, checked, stale, outcome>>

\* except BaseException: both records are written again, then a restart is tried.
FailPending ==
    /\ At("fail")
    /\ link' = [link EXCEPT !.pending = transition.config]
    /\ Continue(AfterFailure)
    /\ UNCHANGED <<units, marker, checked, stale, outcome>>

FailDisabled ==
    /\ At("failDisabled")
    /\ link' = [link EXCEPT !.disabled = TRUE]
    /\ Continue("failRestart")
    /\ UNCHANGED <<units, marker, checked, stale, outcome>>

FailRestart ==
    /\ At("failRestart")
    /\ units' \in Disturbed
    /\ Report("failed")
    /\ UNCHANGED <<link, marker, checked, stale>>

-----------------------------------------------------------------------------
(* disable.                                                                *)

\* Where nothing is installed the command answers so and does nothing.
Disable ==
    /\ At("idle") /\ ~marker /\ Installed
    /\ Continue("suspend") /\ outcome' = "none"
    /\ UNCHANGED <<link, units, marker, checked, stale>>

Suspend ==
    /\ At("suspend")
    /\ link' = [link EXCEPT !.disabled = TRUE]
    /\ Continue("inner")
    /\ UNCHANGED <<units, marker, checked, stale, outcome>>

RestartDisabled == Restart("inner", "clear")

DisableFails ==
    /\ At("inner")
    /\ units' \in Disturbed
    /\ Report("none")
    /\ UNCHANGED <<link, marker, checked, stale>>

ClearPending ==
    /\ At("clear")
    /\ link' = [link EXCEPT !.pending = NoDocument]
    /\ Report("disabled")
    /\ UNCHANGED <<units, marker, checked, stale>>

-----------------------------------------------------------------------------
(* The units, and restore or upgrade, which hold the same lock.            *)

\* A unit starts: after a crash, at boot, or by a restore or an upgrade.
UnitStarts(u) ==
    /\ transition.pc \notin {"write", "validate", "lift", "enable", "restart"} \/ units[u] # "down"
    /\ link' = [link EXCEPT !.disabled = Suspended]
    /\ units' = [units EXCEPT ![u] = Loaded(link', marker)]
    /\ UNCHANGED <<transition, marker, checked, stale, outcome>>

Fence ==
    /\ At("idle") /\ ~marker
    /\ marker' = TRUE /\ units' = [u \in Units |-> "down"] /\ outcome' = "none"
    /\ UNCHANGED <<transition, link, checked, stale>>

\* The owned data is swapped while the units are down.
ReplaceData ==
    /\ At("idle") /\ marker /\ \A u \in Units : units[u] = "down"
    /\ stale' = TRUE
    /\ UNCHANGED <<transition, link, units, marker, checked, outcome>>

\* The marker goes only after every unit was started and verified under it.
Unfence ==
    /\ At("idle") /\ marker /\ \A u \in Units : units[u] # "down"
    /\ marker' = FALSE
    /\ UNCHANGED <<transition, link, units, checked, stale, outcome>>

Kill ==
    /\ ~At("idle")
    /\ Report("none")
    /\ UNCHANGED <<link, units, marker, checked, stale>>

\* Nothing but the disk survives; the units start again one by one.
Reboot ==
    /\ Report("none")
    /\ units' = [u \in Units |-> "down"]
    /\ UNCHANGED <<link, marker, checked, stale>>

LinkStep ==
    \/ WritePending \/ WriteDisabled \/ StopUnits \/ WriteConfiguration \/ Validate
    \/ LiftPending \/ LiftDisabled \/ RestartAttached
    \/ FailPending \/ FailDisabled \/ FailRestart
    \/ Suspend \/ RestartDisabled \/ ClearPending

LinkNext ==
    /\ \/ \E c \in Configs : AttachConnector(c)
       \/ Disable \/ LinkStep \/ AttachFails \/ DisableFails
       \/ \E u \in Units : UnitStarts(u)
       \/ Fence \/ ReplaceData \/ Unfence \/ Kill \/ Reboot
    /\ UNCHANGED package

LinkSpec == LinkInit /\ [][LinkNext]_linkVars

-----------------------------------------------------------------------------

\* A unit never speaks to partners by a configuration that the proxy's validation did
\* not pass, nor, once a restore or an upgrade replaced the application's data, before
\* the connector is attached again: whatever is cut, pending.json, disabled.json or the
\* marker holds it back.
LoadedWasReviewed == \A u \in Units : units[u] \in Configs => units[u] \in checked /\ ~stale

\* What a command reports is so: "configured" means that both units run this
\* configuration, "disabled" that none has a connector, and a failed attach leaves the
\* connector suspended for the next start.
OutcomeTrue ==
    /\ outcome = "configured" =>
           link.pending = NoDocument /\ ~link.disabled /\ \A u \in Units : units[u] \in {link.conf, "down"}
    /\ outcome = "disabled" => link.disabled /\ \A u \in Units : units[u] \notin Configs
    /\ outcome = "failed" => link.disabled /\ link.pending # NoDocument
=============================================================================
