-------------------------- MODULE GuestProvisioning --------------------------
(***************************************************************************)
(* The guests of a portable site on a Proxmox host (scripts/proxmox_       *)
(* provision.py, guest_upload.py, guest_installation.py, proxmox_api.py).  *)
(*                                                                         *)
(* allocate creates stopped, disconnected shells; upload brings the        *)
(* verified installation medium to the host's storage; attach, start,      *)
(* finish, boot and confirm take one guest through a console installation. *)
(* Each has a journal on the administrator's disk and a description on the *)
(* host that carries the stage.                                            *)
(*                                                                         *)
(* A request to the host may be executed at once, late or never, and its   *)
(* answer may be lost; the program repeats none by itself.  A change of a  *)
(* configuration carries the digest of the one it was computed from, which *)
(* here is its stage: nothing else changes it.  Operators start and stop   *)
(* guests from the console.  One lock covers the folder's commands; only   *)
(* allocate takes none, and asks for nothing but guests that do not exist. *)
(***************************************************************************)
EXTENDS Naturals, FiniteSets

CONSTANTS
    Guests,
    Volumes,        \* names of uploads, each drawn once
    None,
    MaxPosts        \* bound on equal requests that are sent

ASSUME MaxPostsAssumption == MaxPosts \in Nat
ASSUME NoVolumeAssumption == None \notin Volumes

VARIABLES
    vm,         \* the guests on the host
    store,      \* the uploaded volumes on the host
    journal,    \* the guests' journals
    upload,     \* the upload's record
    proc,       \* the running command
    flight,     \* requests sent and not executed yet
    sent        \* how many start requests were sent for each purpose

vars == <<vm, store, journal, upload, proc, flight, sent>>

Phases == {"new", "attach-requested", "media-attached", "installer-start-requested",
           "finish-requested", "disk-ready", "disk-start-requested", "disk-boot-observed",
           "guest-installed-attested"}
Changes == {"attach", "finish"}
Starts == {"start", "boot"}
Requests == [kind : {"create"} \union Changes \union Starts, guest : Guests]
Ops == {"none", "allocate", "upload", "confirm"} \union Changes \union Starts

TypeOK ==
    /\ vm \in [Guests -> [power : {"none", "stopped", "running"},
                          stage : {"shell", "attached", "disk-ready"},
                          cd : Volumes \union {None}]]
    /\ store \in [Volumes -> {"absent", "partial", "whole", "failed"}]
    /\ journal \in [Guests -> Phases]
    /\ upload \in [phase : {"none", "requested", "uploaded"}, volume : Volumes \union {None},
                   task : BOOLEAN]
    /\ proc \in [op : Ops, pc : {"idle", "journal", "send", "wait", "settle", "record", "task"},
                 guests : SUBSET Guests]
    /\ flight \in [Requests -> 0..MaxPosts]
    /\ sent \in [Guests -> [Starts -> Nat]]

Idle == [op |-> "none", pc |-> "idle", guests |-> {}]

Init ==
    /\ vm = [g \in Guests |-> [power |-> "none", stage |-> "shell", cd |-> None]]
    /\ store = [v \in Volumes |-> "absent"]
    /\ journal = [g \in Guests |-> "new"]
    /\ upload = [phase |-> "none", volume |-> None, task |-> FALSE]
    /\ proc = Idle
    /\ flight = [r \in Requests |-> 0]
    /\ sent = [g \in Guests |-> [s \in Starts |-> 0]]

-----------------------------------------------------------------------------
(* Plausible mistakes; no specification uses them.                         *)

\* The journal records the intent before the request that may get lost.
SendFirst == "send"
AfterObserve == "journal"

\* The digest: a change is refused when the configuration is not the one it was
\* computed from.
NoDigest(kind, stage) == TRUE
SameDigest(kind, stage) == stage = IF kind = "attach" THEN "shell" ELSE "attached"

-----------------------------------------------------------------------------

Busy(op, pc) == proc.op = op /\ proc.pc = pc
Go(pc) == proc' = [proc EXCEPT !.pc = pc]
Return == proc' = Idle
Host == <<vm, store>>
Disk == <<journal, upload>>

\* The receipt: the medium is there, whole, and recorded.
Received == upload.phase = "uploaded" /\ store[upload.volume] = "whole"

Requested == [attach |-> "attach-requested", start |-> "installer-start-requested",
              finish |-> "finish-requested", boot |-> "disk-start-requested"]
Settled == [attach |-> "media-attached", start |-> "installer-start-requested",
            finish |-> "disk-ready", boot |-> "disk-boot-observed"]

Command(op, pc, gs) ==
    /\ proc = Idle
    /\ proc' = [op |-> op, pc |-> pc, guests |-> gs]
    /\ UNCHANGED <<vm, store, journal, upload, flight, sent>>

Post(kind, g) ==
    /\ flight[[kind |-> kind, guest |-> g]] < MaxPosts
    /\ flight' = [flight EXCEPT ![[kind |-> kind, guest |-> g]] = @ + 1]

-----------------------------------------------------------------------------
(* Shells.                                                                 *)

\* check: every guest that exists is an owned shell and stopped; the missing ones are
\* what this run creates.
StartAllocate ==
    /\ \A g \in Guests : vm[g].power # "none" => vm[g].power = "stopped" /\ vm[g].stage = "shell"
    /\ Command("allocate", "send", {g \in Guests : vm[g].power = "none"})

SendCreate ==
    /\ Busy("allocate", "send")
    /\ \E g \in proc.guests : Post("create", g) /\ proc' = [proc EXCEPT !.pc = "wait"]
    /\ UNCHANGED <<vm, store, journal, upload, sent>>

\* The task ended and the shell is the expected one.
Created ==
    /\ Busy("allocate", "wait")
    /\ \E g \in proc.guests :
           /\ vm[g].power = "stopped" /\ vm[g].stage = "shell"
           /\ proc' = IF proc.guests = {g} THEN Idle
                      ELSE [op |-> "allocate", pc |-> "send", guests |-> proc.guests \ {g}]
    /\ UNCHANGED <<vm, store, journal, upload, flight, sent>>

-----------------------------------------------------------------------------
(* The medium.                                                             *)

\* A new upload draws a name and records it before the request.
StartUpload ==
    /\ proc = Idle /\ upload.phase = "none"
    /\ \E v \in Volumes :
           /\ store[v] = "absent"
           /\ upload' = [phase |-> "requested", volume |-> v, task |-> FALSE]
    /\ proc' = [op |-> "upload", pc |-> "send", guests |-> {}]
    /\ UNCHANGED <<vm, store, journal, flight, sent>>

\* The stream is written while the request runs; its answer names the task.
SendUpload ==
    /\ Busy("upload", "send")
    /\ store' = [store EXCEPT ![upload.volume] = "partial"]
    /\ Go("record")
    /\ UNCHANGED <<vm, journal, upload, flight, sent>>

RecordTask ==
    /\ Busy("upload", "record")
    /\ upload' = [upload EXCEPT !.task = TRUE]
    /\ Go("task")
    /\ UNCHANGED <<vm, store, journal, flight, sent>>

\* A record with a task is waited for again; one without is uncertain and refused.
ResumeUpload == upload.phase # "none" /\ upload.task /\ Command("upload", "task", {})

WaitUpload ==
    /\ Busy("upload", "task")
    /\ store[upload.volume] = "whole"
    /\ upload' = [upload EXCEPT !.phase = "uploaded"]
    /\ Return
    /\ UNCHANGED <<vm, store, journal, flight, sent>>

\* The explicit local reset; what is on the host stays there.
Abandon ==
    /\ proc = Idle /\ upload.phase = "requested"
    /\ \A g \in Guests : journal[g] = "new"
    /\ upload' = [phase |-> "none", volume |-> None, task |-> FALSE]
    /\ UNCHANGED <<vm, store, journal, proc, flight, sent>>

-----------------------------------------------------------------------------
(* One guest's installation.                                               *)

\* attach, and attach again: the media is attached once.
Attach(g) ==
    /\ Received /\ journal[g] \in {"new", "attach-requested", "media-attached"}
    /\ vm[g].power = "stopped"
    /\ \/ vm[g].stage = "shell" /\ Command("attach", AfterObserve, {g})
       \/ vm[g].stage = "attached" /\ journal[g] # "new" /\ Command("attach", "settle", {g})

\* A start that was requested is never replayed.
Start(g) ==
    /\ Received /\ journal[g] = "media-attached"
    /\ vm[g].power = "stopped" /\ vm[g].stage = "attached"
    /\ Command("start", AfterObserve, {g})

Finish(g) ==
    /\ Received /\ journal[g] \in {"installer-start-requested", "finish-requested", "disk-ready"}
    /\ vm[g].power = "stopped"
    /\ \/ vm[g].stage = "attached" /\ Command("finish", AfterObserve, {g})
       \/ vm[g].stage = "disk-ready" /\ Command("finish", "settle", {g})

Boot(g) ==
    /\ Received /\ journal[g] \in {"disk-ready", "disk-start-requested", "disk-boot-observed"}
    /\ vm[g].stage = "disk-ready"
    /\ \/ vm[g].power = "stopped" /\ journal[g] = "disk-ready" /\ Command("boot", AfterObserve, {g})
       \/ vm[g].power = "running" /\ Command("boot", "settle", {g})

Confirm(g) ==
    /\ proc = Idle
    /\ Received /\ journal[g] \in {"disk-boot-observed", "guest-installed-attested"}
    /\ vm[g].stage = "disk-ready" /\ vm[g].power = "running"
    /\ journal' = [journal EXCEPT ![g] = "guest-installed-attested"]
    /\ UNCHANGED <<vm, store, upload, proc, flight, sent>>

WriteIntent ==
    /\ proc.op \in Changes \union Starts /\ proc.pc = "journal"
    /\ \E g \in proc.guests : journal' = [journal EXCEPT ![g] = Requested[proc.op]]
    /\ Go("send")
    /\ UNCHANGED <<vm, store, upload, flight, sent>>

Send ==
    /\ proc.op \in Changes \union Starts /\ proc.pc = "send"
    /\ \E g \in proc.guests :
           /\ Post(proc.op, g)
           /\ sent' = IF proc.op \in Starts THEN [sent EXCEPT ![g][proc.op] = @ + 1] ELSE sent
    /\ Go("wait")
    /\ UNCHANGED <<vm, store, journal, upload>>

\* The task ended well, and the host shows what was asked for.
Answered ==
    /\ proc.op \in Changes \union Starts /\ proc.pc = "wait"
    /\ \E g \in proc.guests :
           CASE proc.op = "attach" -> vm[g].stage = "attached"
             [] proc.op = "finish" -> vm[g].stage = "disk-ready"
             [] OTHER              -> vm[g].power = "running"
    /\ Go("settle")
    /\ UNCHANGED <<vm, store, journal, upload, flight, sent>>

Settle ==
    /\ proc.op \in Changes \union Starts /\ proc.pc = "settle"
    /\ \E g \in proc.guests : journal' = [journal EXCEPT ![g] = Settled[proc.op]]
    /\ Return
    /\ UNCHANGED <<vm, store, upload, flight, sent>>

\* The command ends early: a lost answer, a refused or unresolved task, a kill.
Cut ==
    /\ proc # Idle
    /\ Return
    /\ UNCHANGED <<vm, store, journal, upload, flight, sent>>

-----------------------------------------------------------------------------
(* The host and its operators.                                             *)

Effect(r) ==
    LET g == r.guest IN
    CASE r.kind = "create" -> IF vm[g].power = "none" THEN [vm EXCEPT ![g].power = "stopped"] ELSE vm
      [] r.kind \in Starts -> IF vm[g].power = "stopped" THEN [vm EXCEPT ![g].power = "running"] ELSE vm
      [] r.kind = "attach" /\ SameDigest("attach", vm[g].stage) ->
             [vm EXCEPT ![g] = [power |-> @.power, stage |-> "attached", cd |-> upload.volume]]
      [] r.kind = "finish" /\ SameDigest("finish", vm[g].stage) ->
             [vm EXCEPT ![g] = [power |-> @.power, stage |-> "disk-ready", cd |-> None]]
      [] OTHER -> vm

\* A request is executed, at once or long after its sender gave up, or it got lost.
Execute(r) ==
    /\ flight[r] > 0
    /\ flight' = [flight EXCEPT ![r] = @ - 1]
    /\ vm' \in {vm, Effect(r)}
    /\ UNCHANGED <<store, journal, upload, proc, sent>>

UploadEnds(v) ==
    /\ store[v] = "partial"
    /\ \E s \in {"whole", "failed"} : store' = [store EXCEPT ![v] = s]
    /\ UNCHANGED <<vm, journal, upload, proc, flight, sent>>

\* From the console: power on, or shut down.
Console(g) ==
    /\ vm[g].power # "none"
    /\ vm' = [vm EXCEPT ![g].power = IF @ = "stopped" THEN "running" ELSE "stopped"]
    /\ UNCHANGED <<store, journal, upload, proc, flight, sent>>

-----------------------------------------------------------------------------

Next ==
    \/ StartAllocate \/ SendCreate \/ Created
    \/ StartUpload \/ SendUpload \/ RecordTask \/ ResumeUpload \/ WaitUpload \/ Abandon
    \/ \E g \in Guests : Attach(g) \/ Start(g) \/ Finish(g) \/ Boot(g) \/ Confirm(g) \/ Console(g)
    \/ WriteIntent \/ Send \/ Answered \/ Settle \/ Cut
    \/ \E r \in Requests : Execute(r)
    \/ \E v \in Volumes : UploadEnds(v)

Spec == Init /\ [][Next]_vars

-----------------------------------------------------------------------------

\* The program asks for an installer session at most once, and for a disk start at most
\* once, for one guest: a lost answer, a kill, or a repeated command does not start an
\* installer over an installed disk.
StartedOnce == \A g \in Guests, s \in Starts : sent[g][s] <= 1

\* What the host shows of a guest has a journal that asked for it, and the medium of an
\* installer is a whole upload, though requests are executed late and in any order.
RemoteBacked ==
    \A g \in Guests :
        /\ vm[g].stage = "attached" =>
               /\ journal[g] \in {"attach-requested", "media-attached", "installer-start-requested",
                                  "finish-requested"}
               /\ vm[g].cd \in Volumes /\ store[vm[g].cd] = "whole"
        /\ vm[g].stage = "disk-ready" =>
               journal[g] \in {"finish-requested", "disk-ready", "disk-start-requested",
                               "disk-boot-observed", "guest-installed-attested"}
=============================================================================
