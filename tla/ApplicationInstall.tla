------------------------- MODULE ApplicationInstall -------------------------
(***************************************************************************)
(* Installation of an application on its own node (scripts/service_        *)
(* operations.py, nextcloud_operations.py, portable_application_install.py *)
(* gateway_operations.py with their runtimes): chat, files, the frontend   *)
(* of a portable site, or the regional gateway.                            *)
(*                                                                         *)
(* One command does everything, and the operator repeats it until it       *)
(* succeeds.  It is a list of steps that survive: a file that exists with  *)
(* the wanted content is kept, any other content is refused.  A file is    *)
(* written in place, so what is killed in a write stays partial.  systemd  *)
(* starts the containers; enabled units come back after a power cut, the   *)
(* firewall table does not.                                                *)
(*                                                                         *)
(* Not told apart: the files of one step, the operator's inputs (they are  *)
(* the same at every repetition), images and packages.                     *)
(***************************************************************************)
EXTENDS Naturals, Sequences

CONSTANTS
    Secrets,        \* credentials that may be drawn
    None,
    MaxCuts         \* bound on failures, kills and power cuts together

VARIABLES
    site,       \* what is installed here
    disk,       \* the files, by the step that writes them
    database,   \* the credential the database was initialised with
    bootstrap,  \* the application's own first configuration, and who still writes it
    settled,    \* what was changed inside the running application
    fence,      \* the firewall table in the kernel
    units,      \* what systemd was asked to run, what runs, what it starts at boot
    proc,       \* the command
    cuts,
    done        \* the command has reported success

vars == <<site, disk, database, bootstrap, settled, fence, units, proc, cuts, done>>

Files == {"network", "base", "owner", "folders", "runtime", "secrets", "data", "configuration",
          "tls", "program", "services", "seeded", "identity", "application-config"}
Units == {"postgres", "application", "proxy"}

Steps == Files \union {"install", "freeze", "fence", "database", "demote", "controls",
                       "application", "verify", "enable", "proxy"}

TypeOK ==
    /\ site \in [app : {"matrix", "nextcloud", "frontend", "gateway"}, portable : BOOLEAN]
    /\ disk \in [Files -> {"absent", "partial", "whole"} \union Secrets]
    /\ database \in {None, "initialising", "torn"} \union Secrets
    /\ bootstrap \in [config : {"absent", "partial", "whole"}, running : BOOLEAN, used : BOOLEAN]
    /\ settled \subseteq {"demoted", "controls"}
    /\ fence \in BOOLEAN
    /\ units \in [asked : SUBSET Units, up : SUBSET Units, enabled : BOOLEAN]
    /\ proc \in [at : Nat, busy : BOOLEAN, secret : Secrets \union {None}]
    /\ cuts \in 0..MaxCuts
    /\ done \in BOOLEAN

Idle == [at |-> 0, busy |-> FALSE, secret |-> None]

Init ==
    /\ site \in [app : {"matrix", "nextcloud"}, portable : BOOLEAN]
                \union {[app |-> "frontend", portable |-> TRUE], [app |-> "gateway", portable |-> FALSE]}
    /\ disk = [f \in Files |-> "absent"]
    /\ database = None
    /\ bootstrap = [config |-> "absent", running |-> FALSE, used |-> FALSE]
    /\ settled = {}
    /\ fence = FALSE
    /\ units = [asked |-> {}, up |-> {}, enabled |-> FALSE]
    /\ proc = Idle
    /\ cuts = 0
    /\ done = FALSE

-----------------------------------------------------------------------------
(* The installers.                                                         *)

MatrixSteps ==
    <<"base", "owner", "folders", "runtime", "secrets", "data", "configuration", "tls", "program",
      "services", "fence", "enable", "proxy">>

\* A plausible mistake, not part of the specification: enabled before it is prepared.
NextcloudEnablesEarly ==
    <<"base", "owner", "folders", "runtime", "secrets", "data", "configuration", "program",
      "services", "fence", "enable", "database", "seeded", "install", "identity",
      "application-config", "freeze", "demote", "tls", "controls", "application", "verify", "proxy">>

NextcloudSteps ==
    <<"base", "owner", "folders", "runtime", "secrets", "data", "configuration", "program",
      "services", "fence", "database", "seeded", "install", "identity", "application-config",
      "freeze", "demote", "tls", "controls", "application", "verify", "enable", "proxy">>

FrontendSteps == <<"base", "owner", "program", "services", "data", "tls", "enable", "proxy">>

\* The store, its recovery scope and archive, then the program; a change of the policy to
\* the empty one shuts the firewall and starts the proxy.
GatewaySteps ==
    <<"base", "owner", "configuration", "data", "program", "tls", "services", "fence", "proxy", "enable">>

\* The portable backend records the node's identity before it calls the installer.
Installer(app) ==
    CASE app = "matrix" -> MatrixSteps
      [] app = "nextcloud" -> NextcloudSteps
      [] app = "frontend" -> FrontendSteps
      [] app = "gateway" -> GatewaySteps

Plan ==
    IF site.portable /\ site.app # "frontend" THEN <<"network">> \o Installer(site.app)
    ELSE Installer(site.app)

-----------------------------------------------------------------------------

Running == proc.at > 0
At(s) == Running /\ Plan[proc.at] = s

\* A command goes on to its next step, or returns after the last.
Continue ==
    IF proc.at = Len(Plan) THEN proc' = Idle /\ done' = TRUE
    ELSE proc' = [proc EXCEPT !.at = @ + 1, !.busy = FALSE] /\ UNCHANGED done

Refuse == proc' = Idle /\ UNCHANGED done

Content(f) ==
    IF f = "secrets" \/ (f = "configuration" /\ site.app = "matrix") THEN proc.secret ELSE "whole"

\* A plausible mistake: what exists is never accepted.
NeverKept(f) == FALSE
Kept(f) == disk[f] = Content(f)

Kernel == <<fence, units>>
Data == <<database, bootstrap, settled>>

\* The marker is what makes the paths owned: without it everything has to be absent.
Owned == disk["owner"] = "whole"
Fresh == \A f \in Files \ {"network"} : disk[f] = "absent"

StartInstall ==
    /\ ~Running
    /\ Owned \/ Fresh
    /\ proc' = [Idle EXCEPT !.at = 1]
    /\ UNCHANGED <<site, disk, Data, Kernel, cuts, done>>

\* The steps up to the application's identity are skipped once it was saved, and the
\* identity is taken from a configuration that says it is installed.
Skipped(f) == f = "seeded" /\ disk["identity"] = "whole"
Obtainable(f) == f = "identity" => bootstrap.config = "whole"

\* The gateway's documents are written beside and renamed; its store takes several.
Atomic(f) == site.app = "gateway" /\ f \in {"configuration", "data"}

WriteAtomic ==
    /\ \E f \in Files :
           /\ At(f) /\ Atomic(f) /\ disk[f] = "absent"
           /\ disk' = [disk EXCEPT ![f] = "whole"]
    /\ Continue
    /\ UNCHANGED <<site, Data, Kernel, cuts>>

\* write() and directory(): create what is absent, in place.
BeginWrite ==
    /\ \E f \in Files \ {"secrets"} :
           /\ At(f) /\ ~proc.busy /\ ~Atomic(f)
           /\ disk[f] = "absent" /\ ~Skipped(f) /\ Obtainable(f)
           /\ disk' = [disk EXCEPT ![f] = "partial"]
    /\ proc' = [proc EXCEPT !.busy = TRUE]
    /\ UNCHANGED <<site, Data, Kernel, cuts, done>>

EndWrite ==
    /\ proc.busy
    /\ \E f \in Files : At(f) /\ disk' = [disk EXCEPT ![f] = Content(f)]
    /\ Continue
    /\ UNCHANGED <<site, Data, Kernel, cuts>>

\* What exists as it is wanted is kept.
Keep ==
    /\ \E f \in Files \ {"secrets"} : At(f) /\ ~proc.busy /\ (Kept(f) \/ Skipped(f))
    /\ Continue
    /\ UNCHANGED <<site, disk, Data, Kernel, cuts>>

\* Anything else is refused.
RefuseFile ==
    /\ \E f \in Files \ {"secrets"} :
           /\ At(f) /\ ~proc.busy /\ ~Kept(f) /\ ~Skipped(f)
           /\ disk[f] # "absent" \/ ~Obtainable(f)
    /\ Refuse
    /\ UNCHANGED <<site, disk, Data, Kernel, cuts>>

\* A plausible mistake: every run draws credentials of its own.
DrawSecrets ==
    /\ At("secrets") /\ ~proc.busy
    /\ \E s \in Secrets : proc' = [proc EXCEPT !.busy = TRUE, !.secret = s]
    /\ disk' = [disk EXCEPT !["secrets"] = "partial"]
    /\ UNCHANGED <<site, Data, Kernel, cuts, done>>

\* The saved credentials are read again; new ones are drawn only where no data exists.
Drawable == disk["secrets"] = "absent" /\ database = None
ReadSecrets ==
    /\ At("secrets") /\ ~proc.busy
    /\ \/ disk["secrets"] \in Secrets
          /\ proc' = [proc EXCEPT !.at = @ + 1, !.secret = disk["secrets"]]
          /\ UNCHANGED <<disk, done>>
       \/ disk["secrets"] \in {"partial", "absent"} /\ ~Drawable /\ Refuse /\ UNCHANGED disk
       \/ /\ Drawable
          /\ \E s \in Secrets : proc' = [proc EXCEPT !.busy = TRUE, !.secret = s]
          /\ disk' = [disk EXCEPT !["secrets"] = "partial"]
          /\ UNCHANGED done
    /\ UNCHANGED <<site, Data, Kernel, cuts>>

-----------------------------------------------------------------------------
(* The steps that are not files.                                           *)

CreateFence ==
    /\ At("fence")
    /\ fence' = TRUE
    /\ Continue
    /\ UNCHANGED <<site, disk, Data, units, cuts>>

\* occ maintenance:install in a container, unless a configuration is there already.
BeginInstall ==
    /\ At("install") /\ ~proc.busy
    /\ disk["identity"] # "whole" /\ bootstrap.config = "absent"
    /\ "postgres" \in units.up
    /\ bootstrap' = [config |-> "partial", running |-> TRUE, used |-> bootstrap.used]
    /\ proc' = [proc EXCEPT !.busy = TRUE]
    /\ UNCHANGED <<site, disk, database, settled, Kernel, cuts, done>>

\* The container works on when the command is killed; it needs the database.
InstallEnds ==
    /\ bootstrap.running /\ "postgres" \in units.up
    /\ bootstrap' = [config |-> "whole", running |-> FALSE, used |-> TRUE]
    /\ UNCHANGED <<site, disk, database, settled, Kernel, proc, cuts, done>>

Installed ==
    /\ At("install")
    /\ IF proc.busy THEN ~bootstrap.running
       ELSE disk["identity"] = "whole" \/ bootstrap.config # "absent"
    /\ IF proc.busy /\ bootstrap.config = "partial" THEN Refuse ELSE Continue
    /\ UNCHANGED <<site, disk, Data, Kernel, cuts>>

\* The identity is saved: the first configuration goes before the code becomes readable.
Freeze ==
    /\ At("freeze")
    /\ bootstrap' = [bootstrap EXCEPT !.config = "absent"]
    /\ Continue
    /\ UNCHANGED <<site, disk, database, settled, Kernel, cuts>>

\* The application's account loses its powers over the database, and sharing is shut.
Change(step, what, unit) ==
    /\ At(step) /\ unit \in units.up
    /\ settled' = settled \union {what}
    /\ Continue
    /\ UNCHANGED <<site, disk, database, bootstrap, Kernel, cuts>>

Demote == Change("demote", "demoted", "postgres")
Controls == Change("controls", "controls", "postgres")

Verify ==
    /\ At("verify") /\ "application" \in units.up
    /\ IF "controls" \in settled THEN Continue ELSE Refuse
    /\ UNCHANGED <<site, disk, Data, Kernel, cuts>>

-----------------------------------------------------------------------------
(* systemd.                                                                *)

\* Requires=: a unit pulls in the ones before it.
Requires(u) ==
    IF site.app \in {"frontend", "gateway"} THEN {}
    ELSE CASE u = "postgres" -> {} [] u = "application" -> {"postgres"}
           [] u = "proxy" -> {"postgres", "application"}

Pulled(u) == Requires(u) \union {u}

\* systemctl enable; the files and the frontend also start what they enable.
Enable ==
    /\ At("enable")
    /\ units' = [units EXCEPT !.enabled = TRUE,
                              !.asked = IF site.app = "matrix" THEN @ ELSE @ \union Pulled("proxy")]
    /\ Continue
    /\ UNCHANGED <<site, disk, Data, fence, cuts>>

\* systemctl start asks and waits for readiness.
Ask ==
    /\ \E s \in {"database", "application", "proxy"} :
           /\ At(s)
           /\ LET u == IF s = "database" THEN "postgres" ELSE s IN
              units' = [units EXCEPT !.asked = @ \union Pulled(u)]
    /\ units' # units
    /\ UNCHANGED <<site, disk, Data, fence, proc, cuts, done>>

Ready(u) == Pulled(u) \subseteq units.up

Waited ==
    /\ \E s \in {"database", "application", "proxy"} :
           At(s) /\ Ready(IF s = "database" THEN "postgres" ELSE s)
    /\ Continue
    /\ UNCHANGED <<site, disk, Data, Kernel, cuts>>

\* The database never becomes ready.
WaitFails ==
    /\ At("database") \/ At("proxy") \/ At("install") \/ At("demote") \/ At("controls")
    /\ database = "torn"
    /\ Refuse
    /\ UNCHANGED <<site, disk, Data, Kernel, cuts>>

\* A unit's own preparation: the proxy makes the firewall table, the files' application
\* applies the sharing controls before it is launched.
Startable(u) ==
    /\ u \in units.asked \ units.up
    /\ Requires(u) \subseteq units.up
    /\ u = "postgres" => database \in Secrets

UnitStarts(u) ==
    /\ Startable(u)
    /\ units' = [units EXCEPT !.up = @ \union {u}]
    /\ fence' = (fence \/ u = "proxy")
    /\ settled' = IF u = "application" /\ site.app = "nextcloud" THEN settled \union {"controls"}
                  ELSE settled
    /\ UNCHANGED <<site, disk, database, bootstrap, proc, cuts, done>>

\* The image initialises an empty directory with the credential on disk.
InitialiseDatabase ==
    /\ "postgres" \in units.asked \ units.up
    /\ database = None
    /\ database' = "initialising"
    /\ UNCHANGED <<site, disk, bootstrap, settled, Kernel, proc, cuts, done>>

DatabaseInitialised ==
    /\ database = "initialising"
    /\ database' = disk[IF site.app = "matrix" THEN "configuration" ELSE "secrets"]
    /\ UNCHANGED <<site, disk, bootstrap, settled, Kernel, proc, cuts, done>>

-----------------------------------------------------------------------------
(* Faults.                                                                 *)

Bounded == cuts < MaxCuts /\ cuts' = cuts + 1

\* An error, a timeout or a kill ends the command where it is.
Cut ==
    /\ Bounded
    /\ Running
    /\ proc' = Idle
    /\ UNCHANGED <<site, disk, Data, Kernel, done>>

\* A container ends; so does the application's installation without its database.
UnitCrashes ==
    /\ Bounded
    /\ \E u \in units.up :
           /\ units' = [units EXCEPT !.up = @ \ {u}]
           /\ bootstrap' = [bootstrap EXCEPT !.running = @ /\ u # "postgres"]
    /\ UNCHANGED <<site, disk, database, settled, fence, proc, done>>

PowerCut ==
    /\ Bounded
    /\ proc' = Idle
    /\ fence' = FALSE
    /\ units' = [units EXCEPT !.up = {}, !.asked = IF units.enabled THEN Pulled("proxy") ELSE {}]
    /\ database' = IF database = "initialising" THEN "torn" ELSE database
    /\ bootstrap' = [bootstrap EXCEPT !.running = FALSE]
    /\ UNCHANGED <<site, disk, settled, done>>

-----------------------------------------------------------------------------

Command ==
    \/ WriteAtomic \/ BeginWrite \/ EndWrite \/ Keep \/ RefuseFile \/ ReadSecrets
    \/ CreateFence \/ BeginInstall \/ Installed \/ Freeze \/ Demote \/ Controls \/ Verify
    \/ Enable \/ Ask \/ Waited \/ WaitFails

Systemd ==
    \/ \E u \in Units : UnitStarts(u)
    \/ InitialiseDatabase \/ DatabaseInitialised \/ InstallEnds

Next == StartInstall \/ Command \/ Systemd \/ Cut \/ UnitCrashes \/ PowerCut

\* The command and systemd go on, and the operator repeats a command that failed.
Fairness == WF_vars(StartInstall) /\ WF_vars(Command) /\ WF_vars(Systemd)

Spec == Init /\ [][Next]_vars
FairSpec == Spec /\ Fairness

-----------------------------------------------------------------------------

\* Whatever was cut and repeated, the credentials on the disk open the database that was
\* initialised with them, and an application that was set up has its identity in one of
\* the two places: no repetition draws a secret anew or skips what it cannot redo.
DataUsable ==
    /\ database \in Secrets =>
           /\ disk["secrets"] = database
           /\ site.app = "matrix" => disk["configuration"] = database
    /\ bootstrap.used => bootstrap.config = "whole" \/ disk["identity"] = "whole"

\* Nothing is served before it is prepared, after a power cut in the middle as well: with
\* the proxy up the firewall table is there, the files' database account is demoted, sharing
\* is shut, and the first configuration with its secrets is gone from the readable code.
ServedPrepared ==
    "proxy" \in units.up =>
        /\ fence
        /\ site.app = "nextcloud" =>
               settled = {"demoted", "controls"} /\ bootstrap.config = "absent"

\* What no repetition gets over: a partial file or first configuration that nobody is
\* writing any more, paths without the marker that owns them, a torn database.
Wedged ==
    \/ ~proc.busy /\ \E f \in Files : disk[f] = "partial"
    \/ ~Running /\ disk["base"] # "absent" /\ disk["owner"] # "whole"
    \/ bootstrap.config = "partial" /\ ~bootstrap.running
    \/ database = "torn"

\* An installation that was cut, at a point where nothing is torn, is completed by
\* repeating it.
InstallResumes == <>(done \/ Wedged)
=============================================================================
