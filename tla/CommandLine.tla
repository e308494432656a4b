----------------------------- MODULE CommandLine -----------------------------
(***************************************************************************)
(* The command rdc (scripts/rdc.py) with its menu and the guide of a saved *)
(* journey (scripts/product_guide.py): what is typed, chosen or offered is *)
(* parsed, one action is run, and what it answers becomes the exit status  *)
(* of docs/operations.md.                                                  *)
(*                                                                         *)
(* What the actions do is the matter of the other modules; here they are   *)
(* the answers they can give.  An argument is its name, and the only value *)
(* that is told apart is one the parser restricts to a list.               *)
EXTENDS Sequences

VARIABLES
    phase,      \* where the process is
    origin,     \* who made the arguments: the caller, the menu or the guide
    argv,       \* the arguments
    answer,     \* what the action answered or raised
    code        \* the exit status

commandVars == <<phase, origin, argv, answer, code>>

Journeys == [purpose : {"personal", "institution", "regional"},
             services : {"matrix", "nextcloud", "both"}, network : {"new", "existing"}]

Nothing == [words |-> <<>>, given |-> {}, pick |-> "any"]

Init ==
    /\ phase = "begin" /\ origin = "line" /\ argv = Nothing
    /\ answer = "none" /\ code = 0

-----------------------------------------------------------------------------
(* The parser: the words of each command, what must and what may be given. *)

Form(words, must, may) == [words |-> words, must |-> must, may |-> may]
Each(command, last, must, may) == {Form(<<command, w>>, must, may) : w \in last}
EachOf(command, part, last, must, may) == {Form(<<command, part, w>>, must, may) : w \in last}

PortableForms ==
    Each("portable",
         {"preview", "check", "allocate-shells", "media-fetch", "media-upload", "upload-abandon",
          "guest-attach", "guest-start", "guest-finish", "guest-boot", "guest-status",
          "guest-confirm-login", "network-prepare", "network-verify", "network-check",
          "applications-prepare", "applications-verify", "applications-apply",
          "frontend-apply", "frontend-renew"},
         {"plan"},
         {"json", "settings", "tls-dir", "output-dir", "token-file", "ca-file", "media-dir",
          "state-dir", "kind", "iso-storage", "role", "operator"})

PlainForms ==
    {Form(<<"status">>, {}, {"json"}),
     Form(<<"start">>, {}, {"platform", "resume", "output-dir"}),
     Form(<<"guide">>, {"journey"}, {}), Form(<<"setup">>, {}, {"resume", "output-dir"}),
     Form(<<"infrastructure", "check">>, {"inventory"}, {}),
     Form(<<"infrastructure", "apply">>, {"inventory"}, {"ask-become-pass"}),
     Form(<<"access", "setup">>, {"inventory", "output-file"}, {}),
     Form(<<"access", "prepare">>,
          {"inventory", "output-file", "source", "destination", "service"}, {"remove"}),
     Form(<<"doctor">>, {"manifest"}, {"report"})}
    \union Each("upgrade", {"check", "apply", "recover"}, {}, {})
    \union Each("node", {"check", "apply", "enroll", "status"}, {"manifest"}, {})

BackupForms ==
    {Form(<<"backup", "setup">>, {"output-file"}, {}),
     Form(<<"backup", "configure">>, {"profile"}, {"recovery-password-file", "recovery-ssh-key-file"}),
     Form(<<"backup", "bootstrap-stage">>, {"snapshot", "package"}, {}),
     Form(<<"backup", "schedule", "enable">>, {"frequency"}, {}),
     Form(<<"backup", "target", "prepare">>, {"manifest"}, {}),
     Form(<<"backup", "target", "authorize">>, {"public_key"}, {})}
    \union Each("backup", {"initialize", "run", "status", "restore-recover", "include-services"}, {}, {})
    \union Each("backup", {"restore-stage", "bootstrap-plan", "bootstrap-apply", "restore-plan",
                           "restore-apply"}, {"snapshot"}, {})
    \union EachOf("backup", "schedule", {"disable", "status"}, {}, {})

\* "services" and "files" have the same commands.
ApplicationForms(command) ==
    {Form(<<command, "setup">>, {"output-file"}, {}), Form(<<command, "status">>, {}, {}),
     Form(<<command, "account">>, {}, IF command = "services" THEN {"admin"} ELSE {}),
     Form(<<command, "certificate">>, {"certificate", "private-key"}, {}),
     Form(<<command, "regional", "attach">>, {"document"}, {}),
     Form(<<command, "issuer", "setup">>, {"output-file"}, {}),
     Form(<<command, "issuer", "issue">>, {"profile"}, {"token-file"})}
    \union Each(command, {"check", "apply"}, {"profile"}, {})
    \union EachOf(command, "regional", {"status", "disable"}, {}, {})
    \union EachOf(command, "issuer", {"enable", "status"}, {}, {})

GatewayForms ==
    {Form(<<"gateway", "recovery", "export-token">>, {"output-file"}, {}),
     Form(<<"gateway", "issuer", "setup">>, {"identity", "output-file"}, {}),
     Form(<<"gateway", "issuer", "issue">>, {"profile"}, {"token-file"}),
     Form(<<"gateway", "certificate", "status">>, {}, {}),
     Form(<<"gateway", "certificate", "replace">>, {"certificate", "private-key"}, {}),
     Form(<<"gateway", "setup">>, {"identity", "output-file"}, {}),
     Form(<<"gateway", "policy">>, {}, {"agreement"}),
     Form(<<"gateway", "revoke">>, {"agreement_id"}, {}),
     Form(<<"gateway", "service-link">>, {"output-file"}, {"package"})}
    \union Each("gateway", {"check", "apply"}, {"profile"}, {})
    \union Each("gateway", {"status", "resume"}, {}, {})
    \union EachOf("gateway", "issuer", {"enable", "status"}, {}, {})

RegionalForms ==
    {Form(<<"regional", "setup">>, {"output-file"}, {}),
     Form(<<"regional", "inspect">>, {"document"}, {}),
     Form(<<"regional", "init">>, {"workspace", "profile"}, {}),
     Form(<<"regional", "export-identity">>, {"workspace", "output-file"}, {}),
     Form(<<"regional", "offer">>,
          {"workspace", "output-file", "peer-fingerprint", "services"}, {"days"}),
     Form(<<"regional", "accept">>, {"workspace", "document", "output-file"}, {}),
     Form(<<"regional", "export-agreement">>, {"workspace", "output-file", "agreement_id"}, {}),
     Form(<<"regional", "revoke">>, {"workspace", "agreement_id"}, {}),
     Form(<<"regional", "status">>, {"workspace"}, {})}
    \union Each("regional", {"approve", "import-agreement"}, {"workspace", "document"}, {})

ReleaseForms ==
    {Form(<<"release", "fetch">>, {"version", "commit", "output-dir"}, {}), Form(<<"version">>, {}, {})}

Forms ==
    ReleaseForms \union PortableForms \union PlainForms \union BackupForms \union GatewayForms
    \union RegionalForms \union ApplicationForms("services") \union ApplicationForms("files")

\* The values the parser lists for an argument; "any" where it takes every value.
Choices(words) ==
    CASE words = <<"backup", "bootstrap-stage">> -> {"matrix", "nextcloud", "gateway"}
      [] words \in {<<"gateway", "service-link">>, <<"regional", "offer">>} -> {"matrix", "nextcloud"}
      [] words = <<"access", "prepare">> -> {"https", "backup"}
      [] words = <<"backup", "schedule", "enable">> -> {"hourly", "daily"}
      [] OTHER -> {"any"}

Accepted(c) ==
    \E f \in Forms :
        /\ f.words = c.words /\ c.pick \in Choices(c.words)
        /\ f.must \subseteq c.given /\ c.given \subseteq f.must \union f.may

\* What a caller types: the right arguments, one too few, an unknown one, a value not listed.
Typed ==
    UNION {{[words |-> f.words, given |-> g, pick |-> p] :
               g \in {f.must, f.must \union f.may, f.must \union {"unknown"}}
                     \union {f.must \ {x} : x \in f.must},
               p \in Choices(f.words) \union {"other"}} : f \in Forms}

-----------------------------------------------------------------------------
(* The menu and the tasks of a saved journey.                              *)

Task(words, given) == [words |-> words, given |-> given, pick |-> "any"]
Picked(words, given, picks) == {[words |-> words, given |-> given, pick |-> p] : p \in picks}

MenuLines ==
    {Task(<<"setup">>, {}), Task(<<"version">>, {}), Task(<<"status">>, {}), Task(<<"start">>, {}),
     Task(<<"guide">>, {"journey"}), Task(<<"infrastructure", "check">>, {"inventory"}),
     Task(<<"infrastructure", "apply">>, {"inventory"}),
     Task(<<"infrastructure", "apply">>, {"inventory", "ask-become-pass"}),
     Task(<<"doctor">>, {"manifest"})}
    \union {Task(<<"node", a>>, {"manifest"}) : a \in {"check", "apply", "enroll", "status"}}

Selected(j) == IF j.services = "both" THEN {"matrix", "nextcloud"} ELSE {j.services}

NetworkTasks(j) ==
    {Task(<<"setup">>, {"output-dir"}), Task(<<"doctor">>, {"manifest"})}
    \union {Task(<<"infrastructure", a>>, {"inventory"}) :
               a \in IF j.network = "new" THEN {"check", "apply"} ELSE {}}
    \union {Task(<<"node", a>>, {"manifest"}) : a \in {"check", "apply", "enroll", "status"}}

ServiceTasks(command, j) ==
    {Task(<<command, "setup">>, {"output-file"}), Task(<<command, "check">>, {"profile"}),
     Task(<<command, "apply">>, {"profile"}), Task(<<command, "account">>, {}),
     Task(<<command, "status">>, {}), Task(<<command, "issuer", "setup">>, {"output-file"}),
     Task(<<command, "issuer", "issue">>, {"profile"}), Task(<<command, "issuer", "enable">>, {}),
     Task(<<command, "issuer", "status">>, {})}
    \union IF j.purpose # "regional" THEN {}
           ELSE {Task(<<command, "regional", "attach">>, {"document"}),
                 Task(<<command, "regional", "status">>, {}), Task(<<command, "regional", "disable">>, {})}

\* "@package" is asked for and must be one of the listed packages.
RecoveryPackages == {"matrix", "nextcloud", "gateway"}
LinkPackagesAll == RecoveryPackages         \* a plausible mistake; no specification uses it
LinkPackages == RecoveryPackages \ {"gateway"}

BackupTasks ==
    {Task(<<"backup", "target", "prepare">>, {"manifest"}),
     Task(<<"backup", "target", "authorize">>, {"public_key"}),
     Task(<<"backup", "setup">>, {"output-file"}), Task(<<"backup", "configure">>, {"profile"}),
     Task(<<"backup", "configure">>, {"profile", "recovery-password-file", "recovery-ssh-key-file"}),
     Task(<<"backup", "schedule", "disable">>, {})}
    \union {Task(<<"backup", a>>, {}) :
               a \in {"initialize", "include-services", "run", "status", "restore-recover"}}
    \union {Task(<<"backup", a>>, {"snapshot"}) :
               a \in {"bootstrap-plan", "bootstrap-apply", "restore-stage", "restore-plan",
                      "restore-apply"}}
    \union Picked(<<"backup", "schedule", "enable">>, {"frequency"}, {"daily"})
    \union Picked(<<"backup", "bootstrap-stage">>, {"snapshot", "package"}, RecoveryPackages)
    \union {Task(<<"upgrade", a>>, {}) : a \in {"check", "apply", "recover"}}

RegionalTasks(j) ==
    {Task(<<"regional", "setup">>, {"output-file"}), Task(<<"regional", "init">>, {"workspace", "profile"}),
     Task(<<"regional", "export-identity">>, {"workspace", "output-file"}),
     Task(<<"regional", "inspect">>, {"document"}), Task(<<"regional", "status">>, {"workspace"}),
     Task(<<"regional", "approve">>, {"workspace", "document"}),
     Task(<<"regional", "accept">>, {"workspace", "document", "output-file"}),
     Task(<<"regional", "import-agreement">>, {"workspace", "document"})}
    \union Picked(<<"regional", "offer">>,
                  {"workspace", "peer-fingerprint", "services", "output-file"}, Selected(j))

GatewayTasks ==
    {Task(<<"gateway", "setup">>, {"identity", "output-file"}),
     Task(<<"gateway", "issuer", "setup">>, {"identity", "output-file"}),
     Task(<<"gateway", "issuer", "issue">>, {"profile"}), Task(<<"gateway", "issuer", "enable">>, {}),
     Task(<<"gateway", "check">>, {"profile"}), Task(<<"gateway", "apply">>, {"profile"}),
     Task(<<"gateway", "policy">>, {}), Task(<<"gateway", "policy">>, {"agreement"}),
     Task(<<"gateway", "revoke">>, {"agreement_id"}), Task(<<"gateway", "resume">>, {}),
     Task(<<"gateway", "status">>, {})}
    \union Picked(<<"gateway", "service-link">>, {"package", "output-file"}, LinkPackages)

Tasks(j) ==
    NetworkTasks(j) \union BackupTasks
    \union (UNION {ServiceTasks(IF s = "matrix" THEN "services" ELSE "files", j) : s \in Selected(j)})
    \union IF j.purpose = "regional" THEN RegionalTasks(j) \union GatewayTasks ELSE {}

-----------------------------------------------------------------------------
(* What the actions answer, by the state they return; "soon", "unserved"   *)
(* and "changed" are evidence beside it: a certificate that expires within *)
(* fourteen days, one that is not the served one, a setting that differs.  *)

\* On the portable machine itself: its installations ask for a phrase.
PortableInstallAnswers(verb) ==
    CASE verb = "applications-prepare" -> {"applications-prepared"}
      [] verb = "applications-verify" -> {"application-kit-verified"}
      [] OTHER -> {"done", "cancelled"}

PortableAnswers(verb) ==
    CASE verb = "preview" -> {"plan-valid"}
      [] verb = "network-check" -> {"network-probes-passed", "network-check-failed"}
      [] verb \in {"applications-prepare", "applications-verify", "applications-apply",
                   "frontend-apply", "frontend-renew"} -> PortableInstallAnswers(verb)
      [] OTHER -> {"done"}

\* check: it answers before it looks at anything else when a marker exists.
ReviewAnswers == {"upgrade-pending", "already-current", "upgrade-ready"}

\* An upgrade is only asked for when the review found it ready; what it ends with is returned.
UpgradeAnswers(action) ==
    CASE action = "recover" -> {"previous-version-restored", "upgraded-service-verified"}
      [] action = "check" -> ReviewAnswers
      [] OTHER -> (ReviewAnswers \ {"upgrade-ready"}) \union {"cancelled", "upgraded-service-verified"}

AccessAnswers(action) == IF action = "setup" THEN {"prepared", "cancelled"} ELSE {"prepared"}

GatewayAnswers(words) ==
    CASE words[2] = "status" ->
            {"gateway-recovery-review-required", "gateway-change-pending", "gateway-configured",
             "gateway-enforcement-unverified", "wrong-network", "proxy-stopped"}
      [] words = <<"gateway", "certificate", "status">> ->
            {"gateway-certificate-pending", "gateway-certificate-configured", "soon", "unserved"}
      [] words[2] \in {"policy", "revoke", "resume"} -> {"gateway-policy-applied", "cancelled"}
      [] words[2] = "setup" -> {"prepared", "cancelled"}
      [] words[2] = "service-link" -> {"prepared"}
      [] words[2] = "apply" -> {"gateway-listeners-installed", "cancelled"}
      [] OTHER -> {"done"}

FilesAnswers(words) ==
    CASE words = <<"files", "status">> -> {"file-service-listeners-verified", "changed"}
      [] words[2] = "apply" -> {"file-service-listeners-verified", "changed", "cancelled"}
      [] words[2] = "setup" -> {"prepared", "cancelled"}
      [] OTHER -> {"done"}

ServicesAnswers(words) ==
    CASE words = <<"services", "status">> -> {"service-listeners-verified"}
      [] words[2] = "apply" -> {"service-listeners-verified", "cancelled"}
      [] words[2] = "setup" -> {"prepared", "cancelled"}
      [] OTHER -> {"done"}

\* A regional connector: attach, status and disable.
ConnectorAnswers(action) ==
    CASE action = "attach" -> {"connector-configured", "cancelled"}
      [] action = "status" -> {"connector-not-installed", "connector-configured", "connector-suspended"}
      [] OTHER -> {"connector-not-installed", "connector-disabled"}

IssuerAnswers(action) ==
    CASE action = "setup" -> {"prepared", "cancelled"}
      [] action = "status" ->
            {"configured", "issued", "issuance-failed", "renewal-failed", "soon", "unserved"}
      [] OTHER -> {"done"}

BackupAnswers(words) ==
    CASE words \in {<<"backup", "status">>, <<"backup", "schedule", "status">>} ->
            {"no-backup", "snapshot-present", "backup-unreachable", "backup-overdue",
             "application-backup-missing"}
      [] words[2] \in {"bootstrap-apply", "restore-apply"} -> {"restored-service-verified", "cancelled"}
      [] words[2] = "restore-recover" -> {"restored-service-verified", "previous-data-restored"}
      [] words[2] = "setup" -> {"prepared", "cancelled"}
      [] words[2] = "include-services" -> {"done", "cancelled"}
      [] OTHER -> {"done"}

RegionalAnswers(action) ==
    CASE action \in {"setup", "accept"} -> {"prepared", "cancelled"}
      [] action \in {"offer", "export-identity", "export-agreement"} -> {"prepared"}
      [] action = "revoke" -> {"approval-revoked", "cancelled"}
      [] OTHER -> {"done"}

InfrastructureAnswers(action) ==
    IF action = "apply" THEN {"installed", "cancelled"} ELSE {"checks-passed"}

NodeAnswers(action) ==
    CASE action = "apply" -> {"installed", "blocked"}
      [] action = "check" -> {"checks-passed", "blocked"}
      [] OTHER -> {"enrolled", "awaiting_enrollment", "client_not_running", "cancelled", "blocked"}

\* doctor_exit puts the checks in this order of importance.
DoctorAnswers == {"failed", "blocked", "awaiting_enrollment", "checks-passed"}

ShortAnswers(words) ==
    CASE words[1] = "portable" -> PortableAnswers(words[2])
      [] words[1] = "upgrade" -> UpgradeAnswers(words[2])
      [] words[1] = "gateway" -> GatewayAnswers(words)
      [] words[1] = "files" -> FilesAnswers(words)
      [] words[1] = "services" -> ServicesAnswers(words)
      [] words[1] = "backup" -> BackupAnswers(words)
      [] words[1] = "regional" -> RegionalAnswers(words[2])
      [] words[1] = "infrastructure" -> InfrastructureAnswers(words[2])
      [] words[1] = "node" -> NodeAnswers(words[2])
      [] words[1] = "doctor" -> DoctorAnswers
      [] words[1] = "status" -> {"attention", "checks-passed"}
      [] words[1] = "start" -> {"prepared", "draft", "cancelled", "checks-passed"}
      [] words[1] = "setup" -> {"prepared", "draft", "cancelled"}
      [] words[1] = "access" -> AccessAnswers(words[2])
      [] OTHER -> {"done"}

Answers(words) ==
    CASE Len(words) = 3 /\ words[2] = "regional" -> ConnectorAnswers(words[3])
      [] Len(words) = 3 /\ words[2] = "issuer" -> IssuerAnswers(words[3])
      [] OTHER -> ShortAnswers(words)

-----------------------------------------------------------------------------
(* From an answer to the exit status.                                      *)

SUCCESS == 0
FAILED == 1
INVALID == 2
BLOCKED == 3
PENDING == 4

result_for_state(state) ==
    CASE state \in {"prepared", "draft", "checks-passed", "installed", "enrolled"} -> SUCCESS
      [] state \in {"awaiting_enrollment", "cancelled"} -> PENDING
      [] state \in {"client_not_running", "blocked"} -> BLOCKED
      [] OTHER -> FAILED

\* The answers each command reports as blocked.
CertificateTrouble == {"soon", "unserved", "issuance-failed", "renewal-failed"}
BackupTrouble == {"no-backup", "backup-unreachable", "backup-overdue", "application-backup-missing"}

Blocking(command) ==
    CASE command = "portable" -> {"network-check-failed"}
      [] command = "upgrade" -> {"upgrade-pending"}
      [] command = "status" -> {"attention"}
      [] command = "gateway" ->
            {"gateway-change-pending", "gateway-enforcement-unverified",
             "gateway-recovery-review-required", "wrong-network", "proxy-stopped"}
      [] command = "files" -> CertificateTrouble \union {"changed"}
      [] command = "services" -> CertificateTrouble
      [] command = "backup" -> BackupTrouble
      [] OTHER -> {}

\* The commands whose states are handed on as they are.
Stated == {"start", "setup", "access", "infrastructure", "node", "doctor"}

\* A plausible mistake; no specification uses it.
ExitLost(command, a) ==
    CASE command \in Stated -> result_for_state(a)
      [] a = "cancelled" /\ command # "portable" -> PENDING
      [] OTHER -> SUCCESS

ExitOf(command, a) ==
    IF a \in Blocking(command) THEN BLOCKED
    ELSE IF command \in Stated THEN result_for_state(a)
    ELSE IF a = "cancelled" /\ command # "portable" THEN PENDING ELSE SUCCESS

\* What an action raises: a refusal, a failed program, an interruption; an unusable manifest.
\* The installation of the chat service and a restoration turn an interruption of their work
\* (not of their question) into a refusal.
Raised == {"refused", "failure", "interrupted", "invalid"}
RaisedBy(words) ==
    IF words[1] \in {"infrastructure", "node", "doctor"} THEN Raised ELSE Raised \ {"invalid"}

Guarded == {"portable", "upgrade", "access", "gateway", "regional", "files", "services",
            "backup", "release", "node"}

ExitRaised(command, e) ==
    CASE e = "invalid" -> INVALID
      [] e = "refused" /\ command \in Guarded -> BLOCKED
      [] e = "interrupted" -> PENDING
      [] OTHER -> FAILED

-----------------------------------------------------------------------------

End(a, c) == phase' = "done" /\ answer' = a /\ code' = c

Type ==
    /\ phase = "begin" /\ phase' = "parse" /\ origin' = "line" /\ argv' \in Typed
    /\ UNCHANGED <<answer, code>>

\* No argument and no terminal.
Help ==
    /\ phase = "begin" /\ End("help", SUCCESS)
    /\ UNCHANGED <<origin, argv>>

Menu ==
    /\ phase = "begin" /\ origin' = "menu"
    /\ \/ phase' = "parse" /\ argv' \in MenuLines /\ UNCHANGED <<answer, code>>
       \/ End("cancelled", PENDING) /\ UNCHANGED argv
       \/ End("invalid", INVALID) /\ UNCHANGED argv

Parse ==
    /\ phase = "parse" /\ UNCHANGED <<origin, argv>>
    /\ IF Accepted(argv)
       THEN /\ phase' = IF argv.words = <<"guide">> THEN "guide" ELSE "run"
            /\ UNCHANGED <<answer, code>>
       ELSE End("misused", INVALID)

\* choose: the journey is loaded, a part and a task of it are picked and their arguments asked.
OpenGuide ==
    /\ phase = "guide"
    /\ \/ /\ \E j \in Journeys : argv' \in Tasks(j)
          /\ origin' = "guide" /\ phase' = "parse" /\ UNCHANGED <<answer, code>>
       \/ End("cancelled", PENDING) /\ UNCHANGED <<origin, argv>>
       \/ End("refused", FAILED) /\ UNCHANGED <<origin, argv>>

Run ==
    /\ phase = "run" /\ UNCHANGED <<origin, argv>>
    /\ \/ \E a \in Answers(argv.words) : End(a, ExitOf(argv.words[1], a))
       \/ \E e \in RaisedBy(argv.words) : End(e, ExitRaised(argv.words[1], e))

Next == Type \/ Help \/ Menu \/ Parse \/ OpenGuide \/ Run

Spec == Init /\ [][Next]_commandVars

-----------------------------------------------------------------------------

\* What the menu and the guide put together is never refused by the parser they hand it to,
\* nor does a guide lead to a guide.
TasksAccepted ==
    /\ answer = "misused" => origin = "line"
    /\ origin = "guide" => phase # "guide"

Trouble ==
    CertificateTrouble \union BackupTrouble \union Raised \union
    {"misused", "failed", "blocked", "cancelled", "awaiting_enrollment", "client_not_running",
     "attention", "changed", "network-check-failed", "upgrade-pending", "gateway-change-pending",
     "gateway-enforcement-unverified", "gateway-recovery-review-required",
     "gateway-certificate-pending", "wrong-network", "proxy-stopped"}

\* Where the source differs from the table: a gateway's certificate is not looked at, and a
\* portable installation that is cancelled at its phrase counts as done.
Overlooked ==
    \/ argv.words[1] = "gateway" /\ answer \in CertificateTrouble \union {"gateway-certificate-pending"}
    \/ argv.words[1] = "portable" /\ answer = "cancelled"

\* Exit status 0 is never given to trouble, 4 means that something waits or was cancelled, and
\* 2 that no action ran or its input was not usable.
ExitTruthful ==
    phase = "done" =>
        /\ code = SUCCESS => answer \notin Trouble \/ Overlooked
        /\ code = PENDING => answer \in {"cancelled", "interrupted", "awaiting_enrollment"}
        /\ code = INVALID => answer \in {"misused", "invalid"}
=============================================================================
