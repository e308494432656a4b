----------------------------- MODULE NodeStatus -----------------------------
(***************************************************************************)
(* The status of a node (scripts/product_status.py and status_probe.py).   *)
(*                                                                         *)
(* Six workers, each a process with a deadline of its own, read one        *)
(* dimension of the node's evidence each while the node goes on changing.  *)
(* A worker looks for a pending upgrade or restore, then for what is       *)
(* installed, then for its own evidence; one that fails reports "unknown". *)
(* The command exits with 0 only if no dimension needs attention.          *)
(*                                                                         *)
(* The node is the set of conditions that are wrong with it; each is what  *)
(* one test of the code finds.  Not a condition: a replacement left        *)
(* pending on a gateway that has an issuer, which no worker looks at.      *)
(***************************************************************************)
EXTENDS Naturals, Sequences, FiniteSets

CONSTANT MaxTroubles    \* bound: at first a node has up to two conditions that one worker looks for;
                        \* others come, and workers fail, until there have been so many

VARIABLES
    node,       \* what is installed
    wrong,      \* the conditions that hold
    troubles,   \* how many conditions have held and workers failed
    report,     \* dimension -> its state, "reading" at first
    lasting,    \* the conditions that held from the start of the report until now
    clean       \* nothing was wrong since then and no worker failed

status == <<node, wrong, troubles, report, lasting, clean>>

Dimensions == {"network", "applications", "certificates", "backup", "recovery", "partners"}

\* A peer or a portable guest may hold one application; a controller or relay holds none.
Nodes ==
    {[role |-> "controller", package |-> "none", issuer |-> FALSE],
     [role |-> "peer", package |-> "none", issuer |-> FALSE],
     [role |-> "peer", package |-> "gateway", issuer |-> FALSE]}
    \union [role : {"peer"}, package : {"service"}, issuer : {TRUE}]
    \union [role : {"portable"}, package : {"service"}, issuer : {FALSE}]

-----------------------------------------------------------------------------
(* What can be wrong with node n, in groups that one worker looks for.      *)

Certificate(n) ==
    {"not-served", "expired", "expiring"}
    \union (IF n.issuer \/ n.role = "controller" THEN {"renewal"} ELSE {})
    \union (IF n.package = "gateway" /\ ~n.issuer THEN {"replacement"} ELSE {})

Partnership(n) ==
    {"review"} \union (IF n.package = "gateway" THEN {"transition", "unguarded", "approved"}
                       ELSE {"link-pending", "attached", "suspended"})

Groups(n) ==
    {{"upgrade", "restore", "unowned", "absent"},
     CASE n.role = "portable" -> {"address"}
       [] n.role = "peer"     -> {"client-stopped", "not-approved", "no-controller"}
       [] OTHER               -> {"unit-stopped"},
     {"unconfigured", "other-scope", "no-storage", "empty", "attempt-failed", "overdue"},
     {"untested", "other-identity", "clock", "upgraded"}}
    \union (IF n.package # "none" \/ n.role = "controller" THEN {Certificate(n)} ELSE {})
    \union (IF n.package # "none" THEN {{"container-stopped", "not-listening"}, Partnership(n)} ELSE {})

Conditions(n) == UNION Groups(n)

-----------------------------------------------------------------------------
(* What a worker finds: the first condition of its table that holds names   *)
(* the state; a table lists <<condition, state>> in the order of the tests. *)

Pending == <<<<"upgrade", "upgrade-pending">>, <<"restore", "restore-pending">>>>

\* discover
Discover == <<<<"unowned", "unknown">>, <<"absent", "not-configured">>>>

Network(n) ==
    CASE n.role = "portable" -> <<<<"address", "unknown">>>>
      [] n.role = "peer" -> <<<<"client-stopped", "stopped">>, <<"not-approved", "awaiting-enrollment">>,
                              <<"no-controller", "enrolled-controller-unreachable">>>>
      [] OTHER -> <<<<"unit-stopped", "stopped">>>>

Applications(n) ==
    IF n.package = "none" THEN <<>>
    ELSE <<<<"container-stopped", "stopped">>, <<"not-listening", "unknown">>>>

\* What is shown to clients, as a connection and the certificate's dates tell.
Validity ==
    <<<<"not-served", "certificate-invalid">>, <<"expired", "certificate-invalid">>,
      <<"expiring", "certificate-expiring">>>>

\* Both the managed certificate of a controller and an issuer record a failed renewal.
InfrastructureCertificate == <<<<"renewal", "renewal-failed">>>> \o Validity
IssuerCertificate == <<<<"renewal", "renewal-failed">>>> \o Validity
GatewayCertificate == <<<<"replacement", "change-pending">>>> \o Validity

\* A supplied certificate: the connection that fails raises.
SuppliedCertificate ==
    <<<<"not-served", "unknown">>, <<"expired", "unknown">>, <<"expiring", "certificate-expiring">>>>

Certificates(n) ==
    CASE n.issuer               -> IssuerCertificate
      [] n.role = "controller"  -> InfrastructureCertificate
      [] n.package = "gateway"  -> GatewayCertificate
      [] n.package = "service" /\ ~n.issuer -> SuppliedCertificate
      [] OTHER                  -> <<>>

Configured == <<<<"unconfigured", "not-configured">>, <<"other-scope", "backup-scope-missing">>>>
Snapshots == <<<<"no-storage", "backup-unreachable">>, <<"empty", "no-backup">>>>
Overdue == <<<<"overdue", "backup-overdue">>>>

\* Mistake: the age of the last snapshot tells all.
BackupByAge == Configured \o Snapshots \o Overdue

\* A failed attempt outranks the age of the last snapshot.
Backup == Configured \o Snapshots \o <<<<"attempt-failed", "backup-failed">>>> \o Overdue

\* latest
Recovery ==
    <<<<"untested", "untested">>, <<"other-identity", "different-scope">>, <<"clock", "unknown">>,
      <<"upgraded", "verified-on-prior-components">>>>

\* A gateway with an approved partner has an exchange that nobody has tested.
GatewayPartners ==
    <<<<"review", "partner-review-required">>, <<"transition", "change-pending">>,
      <<"unguarded", "unknown">>, <<"approved", "partner-review-required">>>>
ServicePartners ==
    <<<<"review", "partner-review-required">>, <<"link-pending", "change-pending">>,
      <<"attached", "partner-review-required">>, <<"suspended", "partners-suspended">>>>

Partners(n) ==
    CASE n.package = "gateway" -> GatewayPartners
      [] n.package = "service" -> ServicePartners
      [] OTHER                 -> <<>>

Table(d, n) ==
    CASE d = "network"      -> Network(n)
      [] d = "applications" -> Applications(n)
      [] d = "certificates" -> Certificates(n)
      [] d = "backup"       -> Backup
      [] d = "recovery"     -> Recovery
      [] d = "partners"     -> Partners(n)

\* The state of a dimension in which no test finds anything.
Fine(d, n) ==
    CASE d = "network" /\ n.role = "portable"        -> "local-address-verified"
      [] d = "network" /\ n.role = "peer"            -> "enrolled"
      [] d = "network"                               -> "service-running"
      [] d = "backup"                                -> "backup-current"
      [] d = "recovery"                              -> "service-verified"
      [] d = "certificates" /\ n.role = "controller" -> "certificate-valid"
      [] n.package = "none"                          -> "not-applicable"
      [] d = "certificates"                          -> "certificate-valid"
      [] d = "applications"                          -> "service-listeners-verified"
      [] d = "partners"                              -> "partners-disabled"

-----------------------------------------------------------------------------
\* needs_attention
Informational ==
    {"local-address-verified", "enrolled", "service-running", "service-listeners-verified",
     "certificate-valid", "backup-current", "service-verified", "not-applicable",
     "partners-disabled", "transport-verified-exchange-untested"}

Probe(d, n) == Pending \o Discover \o Table(d, n)

-----------------------------------------------------------------------------

First(table, otherwise) ==
    LET hits == {i \in DOMAIN table : table[i][1] \in wrong}
    IN  IF hits = {} THEN otherwise
        ELSE table[CHOOSE i \in hits : \A j \in hits : i <= j][2]

\* sanitize: a state that is not one of the dimension's becomes "unknown".
Common == {"unknown", "blocked", "not-configured", "not-applicable", "change-pending",
           "restore-pending", "upgrade-pending"}
States ==
    [network |-> {"local-address-verified", "enrolled", "enrolled-controller-unreachable",
                  "awaiting-enrollment", "stopped", "service-running"},
     applications |-> {"service-listeners-verified", "stopped"},
     certificates |-> {"certificate-valid", "certificate-expiring", "certificate-invalid", "renewal-failed"},
     backup |-> {"backup-current", "backup-overdue", "backup-unreachable", "backup-failed",
                 "backup-scope-missing", "no-backup"},
     recovery |-> {"untested", "service-verified", "verified-on-prior-components", "different-scope"},
     partners |-> {"partners-disabled", "partners-suspended", "transport-verified-exchange-untested",
                   "partner-review-required"}]
Sanitized(d, state) == IF state \in Common \union States[d] THEN state ELSE "unknown"

Reading == \E d \in Dimensions : report[d] = "reading"

Init ==
    /\ node \in Nodes
    /\ wrong = {} \/ \E group \in Groups(node) : \E c1, c2 \in group : wrong = {c1, c2}
    /\ troubles = Cardinality(wrong)
    /\ report = [d \in Dimensions |-> "reading"]
    /\ lasting = wrong /\ clean = (wrong = {})

\* A worker answers.
Answer(d) ==
    /\ report[d] = "reading"
    /\ report' = [report EXCEPT ![d] = Sanitized(d, First(Probe(d, node), Fine(d, node)))]
    /\ UNCHANGED <<node, wrong, troubles, lasting, clean>>

\* It is stopped at its deadline, refused access, or cannot decode what it reads.
WorkerFails(d) ==
    /\ report[d] = "reading"
    /\ report' = [report EXCEPT ![d] = "unknown"]
    /\ troubles < MaxTroubles /\ troubles' = troubles + 1
    /\ clean' = FALSE
    /\ UNCHANGED <<node, wrong, lasting>>

\* The node changes, as far as the report can notice.
Goes(c) ==
    /\ Reading
    /\ c \in wrong
    /\ wrong' = wrong \ {c} /\ lasting' = lasting \ {c}
    /\ UNCHANGED <<node, troubles, report, clean>>

Comes(c) ==
    /\ Reading
    /\ troubles < MaxTroubles /\ c \notin wrong
    /\ wrong' = wrong \union {c} /\ troubles' = troubles + 1
    /\ clean' = FALSE
    /\ UNCHANGED <<node, report, lasting>>

Next ==
    \/ \E d \in Dimensions : Answer(d) \/ WorkerFails(d)
    \/ \E c \in Conditions(node) : Goes(c) \/ Comes(c)

needs_attention == \E d \in Dimensions : report[d] \notin Informational

-----------------------------------------------------------------------------

\* A report that asks for no attention is not wrong about anything that lasted as long as it
\* took: each condition is found by the worker that looks for it, whichever other condition
\* it finds first and whatever changes between two workers.  And a node with nothing wrong
\* needs no attention, unless a worker failed.
QuietHonest ==
    ~Reading => /\ ~needs_attention => lasting = {}
                /\ clean => ~needs_attention
=============================================================================
