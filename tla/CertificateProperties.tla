----------------------- MODULE CertificateProperties -----------------------
(***************************************************************************)
(* What the certificate administration promises: the links always name a   *)
(* whole certificate, an outcome tells what clients get, a failed          *)
(* activation returns to the certificate it replaced, and renewals arrive. *)
(***************************************************************************)
EXTENDS Certificates

Failing ==
    \/ OrderFails \/ PublishFails \/ Kill
    \/ proc'.pc = "backLink"
    \/ claim' \in {"failed", "recovered", "unrecovered"} /\ claim = "none"

\* What a cut can leave that only an administrator removes.
Leftover ==
    /\ proc.op = "none"
    /\ \/ tls.activeNew \/ tls.previousNew
       \/ issuer.lineage # None /\ tls.gens[issuer.lineage] = "partial"

\* Both links name complete generations, at every instant of an activation, its
\* rollback and the pruning: whenever the service is restarted or crashes it finds a
\* certificate, and the one before can be put back.
PointersWhole ==
    /\ tls.active # None => tls.gens[tls.active] = "whole"
    /\ tls.previous # None => tls.gens[tls.previous] = "whole"

\* An activation reported as done, or as undone, is what clients are served, also
\* when an earlier attempt was cut between the link and the restart.
OutcomeServed ==
    claim \in {"serving", "recovered"} => served = tls.active

\* A failed activation leaves the link where it was before, not at an older one.
FailureKeepsOld ==
    [][claim' \in {"recovered", "unrecovered"} /\ claim = "none" => tls'.active = proc.old]_vars

\* What the provider issued gets to the clients by the timer alone, once nothing
\* fails and nothing is left of a cut.
RenewalArrives ==
    <>[][~Failing]_vars /\ <>[]~Leftover =>
        (issuer.timer /\ issuer.program = "whole" ~> served = issuer.lineage)
=============================================================================
