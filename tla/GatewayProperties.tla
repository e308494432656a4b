-------------------------- MODULE GatewayProperties --------------------------
(***************************************************************************)
(* What the partner policy of a gateway promises: a partner's packets pass *)
(* only while the firewall has its entry and the running proxy routes it,  *)
(* so the properties are about both at once, at every moment, whatever the *)
(* three processes are in the middle of.                                   *)
(***************************************************************************)
EXTENDS GatewayPolicy

\* The partners whose traffic passes.
Traffic == {a \in serving : firewall[a] > 0}

\* Every agreement this gateway has been told to refuse, the journalled ones included.
Known == policy.revoked \union (IF pending = None THEN {} ELSE pending.revoked)

\* The firewall must be closed, whoever asks.
Blocked == \/ pending # None \/ certIntent \/ review \/ restoring
           \/ wall < latest \/ unit # "up"

-----------------------------------------------------------------------------

\* Once no change is pending, only partners of the current selection that are
\* not revoked pass: neither a proxy that was started from the policy before
\* it nor a firewall it left behind lets another one in.
\* (gateway_transition.apply, gateway_runtime run and Runtime.restart)
AdmitsSelected == pending = None => Traffic \subseteq policy.agreements \ policy.revoked

\* After a restore, or one rolled back, nobody passes until the operator has
\* reviewed the partners: not by the proxy's own start, not by the guard, not
\* by a certificate replacement and not by what ran before the restore.
\* (gateway_recovery.suspend, gateway_runtime.py:249)
RestoredShut == review /\ ~restoring => Traffic = {}

\* Once the review is over, an agreement signed before the approval floor does
\* not pass, although it is valid and the restored policy may have selected it.
\* (gateway_recovery.fresh_documents, store.peers)
NoReplay == floor > 0 /\ ~review => \A a \in Traffic : Issued[a] >= floor /\ Accepted[a] >= floor

\* No step forgets a revocation or lowers the approval floor: not a restore of
\* a snapshot older than the revocation, not a rollback, not a failed change.
\* (gateway_backup.prepare_candidate, store.candidate, gateway_recovery.suspend)
RevocationFinal == [][Known \subseteq Known' /\ floor <= floor']_vars

\* Requests, faults and settings of the clock stop for good.
Calm == <>[][Proceed \/ (Refused /\ Fail) \/ Recover \/ UnitRuns \/ Guard \/ Tick]_vars

\* Then the firewall comes to agree with the store and stays so: closed while
\* anything is pending, under review or out of time, open for exactly the
\* policy's partners otherwise.  The guard brings it there after a command was
\* killed between two of its steps.
\* (gateway_runtime main guard, Runtime.open)
GuardSettles ==
    Calm => <>[](firewall = IF Blocked THEN Shut ELSE Entries(policy))

\* Then a pending restore that had suspended the policy is finished or rolled
\* back, if the clock is not behind: the gateway it starts again is the one
\* that the boundary check lets start.
\* (gateway_runtime.check_restore_boundary, restore_transaction.recover)
SuspendedSettles == Calm /\ <>[]OnTime => <>[](restoring => ~review)

-----------------------------------------------------------------------------

\* "Recovery uses its journal to restore previous data for an uncommitted
\* attempt or finish a committed attempt" (docs/backups.md:110): a pending
\* restore is settled however far it had come.
RecoverySettles == Calm /\ <>[]OnTime => <>[]~restoring

\* "Policy changes journal their intent before activation and close traffic
\* before replacing configuration" (docs/regional-gateway.md): no partner of
\* the old policy passes when the new one is committed.  The proxy's start does
\* not hold the lock.
ReplacedShut == [][pc = "commit" /\ policy' # policy => Traffic = {}]_vars
=============================================================================
