-------------------------- MODULE RestoreProperties --------------------------
(***************************************************************************)
(* What a restore transaction promises: invariants, action properties, the *)
(* abstract switch it implements, and that it settles.                     *)
(***************************************************************************)
EXTENDS RestoreTransaction

\* What fairness cannot exclude and a settled outcome needs to stop happening.
Fault ==
    \/ RecoverBusy \/ WriteMarkerFails \/ Interrupt \/ Kill \/ Reboot
    \/ ~CheckFails /\ Raise
    \/ \E s \in Services : ServiceCrash(s)

\* A fence never outlives its transaction: whenever the table or its record is
\* there, the pending marker is there, so restore-recover can still remove it
\* (plan refuses a new restore over a leftover record, and only recover, which
\* needs the marker, clears one).
FenceOwned == (table \/ record) => pending

\* What clients can reach is all the original data, or all the restored data
\* of a transaction whose journal is durably committed; never a mixture, a
\* directory between two renames, or data that may still be rolled back.
ServedDecided ==
    Exposed => \/ \A p \in Paths : live[p] = "original"
               \/ /\ journal.phase = "committed"
                  /\ \A p \in Paths : live[p] \in {"restored", "edited"}

\* Until a transaction is decided the original of every path exists, in place
\* or as the workspace's old, whatever step was last interrupted.
OriginalRetained ==
    pending /\ journal.phase \in {"preparing", "validating"} =>
        \A p \in Paths : live[p] = "original" \/ old[p] = "original"

\* A reported success is the durable truth: "restored-service-verified" means a
\* committed journal and restored data in every path, "previous-data-restored"
\* a rolled-back journal and the original data in every path; and both have given
\* the renewal timer back, which runs again if the journal says it ran before.
ClaimHonest ==
    /\ claim = "restored" =>
           /\ journal.phase = "committed"
           /\ evidence
           /\ \A p \in Paths : live[p] \in {"restored", "edited"}
    /\ claim = "recovered" =>
           /\ journal.phase = "rolled-back"
           /\ \A p \in Paths : live[p] = "original"
    /\ claim \in {"restored", "recovered"} => (journal.timer => timer)

\* Directories move only under services that are all down: a rename or removal
\* of an owned path never happens while a unit runs on it.
DownOrWritten ==
    \A p \in Paths : live'[p] # live[p] =>
        \/ \A s \in Services : svc[s] # "active"
        \/ live'[p] = "edited"
        \/ pc = "marker"

MovedWhileDown == [][DownOrWritten]_vars

\* Written data is never thrown away: what clients wrote to the restored data
\* stays until a later transaction takes the whole of it for its original.
KeptOrTaken ==
    \A p \in Paths : live[p] = "edited" =>
        live'[p] = "edited" \/ (~pending /\ pending' /\ pc = "marker")

EditsKept == [][KeptOrTaken]_vars

CopyOfRecord == IF journal.phase = "committed" THEN "replacement" ELSE "original"
CopyAt(p) == IF live[p] \in {"restored", "edited"} THEN "replacement" ELSE "original"
Shown == IF Exposed THEN {CopyAt(p) : p \in Paths} ELSE {}
Edited == {p \in Paths : live[p] = "edited"}

\* The transaction, seen by its clients, is a fenced switch.
Switch == INSTANCE FencedSwitch WITH
    busy <- pending, copy <- CopyOfRecord, shown <- Shown, edits <- Edited

ImplementsSwitch == Switch!Spec

Uniform == \A s, t \in Services : journal.active[s] = journal.active[t]

\* A pending transaction settles once faults stop, if the services it found
\* were all running or all down.
UniformSettles ==
    <>[][~Fault]_vars => ((pending /\ Uniform) ~> ~pending)

\* "Recovery uses its journal to restore previous data for an uncommitted
\* attempt or finish a committed attempt" (docs/backups.md:110), whatever the
\* services it found.
RecoverySettles ==
    <>[][~Fault]_vars => (pending ~> ~pending)

\* "A durable startup guard blocks unattended startup while a transaction is
\* pending" (docs/backups.md:110): no unit comes up by itself while the marker
\* is there and the last restore command has returned with an error.
UnattendedBlocked ==
    [][\A s \in Services :
           pending /\ op = "none" /\ claim # "interrupted" /\ svc'[s] = "active" =>
               svc[s] = "active"]_vars

\* A restore reported as committed is committed: "The restored state was
\* committed; do not roll it back" (restore_transaction.py:42).
CommittedClaimDurable ==
    claim = "committed" => journal.phase = "committed"
=============================================================================
