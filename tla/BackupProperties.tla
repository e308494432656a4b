-------------------------- MODULE BackupProperties --------------------------
(***************************************************************************)
(* What the backups promise: consistent snapshots of the scope that is due,*)
(* paused units that come back, a truthful record of the scheduled runs,   *)
(* and a backup program that is never lost while it is replaced.           *)
(***************************************************************************)
EXTENDS Backups

\* A step that is neither a failure, nor a cut, nor a refusal by a busy lock.
Calm ==
    /\ \A p \in Processes : failing'[p] => failing[p]
    /\ \/ Prepare \/ Administer \/ Disable
       \/ TimerFires \/ TimerLocks \/ RecordAttempt \/ RecordFailure
       \/ ~ENABLED Administer /\ Raise
       \/ \E p \in Processes : Proceed(p) \/ (~ENABLED Upload(p) /\ UploadFails(p))
       \/ \E u \in Units : Recover(u) \/ Renew(u)

\* Every snapshot in the repository was copied while nothing could write, whatever
\* the other command, a certificate renewal or a client did meanwhile, and has the
\* scope that configuration.json named when it was taken.
SnapshotsSound ==
    \A i \in 1 .. Len(snapshots) : snapshots[i].whole /\ snapshots[i].scope = snapshots[i].due

\* A unit that a backup stopped is either about to be started by the run that
\* stopped it, or that run reported it or was itself cut while starting it: no run
\* that goes through its error handling ends silently with a unit down.
NoSilentOutage ==
    \A u \in Units : svc[u] = "stopped" =>
        u \in excused \/ \E p \in Processes : Capturing(p) /\ u \in recovery[p]

\* last-attempt.json tells of a success only with a snapshot of the timer's own that
\* is in the repository, and a later failure keeps it.
RecordTruthful ==
    /\ attempt.success <= Len(snapshots)
    /\ attempt.success # 0 => snapshots[attempt.success].by = "timer"
    /\ attempt.last = "succeeded" => attempt.success # 0

\* Once a schedule is installed its program is in place and whole, or both the
\* previous and the next one are, with the intent that says so.
RuntimeKept ==
    schedule # "none" =>
        \/ runtime \in Versions
        \/ intent # <<>> /\ intent = <<previous, candidate>>

\* An update of the backup program that was cut anywhere is completed by repeating
\* the command from the same source, once nothing else fails.
UpdateSettles ==
    <>[][Calm]_vars => (intent # <<>> ~> intent = <<>>)
=============================================================================
