---------------------------- MODULE Backups_proofs ----------------------------
(***************************************************************************)
(* Proofs about Backups, for any units, any versions of the project and    *)
(* any number of snapshots.                                                *)
(*                                                                         *)
(* The invariant is built in layers: each process is at a step of its own  *)
(* command (Control); the operation lock separates the two, and the        *)
(* certificate lock the captures from everything else that starts units    *)
(* (Locked, Certified); so that what a capture stopped stays down while  *)
(* it copies (Paused), and the record of the timer's runs (Recorded) and  *)
(* the backup program (Replacing) are changed by one process at a time.    *)
(***************************************************************************)
EXTENDS BackupProperties, TLAPS

Including == {"include", "refresh", "stage", "staging", "intend", "away", "place", "settle", "scope"}
Enabling == {"enable", "create", "creating", "units", "schedule", "enabled"}
Running == {"check", "stop", "copy", "copying", "start", "end", "upload"}
Waiting == {"lock"}
Recording == {"record", "recordFailure"}

\* A process is at a step of its command; what it would install is a version.
Control ==
    \A p \in Processes :
        /\ command[p] = "none" => pc[p] = "idle"
        /\ command[p] = "configure" => p = "operator" /\ pc[p] = "files"
        /\ command[p] = "run" =>
               pc[p] \in Running \/ (p = "timer" /\ pc[p] \in Waiting \union Recording)
        /\ command[p] = "include" => p = "operator" /\ pc[p] \in Including /\ source[p] \in Versions
        /\ command[p] = "enable" => p = "operator" /\ pc[p] \in Enabling /\ source[p] \in Versions

\* Who is beyond the lock holds it, for a configured backup.
Locked ==
    \A p \in Processes :
        /\ lock = p <=> pc[p] \notin {"idle", "files", "lock"}
        /\ pc[p] \notin {"idle", "files"} => conf \in Scopes
        /\ pc[p] = "files" => conf = "partial"

\* A capture holds the certificate lock.
Certified == tls <=> Capturing("operator") \/ Capturing("timer")

\* What a capture has stopped stays down until it has copied, and it starts it again.
Paused ==
    \A p \in Processes :
        /\ pc[p] = "stop" => Active \subseteq todo[p]
        /\ pc[p] \in {"copy", "copying"} => Active = {}
        /\ stage[p] = "partial" <=> pc[p] = "copying"
        /\ pc[p] \in {"start", "end"} => failing[p] \/ stage[p] = "whole"
        /\ pc[p] = "end" => recovery[p] = {}
        /\ pc[p] = "upload" => stage[p] = "whole"
        /\ Capturing(p) \/ pc[p] = "upload" => scopeOf[p] = conf

\* The timer records a success of the snapshot it has just stored.
Recorded ==
    pc["timer"] = "record" =>
        Len(snapshots) > 0 /\ snapshots[Len(snapshots)].by = "timer"

RecordHolds == Recorded /\ RecordTruthful

\* Without an intent the program is in place, unless none was ever scheduled.
Installed ==
    IF schedule = "none"
    THEN candidate = "none" /\ previous = "none"
    ELSE /\ runtime \in Versions
         /\ previous # "none" => previous \in Versions \ {runtime} /\ candidate = "none"

\* The intent says where the two versions are.
Intended ==
    /\ schedule # "none" /\ intent[1] # intent[2]
    /\ \/ runtime = intent[1] /\ previous = "none" /\ candidate = intent[2]
       \/ runtime = "none" /\ previous = intent[1] /\ candidate = intent[2]
       \/ runtime = intent[2] /\ previous = intent[1] /\ candidate = "none"

\* How far the operator's command has got with the program.
Reached ==
    LET step == pc["operator"]
        new  == source["operator"]
    IN  /\ step \in Including \ {"include", "scope"} => schedule # "none"
        /\ step \in {"stage", "staging", "intend"} =>
               intent = <<>> /\ runtime # new /\ previous = "none"
        /\ step = "intend" => candidate = new
        /\ step \in {"away", "place", "settle"} => intent # <<>> /\ intent[2] = new
        /\ step = "place" => runtime = "none"
        /\ step \in {"create", "creating", "units", "schedule"} => schedule = "none"
        /\ step \in {"create", "creating"} => units = 0
        /\ step = "units" => units # 2
        /\ step \in {"units", "schedule"} => runtime = new

Replacing == (IF intent = <<>> THEN Installed ELSE Intended) /\ Reached

\* The type invariant in two parts: the flags, and everything else.
FlagsOK == tls \in BOOLEAN /\ initialized \in BOOLEAN /\ app \in BOOLEAN /\ timer \in BOOLEAN

ProcessOK ==
    /\ command \in [Processes -> {"none", "configure", "run", "include", "enable"}]
    /\ pc \in [Processes -> Steps] /\ source \in [Processes -> Versions \union {"none"}]
    /\ todo \in [Processes -> SUBSET Units] /\ recovery \in [Processes -> SUBSET Units]
    /\ failing \in [Processes -> BOOLEAN]
    /\ scopeOf \in [Processes -> Scopes \union {"none"}]
    /\ stage \in [Processes -> {"none", "partial", "torn", "whole"}]
    /\ lock \in Processes \union {"free"}

NodeOK ==
    /\ conf \in Scopes \union {"none", "partial"}
    /\ target \in {"none", "partial", "ready", "blocked", "authorized"}
    /\ snapshots \in Seq(Snapshot) /\ Len(snapshots) <= MaxSnapshots
    /\ svc \in [Units -> {"active", "stopped"}] /\ excused \subseteq Units
    /\ runtime \in Contents /\ candidate \in Contents /\ previous \in Contents
    /\ intent \in {<<>>} \union (Versions \X Versions)
    /\ units \in 0 .. 2 /\ schedule \in Scopes \union {"none"}
    /\ attempt \in [success : 0 .. MaxSnapshots, last : {"none", "succeeded", "failed"}]

Inv ==
    /\ FlagsOK /\ ProcessOK /\ NodeOK /\ Control /\ Locked /\ Certified
    /\ Paused /\ SnapshotsSound /\ NoSilentOutage
    /\ RecordHolds
    /\ Replacing


\* How a run is given up: the process returns, or the timer's records the failure first.
Ends(p) ==
    \/ Return(p)
    \/ p = "timer" /\ Go(p, "recordFailure") /\ UNCHANGED lock /\ pc[p] \in Running \union Recording

LEMMA Endings ==
    ASSUME ProcessOK, Control, NEW p \in Processes
    PROVE  /\ CheckRefuses(p) \/ UploadFails(p) \/ Interrupt(p) => Ends(p)
           /\ Upload(p) =>
                  Return(p) \/ (p = "timer" /\ pc[p] = "upload" /\ Go(p, "record") /\ UNCHANGED lock)
           /\ EndCapture(p) => Ends(p) \/ (pc[p] = "end" /\ Go(p, "upload") /\ UNCHANGED lock)
<1>1. CheckRefuses(p) \/ UploadFails(p) => Ends(p)
  BY DEF CheckRefuses, UploadFails, Fail, Ends, locks, Running
<1>2. Interrupt(p) => Ends(p)
  BY DEF Interrupt, Ends, Control, Waiting, Recording, Processes
<1>3. EndCapture(p) => Ends(p) \/ (pc[p] = "end" /\ Go(p, "upload") /\ UNCHANGED lock)
  BY DEF EndCapture, Ends, Running
<1> QED
  BY <1>1, <1>2, <1>3 DEF Upload, locks

LEMMA MoveTypes ==
    ASSUME ProcessOK, NEW p \in Processes, NEW step \in Steps
    PROVE  /\ Go(p, step) /\ UNCHANGED lock => ProcessOK'
           /\ Return(p) => ProcessOK'
<1>1. Go(p, step) /\ UNCHANGED lock => ProcessOK'
  BY DEF ProcessOK, Go
<1>2. Return(p) => ProcessOK'
  BY DEF ProcessOK, Return, Steps
<1> QED
  BY <1>1, <1>2

LEMMA EndsTyped ==
    ASSUME ProcessOK, NEW p \in Processes, Ends(p)
    PROVE  ProcessOK'
BY MoveTypes DEF Ends, Steps

LEMMA EndsLocked ==
    ASSUME ProcessOK, Locked, NEW p \in Processes, Ends(p), UNCHANGED conf
    PROVE  Locked'
<1>1. CASE Return(p)
  BY <1>1 DEF ProcessOK, Locked, Return, Processes
<1>2. CASE p = "timer" /\ Go(p, "recordFailure") /\ UNCHANGED lock /\ pc[p] \in Running \union Recording
  BY <1>2 DEF ProcessOK, Locked, Go, Processes, Running, Recording
<1> QED
  BY <1>1, <1>2 DEF Ends

LEMMA EndsCertified ==
    ASSUME ProcessOK, Locked, Certified, NEW p \in Processes,
           Ends(p) \/ (p = "timer" /\ Go(p, "record")), tls' <=> tls /\ ~Capturing(p)
    PROVE  Certified'
<1>1. \A q \in Processes \ {p} : pc'[q] = pc[q]
  BY DEF ProcessOK, Ends, Return, Go
<1>2. pc'[p] \in {"idle", "recordFailure", "record"}
  BY DEF ProcessOK, Ends, Return, Go
<1>3. \A q \in Processes : Capturing(q) => lock = q
  BY DEF Locked, Capturing
<1> QED
  BY <1>1, <1>2, <1>3 DEF Certified, Capturing, Processes

\* What an upload stores was copied whole, with the scope that is due.
LEMMA Stored ==
    ASSUME ProcessOK, NodeOK, Locked, Paused, NEW p \in Processes, pc[p] = "upload", Store(p)
    PROVE  /\ snapshots' \in Seq(Snapshot)
           /\ Len(snapshots') = Len(snapshots) + 1 /\ Len(snapshots') <= MaxSnapshots
           /\ \A i \in 1 .. Len(snapshots) : snapshots'[i] = snapshots[i]
           /\ LET s == snapshots'[Len(snapshots')] IN s.whole /\ s.scope = s.due /\ s.by = p
<1> DEFINE new == [whole |-> stage[p] = "whole", scope |-> scopeOf[p], due |-> conf, by |-> p]
<1>1. stage[p] = "whole" /\ scopeOf[p] = conf /\ conf \in Scopes
  BY DEF Locked, Paused
<1>2. new \in Snapshot /\ new.whole /\ new.scope = new.due /\ new.by = p
  BY <1>1 DEF Snapshot
<1>3. snapshots' = Append(snapshots, new) /\ Len(snapshots) < MaxSnapshots
  BY DEF Store
<1> HIDE DEF new
<1> QED
  BY <1>2, <1>3, MaxSnapshotsAssumption DEF NodeOK

-----------------------------------------------------------------------------
(* The layers, one lemma each: every step of the specification preserves it.*)

\* The flags stay Boolean.
LEMMA FlagsStep ==
    ASSUME FlagsOK, [Next]_vars
    PROVE  FlagsOK'
<1> USE DEF FlagsOK
<1>1. CASE StartConfigure
  BY Zenon, <1>1 DEF StartConfigure, process, locks, storage, program, plan
<1>2. CASE PrepareTarget
  BY Zenon, <1>2 DEF PrepareTarget, process, locks, storage, program, plan
<1>3. CASE Authorize
  BY Zenon, <1>3 DEF Authorize, process, locks, storage, program, plan
<1>4. CASE Initialize
  BY Zenon, <1>4 DEF Initialize, process, locks, storage, program, plan
<1>5. CASE InstallApplication
  BY Zenon, <1>5 DEF InstallApplication, process, locks, storage, program, plan
<1>6. CASE StartRun
  BY Zenon, <1>6 DEF StartRun, StartCommand, Begin, process, locks, storage, program, plan
<1>7. ASSUME NEW v \in Versions, StartInclude(v)
      PROVE  FlagsOK'
  BY Zenon, <1>7 DEF StartInclude, StartCommand, Begin, process, locks, storage, program, plan
<1>8. ASSUME NEW v \in Versions, StartEnable(v)
      PROVE  FlagsOK'
  BY Zenon, <1>8 DEF StartEnable, StartCommand, Begin, process, locks, storage, program, plan
<1>9. CASE Configure
  BY Zenon, <1>9 DEF Configure, Return, process, locks, storage, program, plan
<1>10. CASE IncludeServices
  BY Zenon, <1>10 DEF IncludeServices, Go, process, locks, storage, program, plan
<1>11. CASE Refresh
  BY Zenon, <1>11 DEF Refresh, Go, Resumable, process, locks, storage, program, plan
<1>12. CASE StageCandidate
  BY Zenon, <1>12 DEF StageCandidate, Go, process, locks, storage, program, plan
<1>13. CASE FinishCandidate
  BY Zenon, <1>13 DEF FinishCandidate, Go, process, locks, storage, program, plan
<1>14. CASE WriteIntent
  BY Zenon, <1>14 DEF WriteIntent, Intent, Go, process, locks, storage, program, plan
<1>15. CASE MoveAway
  BY Zenon, <1>15 DEF MoveAway, Go, process, locks, storage, program, plan
<1>16. CASE PutInPlace
  BY Zenon, <1>16 DEF PutInPlace, Go, process, locks, storage, program, plan
<1>17. CASE Settle
  BY Zenon, <1>17 DEF Settle, Go, process, locks, storage, program, plan
<1>18. CASE ExtendScope
  BY Zenon, <1>18 DEF ExtendScope, Extended, Return, process, locks, storage, program, plan
<1>19. CASE Enable
  BY Zenon, <1>19 DEF Enable, Executable, Owned, Go, process, locks, storage, program, plan
<1>20. CASE CreateRuntime
  BY Zenon, <1>20 DEF CreateRuntime, Go, process, locks, storage, program, plan
<1>21. CASE WriteUnits
  BY Zenon, <1>21 DEF WriteUnits, Go, process, locks, storage, program, plan
<1>22. CASE WriteSchedule
  BY Zenon, <1>22 DEF WriteSchedule, Go, process, locks, storage, program, plan
<1>23. CASE EnableTimer
  BY Zenon, <1>23 DEF EnableTimer, Return, process, locks, storage, program, plan
<1>24. CASE Raise
  BY Zenon, <1>24 DEF Raise, Return, process, locks, storage, program, plan
<1>25. CASE TimerFires
  BY Zenon, <1>25 DEF TimerFires, Begin, process, locks, storage, program, plan
<1>26. CASE TimerLocks
  BY Zenon, <1>26 DEF TimerLocks, LockFree, Go, process, locks, storage, program, plan
<1>27. CASE TimerBusy
  BY Zenon, <1>27 DEF TimerBusy, Return, process, locks, storage, program, plan
<1>28. CASE RecordAttempt
  BY Zenon, <1>28 DEF RecordAttempt, Succeeded, Return, process, locks, storage, program, plan
<1>29. CASE RecordFailure
  BY Zenon, <1>29 DEF RecordFailure, Return, process, locks, storage, program, plan
<1>30. CASE Disable
  BY Zenon, <1>30 DEF Disable, process, locks, storage, program, plan
<1>31. ASSUME NEW p \in Processes, Check(p)
      PROVE  FlagsOK'
  BY Zenon, <1>31 DEF Check, TlsHeld, Loop, process, locks, storage, program, plan
<1>32. ASSUME NEW p \in Processes, CheckRefuses(p)
      PROVE  FlagsOK'
  BY Zenon, <1>32 DEF CheckRefuses, Fail, Go, Return, process, locks, storage, program, plan
<1>33. ASSUME NEW p \in Processes, NEW u \in Units, Stop(p, u)
      PROVE  FlagsOK'
  BY Zenon, <1>33 DEF Stop, Loop, process, locks, storage, program, plan
<1>34. ASSUME NEW p \in Processes, BeginCopy(p)
      PROVE  FlagsOK'
  BY Zenon, <1>34 DEF BeginCopy, process, locks, storage, program, plan
<1>35. ASSUME NEW p \in Processes, EndCopy(p)
      PROVE  FlagsOK'
  BY Zenon, <1>35 DEF EndCopy, ToStart, Finally, Loop, process, locks, storage, program, plan
<1>36. ASSUME NEW p \in Processes, CaptureFails(p)
      PROVE  FlagsOK'
  BY Zenon, <1>36 DEF CaptureFails, Unwind, ToStart, Finally, Loop, process, locks, storage,
         program, plan
<1>37. ASSUME NEW p \in Processes, NEW u \in Units, Start(p, u)
      PROVE  FlagsOK'
  BY Zenon, <1>37 DEF Start, Finally, Loop, process, locks, storage, program, plan
<1>38. ASSUME NEW p \in Processes, EndCapture(p)
      PROVE  FlagsOK'
  BY Zenon, <1>38 DEF EndCapture, Go, Return, process, locks, storage, program, plan
<1>39. ASSUME NEW p \in Processes, Upload(p)
      PROVE  FlagsOK'
  BY Zenon, <1>39 DEF Upload, Store, Go, Return, process, locks, storage, program, plan
<1>40. ASSUME NEW p \in Processes, UploadFails(p)
      PROVE  FlagsOK'
  BY Zenon, <1>40 DEF UploadFails, Store, Fail, Go, Return, process, locks, storage, program, plan
<1>41. ASSUME NEW p \in Processes, Interrupt(p)
      PROVE  FlagsOK'
  BY Zenon, <1>41 DEF Interrupt, LeftStopped, Go, Return, process, locks, storage, program, plan
<1>42. ASSUME NEW p \in Processes, Kill(p)
      PROVE  FlagsOK'
  BY Zenon, <1>42 DEF Kill, LeftStopped, Return, process, locks, storage, program, plan
<1>43. CASE Reboot
  BY Zenon, <1>43 DEF Reboot, Everywhere, process, locks, storage, program, plan
<1>44. ASSUME NEW u \in Units, Recover(u)
      PROVE  FlagsOK'
  BY Zenon, <1>44 DEF Recover, Up, Torn, process, locks, storage, program, plan
<1>45. ASSUME NEW u \in Units, Renew(u)
      PROVE  FlagsOK'
  BY Zenon, <1>45 DEF Renew, Up, Torn, process, locks, storage, program, plan
<1>46. CASE UNCHANGED vars
  BY Zenon, <1>46 DEF vars, process, locks, storage, program, plan
<1> QED
  BY <1>1, <1>2, <1>3, <1>4, <1>5, <1>6, <1>7, <1>8, <1>9, <1>10, <1>11, <1>12, <1>13, <1>14, <1>15,
    <1>16, <1>17, <1>18, <1>19, <1>20, <1>21, <1>22, <1>23, <1>24, <1>25, <1>26, <1>27, <1>28,
    <1>29, <1>30, <1>31, <1>32, <1>33, <1>34, <1>35, <1>36, <1>37, <1>38, <1>39, <1>40, <1>41,
    <1>42, <1>43, <1>44, <1>45, <1>46
  DEF Next, Prepare, Administer, Scheduled, Proceed

\* What a process is doing keeps its type.
LEMMA ProcessStep ==
    ASSUME ProcessOK, Control, Locked, [Next]_vars
    PROVE  ProcessOK'
<1> USE DEF Processes, ProcessOK, Steps, Scopes
<1>1. CASE StartConfigure
  BY <1>1 DEF StartConfigure, process, locks, storage, program, plan
<1>2. CASE PrepareTarget
  BY <1>2 DEF PrepareTarget, process, locks, storage, program, plan
<1>3. CASE Authorize
  BY <1>3 DEF Authorize, process, locks, storage, program, plan
<1>4. CASE Initialize
  BY <1>4 DEF Initialize, process, locks, storage, program, plan
<1>5. CASE InstallApplication
  BY <1>5 DEF InstallApplication, process, locks, storage, program, plan
<1>6. CASE StartRun
  BY <1>6 DEF StartRun, StartCommand, Begin, process, locks, storage, program, plan
<1>7. ASSUME NEW v \in Versions, StartInclude(v)
      PROVE  ProcessOK'
  BY <1>7 DEF StartInclude, StartCommand, Begin, process, locks, storage, program, plan
<1>8. ASSUME NEW v \in Versions, StartEnable(v)
      PROVE  ProcessOK'
  BY <1>8 DEF StartEnable, StartCommand, Begin, process, locks, storage, program, plan
<1>9. CASE Configure
  BY <1>9 DEF Configure, Return, process, locks, storage, program, plan
<1>10. CASE IncludeServices
  BY <1>10 DEF IncludeServices, Go, process, locks, storage, program, plan
<1>11. CASE Refresh
  BY <1>11 DEF Refresh, Go, Resumable, process, locks, storage, program, plan
<1>12. CASE StageCandidate
  BY <1>12 DEF StageCandidate, Go, process, locks, storage, program, plan
<1>13. CASE FinishCandidate
  BY <1>13 DEF FinishCandidate, Go, process, locks, storage, program, plan
<1>14. CASE WriteIntent
  BY <1>14 DEF WriteIntent, Intent, Go, process, locks, storage, program, plan
<1>15. CASE MoveAway
  BY <1>15 DEF MoveAway, Go, process, locks, storage, program, plan
<1>16. CASE PutInPlace
  BY <1>16 DEF PutInPlace, Go, process, locks, storage, program, plan
<1>17. CASE Settle
  BY <1>17 DEF Settle, Go, process, locks, storage, program, plan
<1>18. CASE ExtendScope
  BY <1>18 DEF ExtendScope, Extended, Return, process, locks, storage, program, plan
<1>19. CASE Enable
  BY <1>19 DEF Enable, Executable, Owned, Go, process, locks, storage, program, plan
<1>20. CASE CreateRuntime
  BY <1>20 DEF CreateRuntime, Go, process, locks, storage, program, plan
<1>21. CASE WriteUnits
  BY <1>21 DEF WriteUnits, Go, process, locks, storage, program, plan
<1>22. CASE WriteSchedule
  BY <1>22 DEF WriteSchedule, Go, process, locks, storage, program, plan
<1>23. CASE EnableTimer
  BY <1>23 DEF EnableTimer, Return, process, locks, storage, program, plan
<1>24. CASE Raise
  BY <1>24 DEF Raise, Return, process, locks, storage, program, plan
<1>25. CASE TimerFires
  BY <1>25 DEF TimerFires, Begin, process, locks, storage, program, plan
<1>26. CASE TimerLocks
  BY <1>26 DEF TimerLocks, LockFree, Go, process, locks, storage, program, plan
<1>27. CASE TimerBusy
  BY <1>27 DEF TimerBusy, Return, process, locks, storage, program, plan
<1>28. CASE RecordAttempt
  BY <1>28 DEF RecordAttempt, Succeeded, Return, process, locks, storage, program, plan
<1>29. CASE RecordFailure
  BY <1>29 DEF RecordFailure, Return, process, locks, storage, program, plan
<1>30. CASE Disable
  BY <1>30 DEF Disable, process, locks, storage, program, plan
<1>31. ASSUME NEW p \in Processes, Check(p)
      PROVE  ProcessOK'
  <2>1. conf \in Scopes
    BY <1>31 DEF Check, Locked
  <2> QED
    BY <1>31, <2>1 DEF Check, TlsHeld, Loop, Active, locks
<1>32. ASSUME NEW p \in Processes, CheckRefuses(p)
      PROVE  ProcessOK'
  BY <1>32, EndsTyped, Endings
<1>33. ASSUME NEW p \in Processes, NEW u \in Units, Stop(p, u)
      PROVE  ProcessOK'
  BY <1>33 DEF Stop, Loop, process, locks, storage, program, plan
<1>34. ASSUME NEW p \in Processes, BeginCopy(p)
      PROVE  ProcessOK'
  BY <1>34 DEF BeginCopy, process, locks, storage, program, plan
<1>35. ASSUME NEW p \in Processes, EndCopy(p)
      PROVE  ProcessOK'
  BY <1>35 DEF EndCopy, ToStart, Finally, Loop, process, locks, storage, program, plan
<1>36. ASSUME NEW p \in Processes, CaptureFails(p)
      PROVE  ProcessOK'
  BY <1>36 DEF CaptureFails, Unwind, ToStart, Finally, Loop, process, locks, storage, program, plan
<1>37. ASSUME NEW p \in Processes, NEW u \in Units, Start(p, u)
      PROVE  ProcessOK'
  <2>1. recovery' = [recovery EXCEPT ![p] = recovery[p] \ {u}] /\ todo' = [todo EXCEPT ![p] = {}]
    BY <1>37 DEF Start, Finally
  <2>2. failing' \in {failing, [failing EXCEPT ![p] = TRUE]}
    BY <1>37 DEF Start
  <2>3. \E step \in {"start", "end"} : pc' = [pc EXCEPT ![p] = step]
    BY <1>37 DEF Start, Finally, Loop
  <2>4. UNCHANGED <<command, source, scopeOf, stage, lock>>
    BY <1>37 DEF Start, locks
  <2>5. failing' \in [Processes -> BOOLEAN]
    BY <2>2
  <2>6. recovery' \in [Processes -> SUBSET Units] /\ todo' \in [Processes -> SUBSET Units]
    BY <2>1
  <2>7. pc' \in [Processes -> Steps]
    BY <2>3
  <2> QED
    BY <2>4, <2>5, <2>6, <2>7
<1>38. ASSUME NEW p \in Processes, EndCapture(p)
      PROVE  ProcessOK'
  <2>1. Ends(p) \/ (Go(p, "upload") /\ UNCHANGED lock)
    BY <1>38, Endings
  <2> QED
    BY <2>1, EndsTyped, MoveTypes
<1>39. ASSUME NEW p \in Processes, Upload(p)
      PROVE  ProcessOK'
  <2>1. Return(p) \/ (Go(p, "record") /\ UNCHANGED lock)
    BY <1>39, Endings
  <2> QED
    BY <2>1, MoveTypes
<1>40. ASSUME NEW p \in Processes, UploadFails(p)
      PROVE  ProcessOK'
  BY <1>40, EndsTyped, Endings
<1>41. ASSUME NEW p \in Processes, Interrupt(p)
      PROVE  ProcessOK'
  BY <1>41, EndsTyped, Endings
<1>42. ASSUME NEW p \in Processes, Kill(p)
      PROVE  ProcessOK'
  BY <1>42 DEF Kill, LeftStopped, Return, process, locks, storage, program, plan
<1>43. CASE Reboot
  BY <1>43 DEF Reboot, Everywhere, process, locks, storage, program, plan
<1>44. ASSUME NEW u \in Units, Recover(u)
      PROVE  ProcessOK'
  BY <1>44 DEF Recover, Up, Torn, process, locks, storage, program, plan
<1>45. ASSUME NEW u \in Units, Renew(u)
      PROVE  ProcessOK'
  BY <1>45 DEF Renew, Up, Torn, process, locks, storage, program, plan
<1>46. CASE UNCHANGED vars
  BY <1>46 DEF vars, process, locks, storage, program, plan
<1> QED
  BY <1>1, <1>2, <1>3, <1>4, <1>5, <1>6, <1>7, <1>8, <1>9, <1>10, <1>11, <1>12, <1>13, <1>14, <1>15,
    <1>16, <1>17, <1>18, <1>19, <1>20, <1>21, <1>22, <1>23, <1>24, <1>25, <1>26, <1>27, <1>28,
    <1>29, <1>30, <1>31, <1>32, <1>33, <1>34, <1>35, <1>36, <1>37, <1>38, <1>39, <1>40, <1>41,
    <1>42, <1>43, <1>44, <1>45, <1>46
  DEF Next, Prepare, Administer, Scheduled, Proceed

\* What is stored, and the units, keep their types.
LEMMA NodeStep ==
    ASSUME ProcessOK, NodeOK, Control, Locked, Paused, Replacing, [Next]_vars
    PROVE  NodeOK'
<1> USE DEF Processes, ProcessOK, NodeOK, Contents, Scopes
<1>1. CASE StartConfigure
  BY <1>1 DEF StartConfigure, process, locks, storage, program, plan
<1>2. CASE PrepareTarget
  BY <1>2 DEF PrepareTarget, process, locks, storage, program, plan
<1>3. CASE Authorize
  BY <1>3 DEF Authorize, process, locks, storage, program, plan
<1>4. CASE Initialize
  BY <1>4 DEF Initialize, process, locks, storage, program, plan
<1>5. CASE InstallApplication
  BY <1>5 DEF InstallApplication, process, locks, storage, program, plan
<1>6. CASE StartRun
  BY <1>6 DEF StartRun, StartCommand, Begin, process, locks, storage, program, plan
<1>7. ASSUME NEW v \in Versions, StartInclude(v)
      PROVE  NodeOK'
  BY <1>7 DEF StartInclude, StartCommand, Begin, process, locks, storage, program, plan
<1>8. ASSUME NEW v \in Versions, StartEnable(v)
      PROVE  NodeOK'
  BY <1>8 DEF StartEnable, StartCommand, Begin, process, locks, storage, program, plan
<1>9. CASE Configure
  BY <1>9 DEF Configure, Return, process, locks, storage, program, plan
<1>10. CASE IncludeServices
  BY <1>10 DEF IncludeServices, Go, process, locks, storage, program, plan
<1>11. CASE Refresh
  BY <1>11 DEF Refresh, Go, Resumable, process, locks, storage, program, plan
<1>12. CASE StageCandidate
  BY <1>12 DEF StageCandidate, Go, process, locks, storage, program, plan
<1>13. CASE FinishCandidate
  BY <1>13 DEF FinishCandidate, Go, process, locks, storage, program, plan
<1>14. CASE WriteIntent
  <2>1. command["operator"] = "include"
    BY <1>14 DEF WriteIntent, Control, Running, Waiting, Recording, Enabling
  <2>2. source["operator"] \in Versions /\ runtime \in Versions
    BY <1>14, <2>1 DEF WriteIntent, Control, Replacing, Reached, Installed, Including
  <2> QED
    BY <1>14, <2>2 DEF WriteIntent, Intent, Go, locks, storage, plan
<1>15. CASE MoveAway
  BY <1>15 DEF MoveAway, Go, process, locks, storage, program, plan
<1>16. CASE PutInPlace
  BY <1>16 DEF PutInPlace, Go, process, locks, storage, program, plan
<1>17. CASE Settle
  BY <1>17 DEF Settle, Go, process, locks, storage, program, plan
<1>18. CASE ExtendScope
  BY <1>18 DEF ExtendScope, Extended, Return, process, locks, storage, program, plan
<1>19. CASE Enable
  BY <1>19 DEF Enable, Executable, Owned, Go, process, locks, storage, program, plan
<1>20. CASE CreateRuntime
  BY <1>20 DEF CreateRuntime, Go, process, locks, storage, program, plan
<1>21. CASE WriteUnits
  BY <1>21 DEF WriteUnits, Go, process, locks, storage, program, plan, Replacing, Reached
<1>22. CASE WriteSchedule
  BY <1>22 DEF WriteSchedule, Go, process, locks, storage, program, plan, Locked
<1>23. CASE EnableTimer
  BY <1>23 DEF EnableTimer, Return, process, locks, storage, program, plan
<1>24. CASE Raise
  BY <1>24 DEF Raise, Return, process, locks, storage, program, plan
<1>25. CASE TimerFires
  BY <1>25 DEF TimerFires, Begin, process, locks, storage, program, plan
<1>26. CASE TimerLocks
  BY <1>26 DEF TimerLocks, LockFree, Go, process, locks, storage, program, plan
<1>27. CASE TimerBusy
  BY <1>27 DEF TimerBusy, Return, process, locks, storage, program, plan
<1>28. CASE RecordAttempt
  BY <1>28 DEF RecordAttempt, Succeeded, Return, process, locks, storage, program, plan
<1>29. CASE RecordFailure
  BY <1>29 DEF RecordFailure, Return, process, locks, storage, program, plan
<1>30. CASE Disable
  BY <1>30 DEF Disable, process, locks, storage, program, plan
<1>31. ASSUME NEW p \in Processes, Check(p)
      PROVE  NodeOK'
  BY <1>31 DEF Check, TlsHeld, Loop, process, locks, storage, program, plan
<1>32. ASSUME NEW p \in Processes, CheckRefuses(p)
      PROVE  NodeOK'
  BY <1>32 DEF CheckRefuses, Fail, Go, Return, process, locks, storage, program, plan
<1>33. ASSUME NEW p \in Processes, NEW u \in Units, Stop(p, u)
      PROVE  NodeOK'
  BY <1>33 DEF Stop, Loop, process, locks, storage, program, plan
<1>34. ASSUME NEW p \in Processes, BeginCopy(p)
      PROVE  NodeOK'
  BY <1>34 DEF BeginCopy, process, locks, storage, program, plan
<1>35. ASSUME NEW p \in Processes, EndCopy(p)
      PROVE  NodeOK'
  BY <1>35 DEF EndCopy, ToStart, Finally, Loop, process, locks, storage, program, plan
<1>36. ASSUME NEW p \in Processes, CaptureFails(p)
      PROVE  NodeOK'
  BY <1>36 DEF CaptureFails, Unwind, ToStart, Finally, Loop, process, locks, storage, program, plan
<1>37. ASSUME NEW p \in Processes, NEW u \in Units, Start(p, u)
      PROVE  NodeOK'
  BY <1>37 DEF Start, Finally, Loop, process, locks, storage, program, plan
<1>38. ASSUME NEW p \in Processes, EndCapture(p)
      PROVE  NodeOK'
  BY <1>38 DEF EndCapture, Go, Return, process, locks, storage, program, plan
<1>39. ASSUME NEW p \in Processes, Upload(p)
      PROVE  NodeOK'
  <2>1. pc[p] = "upload" /\ Store(p) /\ UNCHANGED <<program, plan, conf, svc, excused, attempt>>
    BY <1>39 DEF Upload
  <2> QED
    BY <2>1, Stored DEF Store, program, plan
<1>40. ASSUME NEW p \in Processes, UploadFails(p)
      PROVE  NodeOK'
  <2>1. /\ pc[p] = "upload" /\ (Store(p) \/ UNCHANGED storage)
        /\ UNCHANGED <<program, plan, conf, svc, excused, attempt>>
    BY <1>40 DEF UploadFails
  <2> QED
    BY <2>1, Stored DEF Store, storage, program, plan
<1>41. ASSUME NEW p \in Processes, Interrupt(p)
      PROVE  NodeOK'
  BY <1>41 DEF Interrupt, LeftStopped, Go, Return, process, locks, storage, program, plan
<1>42. ASSUME NEW p \in Processes, Kill(p)
      PROVE  NodeOK'
  BY <1>42 DEF Kill, LeftStopped, Return, process, locks, storage, program, plan
<1>43. CASE Reboot
  BY <1>43 DEF Reboot, Everywhere, process, locks, storage, program, plan
<1>44. ASSUME NEW u \in Units, Recover(u)
      PROVE  NodeOK'
  BY <1>44 DEF Recover, Up, Torn, process, locks, storage, program, plan
<1>45. ASSUME NEW u \in Units, Renew(u)
      PROVE  NodeOK'
  BY <1>45 DEF Renew, Up, Torn, process, locks, storage, program, plan
<1>46. CASE UNCHANGED vars
  BY <1>46 DEF vars, process, locks, storage, program, plan
<1> QED
  BY <1>1, <1>2, <1>3, <1>4, <1>5, <1>6, <1>7, <1>8, <1>9, <1>10, <1>11, <1>12, <1>13, <1>14, <1>15,
    <1>16, <1>17, <1>18, <1>19, <1>20, <1>21, <1>22, <1>23, <1>24, <1>25, <1>26, <1>27, <1>28,
    <1>29, <1>30, <1>31, <1>32, <1>33, <1>34, <1>35, <1>36, <1>37, <1>38, <1>39, <1>40, <1>41,
    <1>42, <1>43, <1>44, <1>45, <1>46
  DEF Next, Prepare, Administer, Scheduled, Proceed

\* A process is at a step of its command.
LEMMA ControlStep ==
    ASSUME ProcessOK, Control, [Next]_vars
    PROVE  Control'
<1> USE DEF Processes, ProcessOK, Control, Including, Enabling, Running, Waiting, Recording
<1>1. CASE StartConfigure
  BY <1>1 DEF StartConfigure, process, locks, storage, program, plan
<1>2. CASE PrepareTarget
  BY <1>2 DEF PrepareTarget, process, locks, storage, program, plan
<1>3. CASE Authorize
  BY <1>3 DEF Authorize, process, locks, storage, program, plan
<1>4. CASE Initialize
  BY <1>4 DEF Initialize, process, locks, storage, program, plan
<1>5. CASE InstallApplication
  BY <1>5 DEF InstallApplication, process, locks, storage, program, plan
<1>6. CASE StartRun
  BY <1>6 DEF StartRun, StartCommand, Begin, process, locks, storage, program, plan
<1>7. ASSUME NEW v \in Versions, StartInclude(v)
      PROVE  Control'
  BY <1>7 DEF StartInclude, StartCommand, Begin, process, locks, storage, program, plan
<1>8. ASSUME NEW v \in Versions, StartEnable(v)
      PROVE  Control'
  BY <1>8 DEF StartEnable, StartCommand, Begin, process, locks, storage, program, plan
<1>9. CASE Configure
  BY <1>9 DEF Configure, Return, process, locks, storage, program, plan
<1>10. CASE IncludeServices
  BY <1>10 DEF IncludeServices, Go, process, locks, storage, program, plan
<1>11. CASE Refresh
  BY <1>11 DEF Refresh, Go, Resumable, process, locks, storage, program, plan
<1>12. CASE StageCandidate
  BY <1>12 DEF StageCandidate, Go, process, locks, storage, program, plan
<1>13. CASE FinishCandidate
  BY <1>13 DEF FinishCandidate, Go, process, locks, storage, program, plan
<1>14. CASE WriteIntent
  BY <1>14 DEF WriteIntent, Intent, Go, process, locks, storage, program, plan
<1>15. CASE MoveAway
  BY <1>15 DEF MoveAway, Go, process, locks, storage, program, plan
<1>16. CASE PutInPlace
  BY <1>16 DEF PutInPlace, Go, process, locks, storage, program, plan
<1>17. CASE Settle
  BY <1>17 DEF Settle, Go, process, locks, storage, program, plan
<1>18. CASE ExtendScope
  BY <1>18 DEF ExtendScope, Extended, Return, process, locks, storage, program, plan
<1>19. CASE Enable
  BY <1>19 DEF Enable, Executable, Owned, Go, process, locks, storage, program, plan
<1>20. CASE CreateRuntime
  BY <1>20 DEF CreateRuntime, Go, process, locks, storage, program, plan
<1>21. CASE WriteUnits
  BY <1>21 DEF WriteUnits, Go, process, locks, storage, program, plan
<1>22. CASE WriteSchedule
  BY <1>22 DEF WriteSchedule, Go, process, locks, storage, program, plan
<1>23. CASE EnableTimer
  BY <1>23 DEF EnableTimer, Return, process, locks, storage, program, plan
<1>24. CASE Raise
  BY <1>24 DEF Raise, Return, process, locks, storage, program, plan
<1>25. CASE TimerFires
  BY <1>25 DEF TimerFires, Begin, process, locks, storage, program, plan
<1>26. CASE TimerLocks
  BY <1>26 DEF TimerLocks, LockFree, Go, process, locks, storage, program, plan
<1>27. CASE TimerBusy
  BY <1>27 DEF TimerBusy, Return, process, locks, storage, program, plan
<1>28. CASE RecordAttempt
  BY <1>28 DEF RecordAttempt, Succeeded, Return, process, locks, storage, program, plan
<1>29. CASE RecordFailure
  BY <1>29 DEF RecordFailure, Return, process, locks, storage, program, plan
<1>30. CASE Disable
  BY <1>30 DEF Disable, process, locks, storage, program, plan
<1>31. ASSUME NEW p \in Processes, Check(p)
      PROVE  Control'
  BY <1>31 DEF Check, TlsHeld, Loop, process, locks, storage, program, plan
<1>32. ASSUME NEW p \in Processes, CheckRefuses(p)
      PROVE  Control'
  BY <1>32 DEF CheckRefuses, Fail, Go, Return, process, locks, storage, program, plan
<1>33. ASSUME NEW p \in Processes, NEW u \in Units, Stop(p, u)
      PROVE  Control'
  BY <1>33 DEF Stop, Loop, process, locks, storage, program, plan
<1>34. ASSUME NEW p \in Processes, BeginCopy(p)
      PROVE  Control'
  BY <1>34 DEF BeginCopy, process, locks, storage, program, plan
<1>35. ASSUME NEW p \in Processes, EndCopy(p)
      PROVE  Control'
  BY <1>35 DEF EndCopy, ToStart, Finally, Loop, process, locks, storage, program, plan
<1>36. ASSUME NEW p \in Processes, CaptureFails(p)
      PROVE  Control'
  BY <1>36 DEF CaptureFails, Unwind, ToStart, Finally, Loop, process, locks, storage, program, plan
<1>37. ASSUME NEW p \in Processes, NEW u \in Units, Start(p, u)
      PROVE  Control'
  BY <1>37 DEF Start, Finally, Loop, process, locks, storage, program, plan
<1>38. ASSUME NEW p \in Processes, EndCapture(p)
      PROVE  Control'
  BY <1>38 DEF EndCapture, Go, Return, process, locks, storage, program, plan
<1>39. ASSUME NEW p \in Processes, Upload(p)
      PROVE  Control'
  BY <1>39 DEF Upload, Store, Go, Return, process, locks, storage, program, plan
<1>40. ASSUME NEW p \in Processes, UploadFails(p)
      PROVE  Control'
  BY <1>40 DEF UploadFails, Store, Fail, Go, Return, process, locks, storage, program, plan
<1>41. ASSUME NEW p \in Processes, Interrupt(p)
      PROVE  Control'
  BY <1>41 DEF Interrupt, LeftStopped, Go, Return, process, locks, storage, program, plan
<1>42. ASSUME NEW p \in Processes, Kill(p)
      PROVE  Control'
  BY <1>42 DEF Kill, LeftStopped, Return, process, locks, storage, program, plan
<1>43. CASE Reboot
  BY <1>43 DEF Reboot, Everywhere, process, locks, storage, program, plan
<1>44. ASSUME NEW u \in Units, Recover(u)
      PROVE  Control'
  BY <1>44 DEF Recover, Up, Torn, process, locks, storage, program, plan
<1>45. ASSUME NEW u \in Units, Renew(u)
      PROVE  Control'
  BY <1>45 DEF Renew, Up, Torn, process, locks, storage, program, plan
<1>46. CASE UNCHANGED vars
  BY <1>46 DEF vars, process, locks, storage, program, plan
<1> QED
  BY <1>1, <1>2, <1>3, <1>4, <1>5, <1>6, <1>7, <1>8, <1>9, <1>10, <1>11, <1>12, <1>13, <1>14, <1>15,
    <1>16, <1>17, <1>18, <1>19, <1>20, <1>21, <1>22, <1>23, <1>24, <1>25, <1>26, <1>27, <1>28,
    <1>29, <1>30, <1>31, <1>32, <1>33, <1>34, <1>35, <1>36, <1>37, <1>38, <1>39, <1>40, <1>41,
    <1>42, <1>43, <1>44, <1>45, <1>46
  DEF Next, Prepare, Administer, Scheduled, Proceed

\* The lock is held where a step needs it.
LEMMA LockedStep ==
    ASSUME ProcessOK, Control, Locked, [Next]_vars
    PROVE  Locked'
<1> USE DEF Processes, ProcessOK, Control, Locked, Scopes, Including, Enabling, Running, Waiting,
           Recording
<1>1. CASE StartConfigure
  BY <1>1 DEF StartConfigure, process, locks, storage, program, plan
<1>2. CASE PrepareTarget
  BY <1>2 DEF PrepareTarget, process, locks, storage, program, plan
<1>3. CASE Authorize
  BY <1>3 DEF Authorize, process, locks, storage, program, plan
<1>4. CASE Initialize
  BY <1>4 DEF Initialize, process, locks, storage, program, plan
<1>5. CASE InstallApplication
  BY <1>5 DEF InstallApplication, process, locks, storage, program, plan
<1>6. CASE StartRun
  BY <1>6 DEF StartRun, StartCommand, Begin, process, locks, storage, program, plan, LockFree
<1>7. ASSUME NEW v \in Versions, StartInclude(v)
      PROVE  Locked'
  BY <1>7 DEF StartInclude, StartCommand, Begin, process, locks, storage, program, plan, LockFree
<1>8. ASSUME NEW v \in Versions, StartEnable(v)
      PROVE  Locked'
  BY <1>8 DEF StartEnable, StartCommand, Begin, process, locks, storage, program, plan, LockFree
<1>9. CASE Configure
  BY <1>9 DEF Configure, Return, process, locks, storage, program, plan
<1>10. CASE IncludeServices
  BY <1>10 DEF IncludeServices, Go, process, locks, storage, program, plan
<1>11. CASE Refresh
  BY <1>11 DEF Refresh, Go, Resumable, process, locks, storage, program, plan
<1>12. CASE StageCandidate
  BY <1>12 DEF StageCandidate, Go, process, locks, storage, program, plan
<1>13. CASE FinishCandidate
  BY <1>13 DEF FinishCandidate, Go, process, locks, storage, program, plan
<1>14. CASE WriteIntent
  BY <1>14 DEF WriteIntent, Intent, Go, process, locks, storage, program, plan
<1>15. CASE MoveAway
  BY <1>15 DEF MoveAway, Go, process, locks, storage, program, plan
<1>16. CASE PutInPlace
  BY <1>16 DEF PutInPlace, Go, process, locks, storage, program, plan
<1>17. CASE Settle
  BY <1>17 DEF Settle, Go, process, locks, storage, program, plan
<1>18. CASE ExtendScope
  BY <1>18 DEF ExtendScope, Extended, Return, process, locks, storage, program, plan
<1>19. CASE Enable
  BY <1>19 DEF Enable, Executable, Owned, Go, process, locks, storage, program, plan
<1>20. CASE CreateRuntime
  BY <1>20 DEF CreateRuntime, Go, process, locks, storage, program, plan
<1>21. CASE WriteUnits
  BY <1>21 DEF WriteUnits, Go, process, locks, storage, program, plan
<1>22. CASE WriteSchedule
  BY <1>22 DEF WriteSchedule, Go, process, locks, storage, program, plan
<1>23. CASE EnableTimer
  BY <1>23 DEF EnableTimer, Return, process, locks, storage, program, plan
<1>24. CASE Raise
  BY <1>24 DEF Raise, Return, process, locks, storage, program, plan
<1>25. CASE TimerFires
  BY <1>25 DEF TimerFires, Begin, process, locks, storage, program, plan
<1>26. CASE TimerLocks
  BY <1>26 DEF TimerLocks, LockFree, Go, process, locks, storage, program, plan
<1>27. CASE TimerBusy
  BY <1>27 DEF TimerBusy, Return, process, locks, storage, program, plan
<1>28. CASE RecordAttempt
  BY <1>28 DEF RecordAttempt, Succeeded, Return, process, locks, storage, program, plan
<1>29. CASE RecordFailure
  BY <1>29 DEF RecordFailure, Return, process, locks, storage, program, plan
<1>30. CASE Disable
  BY <1>30 DEF Disable, process, locks, storage, program, plan
<1>31. ASSUME NEW p \in Processes, Check(p)
      PROVE  Locked'
  BY <1>31 DEF Check, TlsHeld, Loop, process, locks, storage, program, plan
<1>32. ASSUME NEW p \in Processes, CheckRefuses(p)
      PROVE  Locked'
  <2>1. Ends(p) /\ UNCHANGED conf
    BY <1>32, Endings DEF CheckRefuses
  <2> QED
    BY <2>1, EndsLocked
<1>33. ASSUME NEW p \in Processes, NEW u \in Units, Stop(p, u)
      PROVE  Locked'
  BY <1>33 DEF Stop, Loop, process, locks, storage, program, plan
<1>34. ASSUME NEW p \in Processes, BeginCopy(p)
      PROVE  Locked'
  BY <1>34 DEF BeginCopy, process, locks, storage, program, plan
<1>35. ASSUME NEW p \in Processes, EndCopy(p)
      PROVE  Locked'
  BY <1>35 DEF EndCopy, ToStart, Finally, Loop, process, locks, storage, program, plan
<1>36. ASSUME NEW p \in Processes, CaptureFails(p)
      PROVE  Locked'
  BY <1>36 DEF CaptureFails, Unwind, ToStart, Finally, Loop, process, locks, storage, program, plan
<1>37. ASSUME NEW p \in Processes, NEW u \in Units, Start(p, u)
      PROVE  Locked'
  BY <1>37 DEF Start, Finally, Loop, process, locks, storage, program, plan
<1>38. ASSUME NEW p \in Processes, EndCapture(p)
      PROVE  Locked'
  BY <1>38 DEF EndCapture, Go, Return, process, locks, storage, program, plan
<1>39. ASSUME NEW p \in Processes, Upload(p)
      PROVE  Locked'
  <2>1. /\ Return(p) \/ (p = "timer" /\ pc[p] = "upload" /\ Go(p, "record") /\ UNCHANGED lock)
        /\ UNCHANGED conf
    BY <1>39, Endings DEF Upload
  <2>2. CASE Return(p)
    BY <2>1, <2>2, EndsLocked DEF Ends
  <2>3. CASE ~Return(p)
    BY <2>1, <2>3 DEF Go
  <2> QED
    BY <2>2, <2>3
<1>40. ASSUME NEW p \in Processes, UploadFails(p)
      PROVE  Locked'
  <2>1. Ends(p) /\ UNCHANGED conf
    BY <1>40, Endings DEF UploadFails
  <2> QED
    BY <2>1, EndsLocked
<1>41. ASSUME NEW p \in Processes, Interrupt(p)
      PROVE  Locked'
  <2>1. Ends(p) /\ UNCHANGED conf
    BY <1>41, Endings DEF Interrupt
  <2> QED
    BY <2>1, EndsLocked
<1>42. ASSUME NEW p \in Processes, Kill(p)
      PROVE  Locked'
  BY <1>42 DEF Kill, LeftStopped, Return, process, locks, storage, program, plan
<1>43. CASE Reboot
  BY <1>43 DEF Reboot, Everywhere, process, locks, storage, program, plan
<1>44. ASSUME NEW u \in Units, Recover(u)
      PROVE  Locked'
  BY <1>44 DEF Recover, Up, Torn, process, locks, storage, program, plan
<1>45. ASSUME NEW u \in Units, Renew(u)
      PROVE  Locked'
  BY <1>45 DEF Renew, Up, Torn, process, locks, storage, program, plan
<1>46. CASE UNCHANGED vars
  BY <1>46 DEF vars, process, locks, storage, program, plan
<1> QED
  BY <1>1, <1>2, <1>3, <1>4, <1>5, <1>6, <1>7, <1>8, <1>9, <1>10, <1>11, <1>12, <1>13, <1>14, <1>15,
    <1>16, <1>17, <1>18, <1>19, <1>20, <1>21, <1>22, <1>23, <1>24, <1>25, <1>26, <1>27, <1>28,
    <1>29, <1>30, <1>31, <1>32, <1>33, <1>34, <1>35, <1>36, <1>37, <1>38, <1>39, <1>40, <1>41,
    <1>42, <1>43, <1>44, <1>45, <1>46
  DEF Next, Prepare, Administer, Scheduled, Proceed

\* The certificate lock is held by a capture.
LEMMA CertifiedStep ==
    ASSUME FlagsOK, ProcessOK, Control, Locked, Certified, [Next]_vars
    PROVE  Certified'
<1> USE DEF Processes, ProcessOK, Locked, Certified, Capturing
<1>1. CASE StartConfigure
  BY <1>1 DEF StartConfigure, process, locks, storage, program, plan, Control
<1>2. CASE PrepareTarget
  BY <1>2 DEF PrepareTarget, process, locks, storage, program, plan
<1>3. CASE Authorize
  BY <1>3 DEF Authorize, process, locks, storage, program, plan
<1>4. CASE Initialize
  BY <1>4 DEF Initialize, process, locks, storage, program, plan
<1>5. CASE InstallApplication
  BY <1>5 DEF InstallApplication, process, locks, storage, program, plan
<1>6. CASE StartRun
  BY <1>6 DEF StartRun, StartCommand, Begin, process, locks, storage, program, plan, Control
<1>7. ASSUME NEW v \in Versions, StartInclude(v)
      PROVE  Certified'
  BY <1>7 DEF StartInclude, StartCommand, Begin, process, locks, storage, program, plan, Control
<1>8. ASSUME NEW v \in Versions, StartEnable(v)
      PROVE  Certified'
  BY <1>8 DEF StartEnable, StartCommand, Begin, process, locks, storage, program, plan, Control
<1>9. CASE Configure
  BY <1>9 DEF Configure, Return, process, locks, storage, program, plan
<1>10. CASE IncludeServices
  BY <1>10 DEF IncludeServices, Go, process, locks, storage, program, plan
<1>11. CASE Refresh
  BY <1>11 DEF Refresh, Go, Resumable, process, locks, storage, program, plan
<1>12. CASE StageCandidate
  BY <1>12 DEF StageCandidate, Go, process, locks, storage, program, plan
<1>13. CASE FinishCandidate
  BY <1>13 DEF FinishCandidate, Go, process, locks, storage, program, plan
<1>14. CASE WriteIntent
  BY <1>14 DEF WriteIntent, Intent, Go, process, locks, storage, program, plan
<1>15. CASE MoveAway
  BY <1>15 DEF MoveAway, Go, process, locks, storage, program, plan
<1>16. CASE PutInPlace
  BY <1>16 DEF PutInPlace, Go, process, locks, storage, program, plan
<1>17. CASE Settle
  BY <1>17 DEF Settle, Go, process, locks, storage, program, plan
<1>18. CASE ExtendScope
  BY <1>18 DEF ExtendScope, Extended, Return, process, locks, storage, program, plan
<1>19. CASE Enable
  BY <1>19 DEF Enable, Executable, Owned, Go, process, locks, storage, program, plan
<1>20. CASE CreateRuntime
  BY <1>20 DEF CreateRuntime, Go, process, locks, storage, program, plan
<1>21. CASE WriteUnits
  BY <1>21 DEF WriteUnits, Go, process, locks, storage, program, plan
<1>22. CASE WriteSchedule
  BY <1>22 DEF WriteSchedule, Go, process, locks, storage, program, plan
<1>23. CASE EnableTimer
  BY <1>23 DEF EnableTimer, Return, process, locks, storage, program, plan
<1>24. CASE Raise
  BY <1>24 DEF Raise, Return, process, locks, storage, program, plan
<1>25. CASE TimerFires
  BY <1>25 DEF TimerFires, Begin, process, locks, storage, program, plan, Control
<1>26. CASE TimerLocks
  BY <1>26 DEF TimerLocks, LockFree, Go, process, locks, storage, program, plan
<1>27. CASE TimerBusy
  BY <1>27 DEF TimerBusy, Return, process, locks, storage, program, plan
<1>28. CASE RecordAttempt
  BY <1>28 DEF RecordAttempt, Succeeded, Return, process, locks, storage, program, plan
<1>29. CASE RecordFailure
  BY <1>29 DEF RecordFailure, Return, process, locks, storage, program, plan
<1>30. CASE Disable
  BY <1>30 DEF Disable, process, locks, storage, program, plan
<1>31. ASSUME NEW p \in Processes, Check(p)
      PROVE  Certified'
  BY <1>31 DEF Check, TlsHeld, Loop, process, locks, storage, program, plan
<1>32. ASSUME NEW p \in Processes, CheckRefuses(p)
      PROVE  Certified'
  <2>1. tls' <=> tls /\ ~Capturing(p)
    BY <1>32 DEF CheckRefuses, Fail, Return, locks
  <2> QED
    BY <1>32, <2>1, Endings, EndsCertified DEF Ends
<1>33. ASSUME NEW p \in Processes, NEW u \in Units, Stop(p, u)
      PROVE  Certified'
  BY <1>33 DEF Stop, Loop, process, locks, storage, program, plan
<1>34. ASSUME NEW p \in Processes, BeginCopy(p)
      PROVE  Certified'
  BY <1>34 DEF BeginCopy, process, locks, storage, program, plan
<1>35. ASSUME NEW p \in Processes, EndCopy(p)
      PROVE  Certified'
  BY <1>35 DEF EndCopy, ToStart, Finally, Loop, process, locks, storage, program, plan
<1>36. ASSUME NEW p \in Processes, CaptureFails(p)
      PROVE  Certified'
  BY <1>36 DEF CaptureFails, Unwind, ToStart, Finally, Loop, process, locks, storage, program, plan
<1>37. ASSUME NEW p \in Processes, NEW u \in Units, Start(p, u)
      PROVE  Certified'
  BY <1>37 DEF Start, Finally, Loop, process, locks, storage, program, plan
<1>38. ASSUME NEW p \in Processes, EndCapture(p)
      PROVE  Certified'
  BY <1>38 DEF EndCapture, Go, Return, process, locks, storage, program, plan
<1>39. ASSUME NEW p \in Processes, Upload(p)
      PROVE  Certified'
  <2>1. tls' <=> tls /\ ~Capturing(p)
    BY <1>39 DEF Upload, Return, locks
  <2> QED
    BY <1>39, <2>1, Endings, EndsCertified DEF Ends
<1>40. ASSUME NEW p \in Processes, UploadFails(p)
      PROVE  Certified'
  <2>1. tls' <=> tls /\ ~Capturing(p)
    BY <1>40 DEF UploadFails, Fail, Return, locks
  <2> QED
    BY <1>40, <2>1, Endings, EndsCertified DEF Ends
<1>41. ASSUME NEW p \in Processes, Interrupt(p)
      PROVE  Certified'
  <2>1. tls' <=> tls /\ ~Capturing(p)
    BY <1>41 DEF Interrupt, Return
  <2> QED
    BY <1>41, <2>1, Endings, EndsCertified DEF Ends
<1>42. ASSUME NEW p \in Processes, Kill(p)
      PROVE  Certified'
  BY <1>42 DEF Kill, LeftStopped, Return, process, locks, storage, program, plan
<1>43. CASE Reboot
  BY <1>43 DEF Reboot, Everywhere, process, locks, storage, program, plan
<1>44. ASSUME NEW u \in Units, Recover(u)
      PROVE  Certified'
  BY <1>44 DEF Recover, Up, Torn, process, locks, storage, program, plan
<1>45. ASSUME NEW u \in Units, Renew(u)
      PROVE  Certified'
  BY <1>45 DEF Renew, Up, Torn, process, locks, storage, program, plan
<1>46. CASE UNCHANGED vars
  BY <1>46 DEF vars, process, locks, storage, program, plan
<1> QED
  BY <1>1, <1>2, <1>3, <1>4, <1>5, <1>6, <1>7, <1>8, <1>9, <1>10, <1>11, <1>12, <1>13, <1>14, <1>15,
    <1>16, <1>17, <1>18, <1>19, <1>20, <1>21, <1>22, <1>23, <1>24, <1>25, <1>26, <1>27, <1>28,
    <1>29, <1>30, <1>31, <1>32, <1>33, <1>34, <1>35, <1>36, <1>37, <1>38, <1>39, <1>40, <1>41,
    <1>42, <1>43, <1>44, <1>45, <1>46
  DEF Next, Prepare, Administer, Scheduled, Proceed

\* What a capture stopped stays down until it has copied.
LEMMA PausedStep ==
    ASSUME ProcessOK, NodeOK, Control, Locked, Certified, Paused, [Next]_vars
    PROVE  Paused'
<1> USE DEF Processes, ProcessOK, NodeOK, Control, Locked, Certified, Paused, Capturing, Active,
           Including, Enabling, Running, Waiting, Recording
<1>1. CASE StartConfigure
  <2>1. \A p \in Processes : pc[p] \in {"idle", "files"}
    BY <1>1 DEF StartConfigure, Scopes
  <2> QED
    BY <1>1, <2>1 DEF StartConfigure, process, locks, storage, program, plan
<1>2. CASE PrepareTarget
  BY <1>2 DEF PrepareTarget, process, locks, storage, program, plan
<1>3. CASE Authorize
  BY <1>3 DEF Authorize, process, locks, storage, program, plan
<1>4. CASE Initialize
  BY <1>4 DEF Initialize, process, locks, storage, program, plan
<1>5. CASE InstallApplication
  BY <1>5 DEF InstallApplication, process, locks, storage, program, plan
<1>6. CASE StartRun
  BY <1>6 DEF StartRun, StartCommand, Begin, process, locks, storage, program, plan
<1>7. ASSUME NEW v \in Versions, StartInclude(v)
      PROVE  Paused'
  BY <1>7 DEF StartInclude, StartCommand, Begin, process, locks, storage, program, plan
<1>8. ASSUME NEW v \in Versions, StartEnable(v)
      PROVE  Paused'
  BY <1>8 DEF StartEnable, StartCommand, Begin, process, locks, storage, program, plan
<1>9. CASE Configure
  <2>1. \A p \in Processes : pc[p] \in {"idle", "files"}
    BY <1>9 DEF Configure, Scopes
  <2> QED
    BY <1>9, <2>1 DEF Configure, Return, process, locks, storage, program, plan
<1>10. CASE IncludeServices
  BY <1>10 DEF IncludeServices, Go, process, locks, storage, program, plan
<1>11. CASE Refresh
  BY <1>11 DEF Refresh, Go, Resumable, process, locks, storage, program, plan
<1>12. CASE StageCandidate
  BY <1>12 DEF StageCandidate, Go, process, locks, storage, program, plan
<1>13. CASE FinishCandidate
  BY <1>13 DEF FinishCandidate, Go, process, locks, storage, program, plan
<1>14. CASE WriteIntent
  BY <1>14 DEF WriteIntent, Intent, Go, process, locks, storage, program, plan
<1>15. CASE MoveAway
  BY <1>15 DEF MoveAway, Go, process, locks, storage, program, plan
<1>16. CASE PutInPlace
  BY <1>16 DEF PutInPlace, Go, process, locks, storage, program, plan
<1>17. CASE Settle
  BY <1>17 DEF Settle, Go, process, locks, storage, program, plan
<1>18. CASE ExtendScope
  BY <1>18 DEF ExtendScope, Extended, Return, process, locks, storage, program, plan
<1>19. CASE Enable
  BY <1>19 DEF Enable, Executable, Owned, Go, process, locks, storage, program, plan
<1>20. CASE CreateRuntime
  BY <1>20 DEF CreateRuntime, Go, process, locks, storage, program, plan
<1>21. CASE WriteUnits
  BY <1>21 DEF WriteUnits, Go, process, locks, storage, program, plan
<1>22. CASE WriteSchedule
  BY <1>22 DEF WriteSchedule, Go, process, locks, storage, program, plan
<1>23. CASE EnableTimer
  BY <1>23 DEF EnableTimer, Return, process, locks, storage, program, plan
<1>24. CASE Raise
  <2>1. pc["operator"] \in Including \union Enabling
    BY <1>24 DEF Raise
  <2>2. Return("operator") /\ UNCHANGED <<conf, svc>>
    BY <1>24 DEF Raise
  <2> QED
    BY <2>1, <2>2 DEF Return
<1>25. CASE TimerFires
  BY <1>25 DEF TimerFires, Begin, process, locks, storage, program, plan
<1>26. CASE TimerLocks
  BY <1>26 DEF TimerLocks, LockFree, Go, process, locks, storage, program, plan
<1>27. CASE TimerBusy
  BY <1>27 DEF TimerBusy, Return, process, locks, storage, program, plan
<1>28. CASE RecordAttempt
  BY <1>28 DEF RecordAttempt, Succeeded, Return, process, locks, storage, program, plan
<1>29. CASE RecordFailure
  BY <1>29 DEF RecordFailure, Return, process, locks, storage, program, plan
<1>30. CASE Disable
  BY <1>30 DEF Disable, process, locks, storage, program, plan
<1>31. ASSUME NEW p \in Processes, Check(p)
      PROVE  Paused'
  BY <1>31 DEF Check, TlsHeld, Loop, process, locks, storage, program, plan
<1>32. ASSUME NEW p \in Processes, CheckRefuses(p)
      PROVE  Paused'
  BY <1>32 DEF CheckRefuses, Fail, Go, Return, process, locks, storage, program, plan
<1>33. ASSUME NEW p \in Processes, NEW u \in Units, Stop(p, u)
      PROVE  Paused'
  BY <1>33 DEF Stop, Loop, process, locks, storage, program, plan
<1>34. ASSUME NEW p \in Processes, BeginCopy(p)
      PROVE  Paused'
  BY <1>34 DEF BeginCopy, process, locks, storage, program, plan
<1>35. ASSUME NEW p \in Processes, EndCopy(p)
      PROVE  Paused'
  BY <1>35 DEF EndCopy, ToStart, Finally, Loop, process, locks, storage, program, plan
<1>36. ASSUME NEW p \in Processes, CaptureFails(p)
      PROVE  Paused'
  BY <1>36 DEF CaptureFails, Unwind, ToStart, Finally, Loop, process, locks, storage, program, plan
<1>37. ASSUME NEW p \in Processes, NEW u \in Units, Start(p, u)
      PROVE  Paused'
  BY <1>37 DEF Start, Finally, Loop, process, locks, storage, program, plan
<1>38. ASSUME NEW p \in Processes, EndCapture(p)
      PROVE  Paused'
  BY <1>38 DEF EndCapture, Go, Return, process, locks, storage, program, plan
<1>39. ASSUME NEW p \in Processes, Upload(p)
      PROVE  Paused'
  BY <1>39 DEF Upload, Store, Go, Return, process, locks, storage, program, plan
<1>40. ASSUME NEW p \in Processes, UploadFails(p)
      PROVE  Paused'
  BY <1>40 DEF UploadFails, Store, Fail, Go, Return, process, locks, storage, program, plan
<1>41. ASSUME NEW p \in Processes, Interrupt(p)
      PROVE  Paused'
  BY <1>41 DEF Interrupt, LeftStopped, Go, Return, process, locks, storage, program, plan
<1>42. ASSUME NEW p \in Processes, Kill(p)
      PROVE  Paused'
  BY <1>42 DEF Kill, LeftStopped, Return, process, locks, storage, program, plan
<1>43. CASE Reboot
  BY <1>43 DEF Reboot, Everywhere, process, locks, storage, program, plan
<1>44. ASSUME NEW u \in Units, Recover(u)
      PROVE  Paused'
  BY <1>44 DEF Recover, Up, Torn, process, locks, storage, program, plan
<1>45. ASSUME NEW u \in Units, Renew(u)
      PROVE  Paused'
  BY <1>45 DEF Renew, Up, Torn, process, locks, storage, program, plan
<1>46. CASE UNCHANGED vars
  BY <1>46 DEF vars, process, locks, storage, program, plan
<1> QED
  <2> HIDE DEF Processes, ProcessOK, NodeOK, Control, Locked, Certified, Paused, Capturing, Active,
              Including, Enabling, Running, Waiting, Recording
  <2> QED
    BY <1>1, <1>2, <1>3, <1>4, <1>5, <1>6, <1>7, <1>8, <1>9, <1>10, <1>11, <1>12, <1>13, <1>14, <1>15,
      <1>16, <1>17, <1>18, <1>19, <1>20, <1>21, <1>22, <1>23, <1>24, <1>25, <1>26, <1>27, <1>28,
      <1>29, <1>30, <1>31, <1>32, <1>33, <1>34, <1>35, <1>36, <1>37, <1>38, <1>39, <1>40, <1>41,
      <1>42, <1>43, <1>44, <1>45, <1>46
    DEF Next, Prepare, Administer, Scheduled, Proceed

\* What is uploaded was copied from stopped units.
LEMMA SoundStep ==
    ASSUME ProcessOK, NodeOK, Locked, Paused, SnapshotsSound, [Next]_vars
    PROVE  SnapshotsSound'
<1> USE DEF SnapshotsSound
<1>1. CASE StartConfigure
  BY <1>1 DEF StartConfigure, process, locks, storage, program, plan
<1>2. CASE PrepareTarget
  BY <1>2 DEF PrepareTarget, process, locks, storage, program, plan
<1>3. CASE Authorize
  BY <1>3 DEF Authorize, process, locks, storage, program, plan
<1>4. CASE Initialize
  BY <1>4 DEF Initialize, process, locks, storage, program, plan
<1>5. CASE InstallApplication
  BY <1>5 DEF InstallApplication, process, locks, storage, program, plan
<1>6. CASE StartRun
  BY <1>6 DEF StartRun, StartCommand, Begin, process, locks, storage, program, plan
<1>7. ASSUME NEW v \in Versions, StartInclude(v)
      PROVE  SnapshotsSound'
  BY <1>7 DEF StartInclude, StartCommand, Begin, process, locks, storage, program, plan
<1>8. ASSUME NEW v \in Versions, StartEnable(v)
      PROVE  SnapshotsSound'
  BY <1>8 DEF StartEnable, StartCommand, Begin, process, locks, storage, program, plan
<1>9. CASE Configure
  BY <1>9 DEF Configure, Return, process, locks, storage, program, plan
<1>10. CASE IncludeServices
  BY <1>10 DEF IncludeServices, Go, process, locks, storage, program, plan
<1>11. CASE Refresh
  BY <1>11 DEF Refresh, Go, Resumable, process, locks, storage, program, plan
<1>12. CASE StageCandidate
  BY <1>12 DEF StageCandidate, Go, process, locks, storage, program, plan
<1>13. CASE FinishCandidate
  BY <1>13 DEF FinishCandidate, Go, process, locks, storage, program, plan
<1>14. CASE WriteIntent
  BY <1>14 DEF WriteIntent, Intent, Go, process, locks, storage, program, plan
<1>15. CASE MoveAway
  BY <1>15 DEF MoveAway, Go, process, locks, storage, program, plan
<1>16. CASE PutInPlace
  BY <1>16 DEF PutInPlace, Go, process, locks, storage, program, plan
<1>17. CASE Settle
  BY <1>17 DEF Settle, Go, process, locks, storage, program, plan
<1>18. CASE ExtendScope
  BY <1>18 DEF ExtendScope, Extended, Return, process, locks, storage, program, plan
<1>19. CASE Enable
  BY <1>19 DEF Enable, Executable, Owned, Go, process, locks, storage, program, plan
<1>20. CASE CreateRuntime
  BY <1>20 DEF CreateRuntime, Go, process, locks, storage, program, plan
<1>21. CASE WriteUnits
  BY <1>21 DEF WriteUnits, Go, process, locks, storage, program, plan
<1>22. CASE WriteSchedule
  BY <1>22 DEF WriteSchedule, Go, process, locks, storage, program, plan
<1>23. CASE EnableTimer
  BY <1>23 DEF EnableTimer, Return, process, locks, storage, program, plan
<1>24. CASE Raise
  BY <1>24 DEF Raise, Return, process, locks, storage, program, plan
<1>25. CASE TimerFires
  BY <1>25 DEF TimerFires, Begin, process, locks, storage, program, plan
<1>26. CASE TimerLocks
  BY <1>26 DEF TimerLocks, LockFree, Go, process, locks, storage, program, plan
<1>27. CASE TimerBusy
  BY <1>27 DEF TimerBusy, Return, process, locks, storage, program, plan
<1>28. CASE RecordAttempt
  BY <1>28 DEF RecordAttempt, Succeeded, Return, process, locks, storage, program, plan
<1>29. CASE RecordFailure
  BY <1>29 DEF RecordFailure, Return, process, locks, storage, program, plan
<1>30. CASE Disable
  BY <1>30 DEF Disable, process, locks, storage, program, plan
<1>31. ASSUME NEW p \in Processes, Check(p)
      PROVE  SnapshotsSound'
  BY <1>31 DEF Check, TlsHeld, Loop, process, locks, storage, program, plan
<1>32. ASSUME NEW p \in Processes, CheckRefuses(p)
      PROVE  SnapshotsSound'
  BY <1>32 DEF CheckRefuses, Fail, Go, Return, process, locks, storage, program, plan
<1>33. ASSUME NEW p \in Processes, NEW u \in Units, Stop(p, u)
      PROVE  SnapshotsSound'
  BY <1>33 DEF Stop, Loop, process, locks, storage, program, plan
<1>34. ASSUME NEW p \in Processes, BeginCopy(p)
      PROVE  SnapshotsSound'
  BY <1>34 DEF BeginCopy, process, locks, storage, program, plan
<1>35. ASSUME NEW p \in Processes, EndCopy(p)
      PROVE  SnapshotsSound'
  BY <1>35 DEF EndCopy, ToStart, Finally, Loop, process, locks, storage, program, plan
<1>36. ASSUME NEW p \in Processes, CaptureFails(p)
      PROVE  SnapshotsSound'
  BY <1>36 DEF CaptureFails, Unwind, ToStart, Finally, Loop, process, locks, storage, program, plan
<1>37. ASSUME NEW p \in Processes, NEW u \in Units, Start(p, u)
      PROVE  SnapshotsSound'
  BY <1>37 DEF Start, Finally, Loop, process, locks, storage, program, plan
<1>38. ASSUME NEW p \in Processes, EndCapture(p)
      PROVE  SnapshotsSound'
  BY <1>38 DEF EndCapture, Go, Return, process, locks, storage, program, plan
<1>39. ASSUME NEW p \in Processes, Upload(p)
      PROVE  SnapshotsSound'
  <2>1. pc[p] = "upload" /\ Store(p)
    BY <1>39 DEF Upload
  <2> QED
    BY <2>1, Stored DEF NodeOK
<1>40. ASSUME NEW p \in Processes, UploadFails(p)
      PROVE  SnapshotsSound'
  <2>1. pc[p] = "upload" /\ (Store(p) \/ UNCHANGED snapshots)
    BY <1>40 DEF UploadFails, storage
  <2> QED
    BY <2>1, Stored DEF NodeOK
<1>41. ASSUME NEW p \in Processes, Interrupt(p)
      PROVE  SnapshotsSound'
  BY <1>41 DEF Interrupt, LeftStopped, Go, Return, process, locks, storage, program, plan
<1>42. ASSUME NEW p \in Processes, Kill(p)
      PROVE  SnapshotsSound'
  BY <1>42 DEF Kill, LeftStopped, Return, process, locks, storage, program, plan
<1>43. CASE Reboot
  BY <1>43 DEF Reboot, Everywhere, process, locks, storage, program, plan
<1>44. ASSUME NEW u \in Units, Recover(u)
      PROVE  SnapshotsSound'
  BY <1>44 DEF Recover, Up, Torn, process, locks, storage, program, plan
<1>45. ASSUME NEW u \in Units, Renew(u)
      PROVE  SnapshotsSound'
  BY <1>45 DEF Renew, Up, Torn, process, locks, storage, program, plan
<1>46. CASE UNCHANGED vars
  BY <1>46 DEF vars, process, locks, storage, program, plan
<1> QED
  BY <1>1, <1>2, <1>3, <1>4, <1>5, <1>6, <1>7, <1>8, <1>9, <1>10, <1>11, <1>12, <1>13, <1>14, <1>15,
    <1>16, <1>17, <1>18, <1>19, <1>20, <1>21, <1>22, <1>23, <1>24, <1>25, <1>26, <1>27, <1>28,
    <1>29, <1>30, <1>31, <1>32, <1>33, <1>34, <1>35, <1>36, <1>37, <1>38, <1>39, <1>40, <1>41,
    <1>42, <1>43, <1>44, <1>45, <1>46
  DEF Next, Prepare, Administer, Scheduled, Proceed

\* A stopped unit is to be started again, or known to be down.
LEMMA OutageStep ==
    ASSUME ProcessOK, NodeOK, Control, Locked, Paused, NoSilentOutage, [Next]_vars
    PROVE  NoSilentOutage'
<1> USE DEF Processes, ProcessOK, NodeOK, Control, NoSilentOutage, Capturing, Including, Enabling,
           Running, Waiting, Recording
<1>1. CASE StartConfigure
  BY <1>1 DEF StartConfigure, process, locks, storage, program, plan
<1>2. CASE PrepareTarget
  BY <1>2 DEF PrepareTarget, process, locks, storage, program, plan
<1>3. CASE Authorize
  BY <1>3 DEF Authorize, process, locks, storage, program, plan
<1>4. CASE Initialize
  BY <1>4 DEF Initialize, process, locks, storage, program, plan
<1>5. CASE InstallApplication
  BY <1>5 DEF InstallApplication, process, locks, storage, program, plan
<1>6. CASE StartRun
  BY <1>6 DEF StartRun, StartCommand, Begin, process, locks, storage, program, plan
<1>7. ASSUME NEW v \in Versions, StartInclude(v)
      PROVE  NoSilentOutage'
  BY <1>7 DEF StartInclude, StartCommand, Begin, process, locks, storage, program, plan
<1>8. ASSUME NEW v \in Versions, StartEnable(v)
      PROVE  NoSilentOutage'
  BY <1>8 DEF StartEnable, StartCommand, Begin, process, locks, storage, program, plan
<1>9. CASE Configure
  BY <1>9 DEF Configure, Return, process, locks, storage, program, plan
<1>10. CASE IncludeServices
  BY <1>10 DEF IncludeServices, Go, process, locks, storage, program, plan
<1>11. CASE Refresh
  BY <1>11 DEF Refresh, Go, Resumable, process, locks, storage, program, plan
<1>12. CASE StageCandidate
  BY <1>12 DEF StageCandidate, Go, process, locks, storage, program, plan
<1>13. CASE FinishCandidate
  BY <1>13 DEF FinishCandidate, Go, process, locks, storage, program, plan
<1>14. CASE WriteIntent
  BY <1>14 DEF WriteIntent, Intent, Go, process, locks, storage, program, plan
<1>15. CASE MoveAway
  BY <1>15 DEF MoveAway, Go, process, locks, storage, program, plan
<1>16. CASE PutInPlace
  BY <1>16 DEF PutInPlace, Go, process, locks, storage, program, plan
<1>17. CASE Settle
  BY <1>17 DEF Settle, Go, process, locks, storage, program, plan
<1>18. CASE ExtendScope
  BY <1>18 DEF ExtendScope, Extended, Return, process, locks, storage, program, plan
<1>19. CASE Enable
  BY <1>19 DEF Enable, Executable, Owned, Go, process, locks, storage, program, plan
<1>20. CASE CreateRuntime
  BY <1>20 DEF CreateRuntime, Go, process, locks, storage, program, plan
<1>21. CASE WriteUnits
  BY <1>21 DEF WriteUnits, Go, process, locks, storage, program, plan
<1>22. CASE WriteSchedule
  BY <1>22 DEF WriteSchedule, Go, process, locks, storage, program, plan
<1>23. CASE EnableTimer
  BY <1>23 DEF EnableTimer, Return, process, locks, storage, program, plan
<1>24. CASE Raise
  BY <1>24 DEF Raise, Return, process, locks, storage, program, plan
<1>25. CASE TimerFires
  BY <1>25 DEF TimerFires, Begin, process, locks, storage, program, plan
<1>26. CASE TimerLocks
  BY <1>26 DEF TimerLocks, LockFree, Go, process, locks, storage, program, plan
<1>27. CASE TimerBusy
  BY <1>27 DEF TimerBusy, Return, process, locks, storage, program, plan
<1>28. CASE RecordAttempt
  BY <1>28 DEF RecordAttempt, Succeeded, Return, process, locks, storage, program, plan
<1>29. CASE RecordFailure
  BY <1>29 DEF RecordFailure, Return, process, locks, storage, program, plan
<1>30. CASE Disable
  BY <1>30 DEF Disable, process, locks, storage, program, plan
<1>31. ASSUME NEW p \in Processes, Check(p)
      PROVE  NoSilentOutage'
  BY <1>31 DEF Check, TlsHeld, Loop, process, locks, storage, program, plan
<1>32. ASSUME NEW p \in Processes, CheckRefuses(p)
      PROVE  NoSilentOutage'
  BY <1>32 DEF CheckRefuses, Fail, Go, Return, process, locks, storage, program, plan
<1>33. ASSUME NEW p \in Processes, NEW u \in Units, Stop(p, u)
      PROVE  NoSilentOutage'
  BY <1>33 DEF Stop, Loop, process, locks, storage, program, plan
<1>34. ASSUME NEW p \in Processes, BeginCopy(p)
      PROVE  NoSilentOutage'
  BY <1>34 DEF BeginCopy, process, locks, storage, program, plan
<1>35. ASSUME NEW p \in Processes, EndCopy(p)
      PROVE  NoSilentOutage'
  BY <1>35 DEF EndCopy, ToStart, Finally, Loop, process, locks, storage, program, plan
<1>36. ASSUME NEW p \in Processes, CaptureFails(p)
      PROVE  NoSilentOutage'
  BY <1>36 DEF CaptureFails, Unwind, ToStart, Finally, Loop, process, locks, storage, program, plan
<1>37. ASSUME NEW p \in Processes, NEW u \in Units, Start(p, u)
      PROVE  NoSilentOutage'
  BY <1>37 DEF Start, Finally, Loop, process, locks, storage, program, plan
<1>38. ASSUME NEW p \in Processes, EndCapture(p)
      PROVE  NoSilentOutage'
  <2>1. recovery[p] = {} /\ UNCHANGED <<svc, excused>>
    BY <1>38 DEF EndCapture, Paused
  <2>2. \A q \in Processes \ {p} : pc'[q] = pc[q] /\ recovery'[q] = recovery[q]
    <3>1. Ends(p) \/ Go(p, "upload")
      BY <1>38, Endings
    <3> QED
      BY <3>1 DEF Ends, Return, Go
  <2> QED
    BY <2>1, <2>2
<1>39. ASSUME NEW p \in Processes, Upload(p)
      PROVE  NoSilentOutage'
  BY <1>39 DEF Upload, Store, Go, Return, process, locks, storage, program, plan
<1>40. ASSUME NEW p \in Processes, UploadFails(p)
      PROVE  NoSilentOutage'
  BY <1>40 DEF UploadFails, Store, Fail, Go, Return, process, locks, storage, program, plan
<1>41. ASSUME NEW p \in Processes, Interrupt(p)
      PROVE  NoSilentOutage'
  BY <1>41 DEF Interrupt, LeftStopped, Go, Return, process, locks, storage, program, plan
<1>42. ASSUME NEW p \in Processes, Kill(p)
      PROVE  NoSilentOutage'
  BY <1>42 DEF Kill, LeftStopped, Return, process, locks, storage, program, plan
<1>43. CASE Reboot
  BY <1>43 DEF Reboot, Everywhere, process, locks, storage, program, plan
<1>44. ASSUME NEW u \in Units, Recover(u)
      PROVE  NoSilentOutage'
  BY <1>44 DEF Recover, Up, Torn, process, locks, storage, program, plan
<1>45. ASSUME NEW u \in Units, Renew(u)
      PROVE  NoSilentOutage'
  BY <1>45 DEF Renew, Up, Torn, process, locks, storage, program, plan
<1>46. CASE UNCHANGED vars
  BY <1>46 DEF vars, process, locks, storage, program, plan
<1> QED
  <2> HIDE DEF Processes, ProcessOK, NodeOK, Control, NoSilentOutage, Capturing, Including,
              Enabling, Running, Waiting, Recording
  <2> QED
    BY <1>1, <1>2, <1>3, <1>4, <1>5, <1>6, <1>7, <1>8, <1>9, <1>10, <1>11, <1>12, <1>13, <1>14, <1>15,
      <1>16, <1>17, <1>18, <1>19, <1>20, <1>21, <1>22, <1>23, <1>24, <1>25, <1>26, <1>27, <1>28,
      <1>29, <1>30, <1>31, <1>32, <1>33, <1>34, <1>35, <1>36, <1>37, <1>38, <1>39, <1>40, <1>41,
      <1>42, <1>43, <1>44, <1>45, <1>46
    DEF Next, Prepare, Administer, Scheduled, Proceed

\* The record tells of the timer's own snapshots.
LEMMA RecordStep ==
    ASSUME ProcessOK, NodeOK, Control, Locked, Paused, RecordHolds, [Next]_vars
    PROVE  RecordHolds'
<1> USE DEF Processes, ProcessOK, NodeOK, Locked, RecordHolds, Recorded, RecordTruthful
<1>1. CASE StartConfigure
  BY <1>1 DEF StartConfigure, process, locks, storage, program, plan
<1>2. CASE PrepareTarget
  BY <1>2 DEF PrepareTarget, process, locks, storage, program, plan
<1>3. CASE Authorize
  BY <1>3 DEF Authorize, process, locks, storage, program, plan
<1>4. CASE Initialize
  BY <1>4 DEF Initialize, process, locks, storage, program, plan
<1>5. CASE InstallApplication
  BY <1>5 DEF InstallApplication, process, locks, storage, program, plan
<1>6. CASE StartRun
  BY <1>6 DEF StartRun, StartCommand, Begin, process, locks, storage, program, plan
<1>7. ASSUME NEW v \in Versions, StartInclude(v)
      PROVE  RecordHolds'
  BY <1>7 DEF StartInclude, StartCommand, Begin, process, locks, storage, program, plan
<1>8. ASSUME NEW v \in Versions, StartEnable(v)
      PROVE  RecordHolds'
  BY <1>8 DEF StartEnable, StartCommand, Begin, process, locks, storage, program, plan
<1>9. CASE Configure
  BY <1>9 DEF Configure, Return, process, locks, storage, program, plan
<1>10. CASE IncludeServices
  BY <1>10 DEF IncludeServices, Go, process, locks, storage, program, plan
<1>11. CASE Refresh
  BY <1>11 DEF Refresh, Go, Resumable, process, locks, storage, program, plan
<1>12. CASE StageCandidate
  BY <1>12 DEF StageCandidate, Go, process, locks, storage, program, plan
<1>13. CASE FinishCandidate
  BY <1>13 DEF FinishCandidate, Go, process, locks, storage, program, plan
<1>14. CASE WriteIntent
  BY <1>14 DEF WriteIntent, Intent, Go, process, locks, storage, program, plan
<1>15. CASE MoveAway
  BY <1>15 DEF MoveAway, Go, process, locks, storage, program, plan
<1>16. CASE PutInPlace
  BY <1>16 DEF PutInPlace, Go, process, locks, storage, program, plan
<1>17. CASE Settle
  BY <1>17 DEF Settle, Go, process, locks, storage, program, plan
<1>18. CASE ExtendScope
  BY <1>18 DEF ExtendScope, Extended, Return, process, locks, storage, program, plan
<1>19. CASE Enable
  BY <1>19 DEF Enable, Executable, Owned, Go, process, locks, storage, program, plan
<1>20. CASE CreateRuntime
  BY <1>20 DEF CreateRuntime, Go, process, locks, storage, program, plan
<1>21. CASE WriteUnits
  BY <1>21 DEF WriteUnits, Go, process, locks, storage, program, plan
<1>22. CASE WriteSchedule
  BY <1>22 DEF WriteSchedule, Go, process, locks, storage, program, plan
<1>23. CASE EnableTimer
  BY <1>23 DEF EnableTimer, Return, process, locks, storage, program, plan
<1>24. CASE Raise
  BY <1>24 DEF Raise, Return, process, locks, storage, program, plan
<1>25. CASE TimerFires
  BY <1>25 DEF TimerFires, Begin, process, locks, storage, program, plan
<1>26. CASE TimerLocks
  BY <1>26 DEF TimerLocks, LockFree, Go, process, locks, storage, program, plan
<1>27. CASE TimerBusy
  BY <1>27 DEF TimerBusy, Return, process, locks, storage, program, plan
<1>28. CASE RecordAttempt
  BY <1>28 DEF RecordAttempt, Succeeded, Return, process, locks, storage, program, plan
<1>29. CASE RecordFailure
  BY <1>29 DEF RecordFailure, Return, process, locks, storage, program, plan
<1>30. CASE Disable
  BY <1>30 DEF Disable, process, locks, storage, program, plan
<1>31. ASSUME NEW p \in Processes, Check(p)
      PROVE  RecordHolds'
  BY <1>31 DEF Check, TlsHeld, Loop, process, locks, storage, program, plan
<1>32. ASSUME NEW p \in Processes, CheckRefuses(p)
      PROVE  RecordHolds'
  BY <1>32 DEF CheckRefuses, Fail, Go, Return, process, locks, storage, program, plan
<1>33. ASSUME NEW p \in Processes, NEW u \in Units, Stop(p, u)
      PROVE  RecordHolds'
  BY <1>33 DEF Stop, Loop, process, locks, storage, program, plan
<1>34. ASSUME NEW p \in Processes, BeginCopy(p)
      PROVE  RecordHolds'
  BY <1>34 DEF BeginCopy, process, locks, storage, program, plan
<1>35. ASSUME NEW p \in Processes, EndCopy(p)
      PROVE  RecordHolds'
  BY <1>35 DEF EndCopy, ToStart, Finally, Loop, process, locks, storage, program, plan
<1>36. ASSUME NEW p \in Processes, CaptureFails(p)
      PROVE  RecordHolds'
  BY <1>36 DEF CaptureFails, Unwind, ToStart, Finally, Loop, process, locks, storage, program, plan
<1>37. ASSUME NEW p \in Processes, NEW u \in Units, Start(p, u)
      PROVE  RecordHolds'
  BY <1>37 DEF Start, Finally, Loop, process, locks, storage, program, plan
<1>38. ASSUME NEW p \in Processes, EndCapture(p)
      PROVE  RecordHolds'
  BY <1>38 DEF EndCapture, Go, Return, process, locks, storage, program, plan
<1>39. ASSUME NEW p \in Processes, Upload(p)
      PROVE  RecordHolds'
  <2>1. pc[p] = "upload" /\ Store(p) /\ UNCHANGED attempt
    BY <1>39 DEF Upload
  <2>2. pc'["timer"] = "record" => p = "timer"
    BY <1>39, <2>1, Endings DEF Return, Go
  <2> QED
    BY <2>1, <2>2, Stored
<1>40. ASSUME NEW p \in Processes, UploadFails(p)
      PROVE  RecordHolds'
  <2>1. pc[p] = "upload" /\ (Store(p) \/ UNCHANGED snapshots) /\ UNCHANGED attempt
    BY <1>40 DEF UploadFails, storage
  <2>2. pc'["timer"] # "record"
    BY <1>40, <2>1, Endings DEF Ends, Return, Go
  <2>3. \A i \in 1 .. Len(snapshots) : snapshots'[i] = snapshots[i]
    BY <2>1, Stored
  <2> QED
    BY <2>1, <2>2, <2>3, Stored
<1>41. ASSUME NEW p \in Processes, Interrupt(p)
      PROVE  RecordHolds'
  BY <1>41 DEF Interrupt, LeftStopped, Go, Return, process, locks, storage, program, plan
<1>42. ASSUME NEW p \in Processes, Kill(p)
      PROVE  RecordHolds'
  BY <1>42 DEF Kill, LeftStopped, Return, process, locks, storage, program, plan
<1>43. CASE Reboot
  BY <1>43 DEF Reboot, Everywhere, process, locks, storage, program, plan
<1>44. ASSUME NEW u \in Units, Recover(u)
      PROVE  RecordHolds'
  BY <1>44 DEF Recover, Up, Torn, process, locks, storage, program, plan
<1>45. ASSUME NEW u \in Units, Renew(u)
      PROVE  RecordHolds'
  BY <1>45 DEF Renew, Up, Torn, process, locks, storage, program, plan
<1>46. CASE UNCHANGED vars
  BY <1>46 DEF vars, process, locks, storage, program, plan
<1> QED
  BY <1>1, <1>2, <1>3, <1>4, <1>5, <1>6, <1>7, <1>8, <1>9, <1>10, <1>11, <1>12, <1>13, <1>14, <1>15,
    <1>16, <1>17, <1>18, <1>19, <1>20, <1>21, <1>22, <1>23, <1>24, <1>25, <1>26, <1>27, <1>28,
    <1>29, <1>30, <1>31, <1>32, <1>33, <1>34, <1>35, <1>36, <1>37, <1>38, <1>39, <1>40, <1>41,
    <1>42, <1>43, <1>44, <1>45, <1>46
  DEF Next, Prepare, Administer, Scheduled, Proceed

\* The backup program is where the intent says.
LEMMA ReplacingStep ==
    ASSUME ProcessOK, NodeOK, Control, Locked, Replacing, [Next]_vars
    PROVE  Replacing'
<1> USE DEF Processes, ProcessOK, NodeOK, Control, Locked, Replacing, Installed, Intended, Reached,
           Contents, Scopes, Including, Enabling
<1>1. CASE StartConfigure
  BY <1>1 DEF StartConfigure, process, locks, storage, program, plan
<1>2. CASE PrepareTarget
  BY <1>2 DEF PrepareTarget, process, locks, storage, program, plan
<1>3. CASE Authorize
  BY <1>3 DEF Authorize, process, locks, storage, program, plan
<1>4. CASE Initialize
  BY <1>4 DEF Initialize, process, locks, storage, program, plan
<1>5. CASE InstallApplication
  BY <1>5 DEF InstallApplication, process, locks, storage, program, plan
<1>6. CASE StartRun
  BY <1>6 DEF StartRun, StartCommand, Begin, process, locks, storage, program, plan
<1>7. ASSUME NEW v \in Versions, StartInclude(v)
      PROVE  Replacing'
  BY <1>7 DEF StartInclude, StartCommand, Begin, process, locks, storage, program, plan
<1>8. ASSUME NEW v \in Versions, StartEnable(v)
      PROVE  Replacing'
  BY <1>8 DEF StartEnable, StartCommand, Begin, process, locks, storage, program, plan
<1>9. CASE Configure
  BY <1>9 DEF Configure, Return, process, locks, storage, program, plan
<1>10. CASE IncludeServices
  BY <1>10 DEF IncludeServices, Go, process, locks, storage, program, plan
<1>11. CASE Refresh
  BY <1>11 DEF Refresh, Go, Resumable, process, locks, storage, program, plan
<1>12. CASE StageCandidate
  BY <1>12 DEF StageCandidate, Go, process, locks, storage, program, plan
<1>13. CASE FinishCandidate
  BY <1>13 DEF FinishCandidate, Go, process, locks, storage, program, plan
<1>14. CASE WriteIntent
  BY <1>14 DEF WriteIntent, Intent, Go, process, locks, storage, program, plan
<1>15. CASE MoveAway
  BY VersionsAssumption, <1>15 DEF MoveAway, Go, process, locks, storage, program, plan
<1>16. CASE PutInPlace
  BY <1>16 DEF PutInPlace, Go, process, locks, storage, program, plan
<1>17. CASE Settle
  BY <1>17 DEF Settle, Go, process, locks, storage, program, plan
<1>18. CASE ExtendScope
  BY <1>18 DEF ExtendScope, Extended, Return, process, locks, storage, program, plan
<1>19. CASE Enable
  BY <1>19 DEF Enable, Executable, Owned, Go, process, locks, storage, program, plan
<1>20. CASE CreateRuntime
  BY <1>20 DEF CreateRuntime, Go, process, locks, storage, program, plan
<1>21. CASE WriteUnits
  BY <1>21 DEF WriteUnits, Go, process, locks, storage, program, plan
<1>22. CASE WriteSchedule
  <2>1. schedule = "none" /\ intent = <<>> /\ schedule' \in Scopes /\ runtime \in Versions
    BY <1>22 DEF WriteSchedule, Running, Waiting, Recording
  <2> QED
    BY <1>22, <2>1, VersionsAssumption DEF WriteSchedule, Go, program
<1>23. CASE EnableTimer
  BY <1>23 DEF EnableTimer, Return, process, locks, storage, program, plan
<1>24. CASE Raise
  BY <1>24 DEF Raise, Return, process, locks, storage, program, plan
<1>25. CASE TimerFires
  BY <1>25 DEF TimerFires, Begin, process, locks, storage, program, plan
<1>26. CASE TimerLocks
  BY <1>26 DEF TimerLocks, LockFree, Go, process, locks, storage, program, plan
<1>27. CASE TimerBusy
  BY <1>27 DEF TimerBusy, Return, process, locks, storage, program, plan
<1>28. CASE RecordAttempt
  BY <1>28 DEF RecordAttempt, Succeeded, Return, process, locks, storage, program, plan
<1>29. CASE RecordFailure
  BY <1>29 DEF RecordFailure, Return, process, locks, storage, program, plan
<1>30. CASE Disable
  BY <1>30 DEF Disable, process, locks, storage, program, plan
<1>31. ASSUME NEW p \in Processes, Check(p)
      PROVE  Replacing'
  BY <1>31 DEF Check, TlsHeld, Loop, process, locks, storage, program, plan
<1>32. ASSUME NEW p \in Processes, CheckRefuses(p)
      PROVE  Replacing'
  BY <1>32 DEF CheckRefuses, Fail, Go, Return, process, locks, storage, program, plan
<1>33. ASSUME NEW p \in Processes, NEW u \in Units, Stop(p, u)
      PROVE  Replacing'
  BY <1>33 DEF Stop, Loop, process, locks, storage, program, plan
<1>34. ASSUME NEW p \in Processes, BeginCopy(p)
      PROVE  Replacing'
  BY <1>34 DEF BeginCopy, process, locks, storage, program, plan
<1>35. ASSUME NEW p \in Processes, EndCopy(p)
      PROVE  Replacing'
  BY <1>35 DEF EndCopy, ToStart, Finally, Loop, process, locks, storage, program, plan
<1>36. ASSUME NEW p \in Processes, CaptureFails(p)
      PROVE  Replacing'
  BY <1>36 DEF CaptureFails, Unwind, ToStart, Finally, Loop, process, locks, storage, program, plan
<1>37. ASSUME NEW p \in Processes, NEW u \in Units, Start(p, u)
      PROVE  Replacing'
  BY <1>37 DEF Start, Finally, Loop, process, locks, storage, program, plan
<1>38. ASSUME NEW p \in Processes, EndCapture(p)
      PROVE  Replacing'
  BY <1>38 DEF EndCapture, Go, Return, process, locks, storage, program, plan
<1>39. ASSUME NEW p \in Processes, Upload(p)
      PROVE  Replacing'
  BY <1>39 DEF Upload, Store, Go, Return, process, locks, storage, program, plan
<1>40. ASSUME NEW p \in Processes, UploadFails(p)
      PROVE  Replacing'
  BY <1>40 DEF UploadFails, Store, Fail, Go, Return, process, locks, storage, program, plan
<1>41. ASSUME NEW p \in Processes, Interrupt(p)
      PROVE  Replacing'
  BY <1>41 DEF Interrupt, LeftStopped, Go, Return, process, locks, storage, program, plan
<1>42. ASSUME NEW p \in Processes, Kill(p)
      PROVE  Replacing'
  BY <1>42 DEF Kill, LeftStopped, Return, process, locks, storage, program, plan
<1>43. CASE Reboot
  <2>1. CASE intent' = intent
    BY <1>43, <2>1 DEF Reboot, Everywhere, plan
  <2>2. CASE intent' # intent
    <3>1. previous \in Versions /\ runtime \in Versions /\ intent' = <<previous, runtime>>
      BY <1>43, <2>2 DEF Reboot
    <3>2. schedule # "none" /\ previous # runtime /\ candidate = "none"
      BY <3>1, VersionsAssumption
    <3> QED
      BY <1>43, <3>1, <3>2 DEF Reboot, Everywhere, plan
  <2> QED
    BY <2>1, <2>2
<1>44. ASSUME NEW u \in Units, Recover(u)
      PROVE  Replacing'
  BY <1>44 DEF Recover, Up, Torn, process, locks, storage, program, plan
<1>45. ASSUME NEW u \in Units, Renew(u)
      PROVE  Replacing'
  BY <1>45 DEF Renew, Up, Torn, process, locks, storage, program, plan
<1>46. CASE UNCHANGED vars
  BY <1>46 DEF vars, process, locks, storage, program, plan
<1> QED
  <2> HIDE DEF Processes, ProcessOK, NodeOK, Control, Locked, Replacing, Installed, Intended,
              Reached, Contents, Scopes, Including, Enabling
  <2> QED
    BY <1>1, <1>2, <1>3, <1>4, <1>5, <1>6, <1>7, <1>8, <1>9, <1>10, <1>11, <1>12, <1>13, <1>14, <1>15,
      <1>16, <1>17, <1>18, <1>19, <1>20, <1>21, <1>22, <1>23, <1>24, <1>25, <1>26, <1>27, <1>28,
      <1>29, <1>30, <1>31, <1>32, <1>33, <1>34, <1>35, <1>36, <1>37, <1>38, <1>39, <1>40, <1>41,
      <1>42, <1>43, <1>44, <1>45, <1>46
    DEF Next, Prepare, Administer, Scheduled, Proceed

-----------------------------------------------------------------------------
(* Invariance.                                                             *)

LEMMA InitInv == Init => Inv
<1> SUFFICES ASSUME Init PROVE Inv
  OBVIOUS
<1>1. FlagsOK
  BY Zenon DEF Init, FlagsOK
<1>2. ProcessOK
  BY DEF Init, ProcessOK, Everywhere, Processes, Steps
<1>3. NodeOK
  BY MaxSnapshotsAssumption DEF Init, NodeOK, Contents
<1>4. Control /\ Locked /\ Certified
  BY DEF Init, Everywhere, Processes, Control, Locked, Certified, Capturing
<1>5. Paused /\ SnapshotsSound /\ NoSilentOutage
  BY DEF Init, Everywhere, Paused, Capturing, SnapshotsSound, NoSilentOutage
<1>6. RecordHolds /\ Replacing
  BY DEF Init, Everywhere, Processes, RecordHolds, Recorded, RecordTruthful, Replacing, Installed,
         Reached, Including
<1> QED
  BY <1>1, <1>2, <1>3, <1>4, <1>5, <1>6 DEF Inv

LEMMA InvStep == Inv /\ [Next]_vars => Inv'
BY FlagsStep, ProcessStep, NodeStep, ControlStep, LockedStep, CertifiedStep, PausedStep, SoundStep,
   OutageStep, RecordStep, ReplacingStep DEF Inv

\* Every reachable state satisfies the layered invariant.
THEOREM BackupInvariance == Spec => []Inv
BY InitInv, InvStep, PTL DEF Spec

\* The variables keep their types.
THEOREM BackupsTyped == Spec => []TypeOK
<1>1. Inv => TypeOK
  BY DEF Inv, FlagsOK, ProcessOK, NodeOK, TypeOK
<1> QED
  BY BackupInvariance, <1>1, PTL

\* Every snapshot was copied while no unit ran and has the scope that was due, whichever
\* process took it and whatever the other, a renewal or a restart did meanwhile.
THEOREM SnapshotsAreSound == Spec => []SnapshotsSound
<1>1. Inv => SnapshotsSound
  BY DEF Inv
<1> QED
  BY BackupInvariance, <1>1, PTL

\* A unit that a backup stopped is started again by the run that stopped it, or known to
\* be down, wherever the run is cut.
THEOREM OutagesAreKnown == Spec => []NoSilentOutage
<1>1. Inv => NoSilentOutage
  BY DEF Inv
<1> QED
  BY BackupInvariance, <1>1, PTL

\* The record of the scheduled runs tells of a success only with a snapshot of the timer's.
THEOREM RecordIsTruthful == Spec => []RecordTruthful
<1>1. Inv => RecordTruthful
  BY DEF Inv, RecordHolds
<1> QED
  BY BackupInvariance, <1>1, PTL

\* While the backup program is replaced, one whole version is in place or both are known
\* from the intent, wherever the replacement is cut.
THEOREM ProgramIsKept == Spec => []RuntimeKept
<1>1. ASSUME Inv PROVE RuntimeKept
  <2>1. CASE intent = <<>>
    BY <1>1, <2>1 DEF Inv, Replacing, Installed, RuntimeKept
  <2>2. CASE intent # <<>>
    <3>1. intent \in Versions \X Versions
      BY <1>1, <2>2 DEF Inv, NodeOK
    <3> QED
      BY <1>1, <2>2, <3>1 DEF Inv, Replacing, Intended, RuntimeKept
  <2> QED
    BY <2>1, <2>2
<1> QED
  BY BackupInvariance, <1>1, PTL
=============================================================================
