---------------------- MODULE UpgradeTransaction_proofs ----------------------
(***************************************************************************)
(* Proofs about the upgrade for any number of units and paths.  The        *)
(* invariant Inv is a conjunction of layers; each layer is preserved on    *)
(* its own, given the others.                                              *)
(***************************************************************************)
EXTENDS UpgradeProperties, TLAPS

\* The steps that only clean up.
Closing == {"clean", "result", "unmark", "sync"}

\* Which command runs decides its goal, and the goal the steps that are left.
Control ==
    /\ op = "none" <=> pc = "idle"
    /\ op = "none" => goal = "none"
    /\ op = "apply" => goal \in {"promote", "rollback"}
    /\ op = "recover" => goal # "promote"
    /\ op = "recover" => (goal = "none" <=> pc = "branch")
    /\ op = "apply" => pc # "branch"
    /\ pc \in {"marker", "allow", "capture", "compare", "migrating", "swapOut", "swapIn",
               "install", "commit"} => goal = "promote"
    /\ pc \in {"remove", "putBack", "rolledBack"} => goal = "rollback"
    /\ pc = "quiesce" => goal \in {"promote", "rollback"}
    /\ pc \in {"marker", "sync"} => ~pending
    /\ op # "none" /\ pc \notin {"marker", "sync"} => pending
    /\ op # "none" => claim = "none"

\* Where the fence stands, and that a lost unlink brings the marker back with it.
Fence ==
    /\ pc \in {"seal", "install", "permit", "start", "verify", "commit", "remove", "putBack",
               "rolledBack", "scope", "refresh", "withdraw", "unfence"} => table
    /\ pc \in {"release"} \union Capturing \union Closing => ~table
    /\ pc \in Capturing \union Closing => ~record
    /\ table \/ record => pending
    /\ "record" \in unsynced => pending \/ "pending" \in unsynced

InPlace(p) == live[p] = "original" /\ old[p] = "none"
Replaced(p) == live[p] = "copy" /\ old[p] = "original"

\* What the journal's phase says of the data, whoever runs.
Phase ==
    /\ phase = "none" => ~pending /\ "pending" \notin unsynced
    /\ ~pending => phase \notin {"preparing", "migrating"}
    /\ phase \in {"none", "preparing", "rolled-back"} => \A p \in Paths : InPlace(p)
    /\ phase = "migrating" =>
           \A p \in Paths : live[p] # "edited" /\ (InPlace(p) \/ old[p] = "original")
    /\ phase = "committed" => \A p \in Paths : Upgraded(p)

\* How far the running command has come with the data.
Progress ==
    /\ pc = "marker" => phase \in {"none", "rolled-back"}
    /\ goal = "promote" /\ pc \in {"quiesce", "allow", "capture", "compare", "migrating"} =>
           phase = "preparing"
    /\ pc = "swapOut" =>
           /\ phase = "migrating" /\ todo \subseteq Paths
           /\ \A p \in todo : InPlace(p)
           /\ \A p \in Paths \ todo : Replaced(p)
    /\ pc = "swapIn" =>
           /\ phase = "migrating" /\ todo \subseteq Paths
           /\ \A p, q \in todo : live[p] = "missing" /\ live[q] = "missing" => p = q
           /\ \A p \in todo : InPlace(p) \/ (live[p] = "missing" /\ old[p] = "original")
           /\ \A p \in Paths \ todo : Replaced(p)
    /\ goal = "promote" /\ pc \in Isolating \union {"install"} =>
           phase = "migrating" /\ \A p \in Paths : Replaced(p)
    /\ goal = "promote" /\ pc \in {"permit", "start", "verify", "commit"} =>
           phase = "migrating" /\ \A p \in Paths : live[p] = "upgraded"
    /\ goal = "rollback" /\ pc \notin Finishing => phase \in {"preparing", "migrating"}
    /\ pc \in {"remove", "putBack"} =>
           todo \subseteq Paths /\ \A p \in Paths \ todo : InPlace(p)
    /\ goal = "rollback" /\ pc \in {"permit", "start", "verify", "rolledBack"} =>
           \A p \in Paths : InPlace(p)
    /\ goal = "settleNew" \/ (goal = "promote" /\ pc \in Finishing) => phase = "committed"
    /\ goal = "settleOld" \/ (goal = "rollback" /\ pc \in Finishing) => phase = "rolled-back"
    /\ pc \in Capturing \union {"refresh"} => phase = "committed"

AllStopped == \A s \in Services : svc[s] = "stopped"

\* From the first stop until the decision nothing that is moved can be written, and
\* the backup has all that clients wrote before.
Guarded ==
    /\ pc = "quiesce" => todo \subseteq Services /\ \A s \in Services \ todo : svc[s] = "stopped"
    /\ pc \in {"allow", "capture", "compare", "migrating"} => AllStopped
    /\ pc \in {"compare", "migrating"} \/ phase \in {"migrating", "committed"} =>
           captured = "whole"
    /\ pc = "migrating" => ~permit
    /\ phase = "migrating" /\ ~table => AllDown /\ ~permit

\* What was reported, what the backups name, and when the startup permit is there.
Reported ==
    /\ ~pending => ~permit
    /\ op = "none" /\ permit => claim = "interrupted"
    /\ pc \in {"unfence", "release"} \union Closing => ~permit
    /\ phase = "committed" /\ pc \in Closing => targetSaved
    /\ phase # "committed" => scope = "source" /\ helpers = "source"
    /\ phase = "committed" /\ (~pending \/ pc \in Finishing \ {"scope"}) => scope = "target"
    /\ phase = "committed" /\ (~pending \/ pc \in Finishing \ {"scope", "refresh"}) =>
           helpers = "target"
    /\ claim = "upgraded" => phase = "committed" /\ targetSaved
    /\ claim = "recovered" => phase = "rolled-back"

Inv == TypeOK /\ Control /\ Fence /\ Phase /\ Progress /\ Guarded /\ Reported

-----------------------------------------------------------------------------
(* The layers, one lemma each: every step of the specification preserves it.*)

\* Finishing means decided.
LEMMA FinishingDecided ==
    ASSUME TypeOK, Control, Progress, pc \in Finishing
    PROVE  phase \in {"committed", "rolled-back"}
<1>1. goal \in {"promote", "rollback", "settleNew", "settleOld"}
  BY DEF TypeOK, ValuesOK, Goals, Control, Publishing, Capturing, Finishing
<1> QED
  BY <1>1 DEF Progress

\* Clients reach no data that is being migrated, and migrated data once it is committed.
LEMMA ReachedDecided ==
    ASSUME TypeOK, Phase, Guarded, Exposed
    PROVE  /\ phase # "migrating"
           /\ \A p \in Paths : live[p] = "upgraded" => phase = "committed"
           /\ ~AllStopped
<1>1. phase # "migrating"
  BY Zenon DEF Exposed, Guarded
<1>2. ~AllStopped
  BY DEF Exposed, AllDown, AllStopped
<1> QED
  BY <1>1, <1>2 DEF Phase, InPlace, TypeOK, ValuesOK, Phases

\* A command that changes the source begins on a settled source.
LEMMA ReadySettled ==
    ASSUME TypeOK, Phase, Ready
    PROVE  phase \in {"none", "rolled-back"}
BY PathsAssumption DEF Ready, Phase, Upgraded, TypeOK, ValuesOK, Phases

\* The Boolean variables stay Boolean.
LEMMA FlagsStep ==
    ASSUME FlagsOK, [Next]_vars
    PROVE  FlagsOK'
<1> USE DEF FlagsOK
<1>1. CASE StartApply
  BY Zenon, <1>1 DEF StartApply, Ready, AllActive, process, etc, run, data, backup
<1>2. CASE StartRecover
  BY Zenon, <1>2 DEF StartRecover, process, etc, run, data, backup
<1>3. CASE WriteMarker
  BY Zenon, <1>3 DEF WriteMarker, Mark, Open, process, etc, run, data, backup
<1>4. CASE WriteMarkerFails
  BY Zenon, <1>4 DEF WriteMarkerFails, Mark, Return, process, etc, run, data, backup
<1>5. ASSUME NEW s \in Services, Stop(s)
      PROVE  FlagsOK'
  BY Zenon, <1>5 DEF Stop, Halted, Visit, process, etc, run, data, backup
<1>6. CASE AllowSnapshot
  BY Zenon, <1>6 DEF AllowSnapshot, Go, process, etc, run, data, backup
<1>7. CASE Capture
  BY Zenon, <1>7 DEF Capture, Go, process, etc, run, data, backup
<1>8. CASE Compare
  BY Zenon, <1>8 DEF Compare, AllDown, Go, process, etc, run, data, backup
<1>9. CASE SaveMigrating
  BY Zenon, <1>9 DEF SaveMigrating, Save, Open, process, etc, run, data, backup
<1>10. ASSUME NEW p \in Paths, SwapOut(p)
      PROVE  FlagsOK'
  BY Zenon, <1>10 DEF SwapOut, Go, process, etc, run, data, backup
<1>11. ASSUME NEW p \in Paths, SwapIn(p)
      PROVE  FlagsOK'
  BY Zenon, <1>11 DEF SwapIn, Visit, process, etc, run, data, backup
<1>12. CASE WriteRecord
  BY Zenon, <1>12 DEF WriteRecord, Go, process, etc, run, data, backup
<1>13. CASE LoadTable
  BY Zenon, <1>13 DEF LoadTable, Go, process, etc, run, data, backup
<1>14. CASE Seal
  BY Zenon, <1>14 DEF Seal, Go, Open, process, etc, run, data, backup
<1>15. CASE Install
  BY Zenon, <1>15 DEF Install, Go, process, etc, run, data, backup
<1>16. CASE AllowValidation
  BY Zenon, <1>16 DEF AllowValidation, ToStart, Go, Open, process, etc, run, data, backup
<1>17. ASSUME NEW s \in Services, Start(s)
      PROVE  FlagsOK'
  BY Zenon, <1>17 DEF Start, GuardPasses, Visit, process, etc, run, data, backup
<1>18. CASE Verify
  BY Zenon, <1>18 DEF Verify, AllActive, AfterVerify, Go, process, etc, run, data, backup
<1>19. CASE Commit
  BY Zenon, <1>19 DEF Commit, Save, Go, process, etc, run, data, backup
<1>20. ASSUME NEW p \in Paths, Remove(p)
      PROVE  FlagsOK'
  BY Zenon, <1>20 DEF Remove, Kept, Go, Visit, process, etc, run, data, backup
<1>21. ASSUME NEW p \in Paths, PutBack(p)
      PROVE  FlagsOK'
  BY Zenon, <1>21 DEF PutBack, Visit, process, etc, run, data, backup
<1>22. CASE SaveRolledBack
  BY Zenon, <1>22 DEF SaveRolledBack, Save, Go, process, etc, run, data, backup
<1>23. CASE SetScope
  BY Zenon, <1>23 DEF SetScope, Scope, Go, process, etc, run, data, backup
<1>24. CASE RefreshHelpers
  BY Zenon, <1>24 DEF RefreshHelpers, Go, process, etc, run, data, backup
<1>25. CASE Withdraw
  BY Zenon, <1>25 DEF Withdraw, Go, process, etc, run, data, backup
<1>26. CASE Unfence
  BY Zenon, <1>26 DEF Unfence, Go, process, etc, run, data, backup
<1>27. CASE Release
  BY Zenon, <1>27 DEF Release, RecordGone, AfterRelease, Go, process, etc, run, data, backup
<1>28. CASE AllowTarget
  BY Zenon, <1>28 DEF AllowTarget, Go, Open, process, etc, run, data, backup
<1>29. ASSUME NEW s \in Services, Pause(s)
      PROVE  FlagsOK'
  BY Zenon, <1>29 DEF Pause, Visit, process, etc, run, data, backup
<1>30. ASSUME NEW s \in Services, Resume(s)
      PROVE  FlagsOK'
  BY Zenon, <1>30 DEF Resume, GuardPasses, Visit, process, etc, run, data, backup
<1>31. CASE Upload
  BY Zenon, <1>31 DEF Upload, Go, process, etc, run, data, backup
<1>32. CASE Clean
  BY Zenon, <1>32 DEF Clean, Go, process, etc, run, data, backup
<1>33. CASE RecordResult
  BY Zenon, <1>33 DEF RecordResult, Go, process, etc, run, data, backup
<1>34. CASE Unmark
  BY Zenon, <1>34 DEF Unmark, Go, process, etc, run, data, backup
<1>35. CASE Sync
  BY Zenon, <1>35 DEF Sync, Return, process, etc, run, data, backup
<1>36. CASE Branch
  BY Zenon, <1>36 DEF Branch, Decided, StartRollback, process, etc, run, data, backup
<1>37. CASE Raise
  BY Zenon, <1>37 DEF Raise, RaisePromoting, RaiseCommitted, RaiseSettling, StartRollback, Return,
        Freeze, Resumed, process, etc, run, data, backup
<1>38. CASE Interrupt
  BY Zenon, <1>38 DEF Interrupt, Return, Freeze, Resumed, process, etc, run, data, backup
<1>39. CASE Kill
  BY Zenon, <1>39 DEF Kill, Return, process, etc, run, data, backup
<1>40. CASE Reboot
  <2>1. PICK undone \in SUBSET unsynced :
            /\ pending' = (pending \/ "pending" \in undone)
            /\ record' = (record \/ "record" \in undone)
    BY Zenon, <1>40 DEF Reboot
  <2>2. pending' \in BOOLEAN /\ record' \in BOOLEAN
    BY Zenon, <2>1
  <2> QED
    BY Zenon, <1>40, <2>2 DEF Reboot, Return, backup
<1>41. ASSUME NEW s \in Services, ServiceCrash(s)
      PROVE  FlagsOK'
  BY Zenon, <1>41 DEF ServiceCrash, process, etc, run, data, backup
<1>42. ASSUME NEW s \in Services, AutoRestart(s)
      PROVE  FlagsOK'
  BY Zenon, <1>42 DEF AutoRestart, GuardPasses, process, etc, run, data, backup
<1>43. ASSUME NEW p \in Paths, ClientWrite(p)
      PROVE  FlagsOK'
  BY Zenon, <1>43 DEF ClientWrite, Exposed, AllDown, process, etc, run, data, backup
<1>44. CASE UNCHANGED vars
  BY Zenon, <1>44 DEF vars, process, etc, run, data, backup
<1> QED
  BY <1>1, <1>2, <1>3, <1>4, <1>5, <1>6, <1>7, <1>8, <1>9, <1>10, <1>11, <1>12, <1>13, <1>14, <1>15,
    <1>16, <1>17, <1>18, <1>19, <1>20, <1>21, <1>22, <1>23, <1>24, <1>25, <1>26, <1>27, <1>28,
    <1>29, <1>30, <1>31, <1>32, <1>33, <1>34, <1>35, <1>36, <1>37, <1>38, <1>39, <1>40, <1>41,
    <1>42, <1>43, <1>44
  DEF Next, Proceed, Environment

\* Every other variable keeps its type.
LEMMA ValuesStep ==
    ASSUME TypeOK, Progress, [Next]_vars
    PROVE  ValuesOK'
<1> USE DEF TypeOK, FlagsOK, ValuesOK, Goals, Phases, Claims, Steps, Isolating, Promoting,
           Publishing, Capturing, Finishing
<1>1. CASE StartApply
  BY <1>1 DEF StartApply, Ready, AllActive, process, etc, run, data, backup
<1>2. CASE StartRecover
  BY <1>2 DEF StartRecover, process, etc, run, data, backup
<1>3. CASE WriteMarker
  BY <1>3 DEF WriteMarker, Mark, Open, process, etc, run, data, backup
<1>4. CASE WriteMarkerFails
  <2>1. Return /\ UNCHANGED <<svc, live, old, scope, helpers, claim>>
    BY <1>4 DEF WriteMarkerFails, Mark, run, data, backup
  <2>2. /\ phase' \in {phase, "preparing"} /\ captured' \in {captured, "none"}
        /\ unsynced' \in {unsynced, {}}
    BY Zenon, <1>4 DEF WriteMarkerFails, Mark, etc, backup
  <2> QED
    BY <2>1, <2>2 DEF Return
<1>5. ASSUME NEW s \in Services, Stop(s)
      PROVE  ValuesOK'
  BY <1>5 DEF Stop, Halted, Visit, process, etc, run, data, backup
<1>6. CASE AllowSnapshot
  BY <1>6 DEF AllowSnapshot, Go, process, etc, run, data, backup
<1>7. CASE Capture
  BY <1>7 DEF Capture, Go, process, etc, run, data, backup
<1>8. CASE Compare
  BY <1>8 DEF Compare, AllDown, Go, process, etc, run, data, backup
<1>9. CASE SaveMigrating
  BY <1>9 DEF SaveMigrating, Save, Open, process, etc, run, data, backup
<1>10. ASSUME NEW p \in Paths, SwapOut(p)
      PROVE  ValuesOK'
  BY <1>10 DEF SwapOut, Go, process, etc, run, data, backup, Progress, InPlace
<1>11. ASSUME NEW p \in Paths, SwapIn(p)
      PROVE  ValuesOK'
  BY <1>11 DEF SwapIn, Visit, process, etc, run, data, backup
<1>12. CASE WriteRecord
  <2>1. CASE table
    <3>1. pc' = "seal" /\ UNCHANGED <<op, goal, todo, etc, run, data, backup, claim>>
      BY Zenon, <1>12, <2>1 DEF WriteRecord, Go, etc
    <3> QED
      BY <3>1 DEF etc, run, data, backup
  <2>2. CASE ~table
    BY <1>12, <2>2 DEF WriteRecord, Go, process, etc, run, data, backup
  <2> QED
    BY <2>1, <2>2
<1>13. CASE LoadTable
  BY <1>13 DEF LoadTable, Go, process, etc, run, data, backup
<1>14. CASE Seal
  BY <1>14 DEF Seal, Go, Open, process, etc, run, data, backup
<1>15. CASE Install
  BY <1>15 DEF Install, Go, process, etc, run, data, backup
<1>16. CASE AllowValidation
  BY <1>16 DEF AllowValidation, ToStart, Go, Open, process, etc, run, data, backup
<1>17. ASSUME NEW s \in Services, Start(s)
      PROVE  ValuesOK'
  BY <1>17 DEF Start, GuardPasses, Visit, process, etc, run, data, backup
<1>18. CASE Verify
  BY <1>18 DEF Verify, AllActive, AfterVerify, Go, process, etc, run, data, backup
<1>19. CASE Commit
  BY <1>19 DEF Commit, Save, Go, process, etc, run, data, backup
<1>20. ASSUME NEW p \in Paths, Remove(p)
      PROVE  ValuesOK'
  BY <1>20 DEF Remove, Kept, Go, Visit, process, etc, run, data, backup
<1>21. ASSUME NEW p \in Paths, PutBack(p)
      PROVE  ValuesOK'
  BY <1>21 DEF PutBack, Visit, process, etc, run, data, backup
<1>22. CASE SaveRolledBack
  BY <1>22 DEF SaveRolledBack, Save, Go, process, etc, run, data, backup
<1>23. CASE SetScope
  BY <1>23 DEF SetScope, Scope, Go, process, etc, run, data, backup
<1>24. CASE RefreshHelpers
  BY <1>24 DEF RefreshHelpers, Go, process, etc, run, data, backup
<1>25. CASE Withdraw
  BY <1>25 DEF Withdraw, Go, process, etc, run, data, backup
<1>26. CASE Unfence
  BY <1>26 DEF Unfence, Go, process, etc, run, data, backup
<1>27. CASE Release
  BY <1>27 DEF Release, RecordGone, AfterRelease, Go, process, etc, run, data, backup
<1>28. CASE AllowTarget
  BY <1>28 DEF AllowTarget, Go, Open, process, etc, run, data, backup
<1>29. ASSUME NEW s \in Services, Pause(s)
      PROVE  ValuesOK'
  BY <1>29 DEF Pause, Visit, process, etc, run, data, backup
<1>30. ASSUME NEW s \in Services, Resume(s)
      PROVE  ValuesOK'
  BY <1>30 DEF Resume, GuardPasses, Visit, process, etc, run, data, backup
<1>31. CASE Upload
  BY <1>31 DEF Upload, Go, process, etc, run, data, backup
<1>32. CASE Clean
  BY <1>32 DEF Clean, Go, process, etc, run, data, backup
<1>33. CASE RecordResult
  BY <1>33 DEF RecordResult, Go, process, etc, run, data, backup
<1>34. CASE Unmark
  BY <1>34 DEF Unmark, Go, process, etc, run, data, backup
<1>35. CASE Sync
  BY <1>35 DEF Sync, Return, process, etc, run, data, backup
<1>36. CASE Branch
  BY <1>36 DEF Branch, Decided, StartRollback, process, etc, run, data, backup
<1>37. CASE Raise
  BY <1>37 DEF Raise, RaisePromoting, RaiseCommitted, RaiseSettling, StartRollback, Return, Freeze,
        Resumed, process, etc, run, data, backup
<1>38. CASE Interrupt
  BY <1>38 DEF Interrupt, Return, Freeze, Resumed, process, etc, run, data, backup
<1>39. CASE Kill
  BY <1>39 DEF Kill, Return, process, etc, run, data, backup
<1>40. CASE Reboot
  BY <1>40 DEF Reboot, GuardPasses, Return, process, etc, run, data, backup
<1>41. ASSUME NEW s \in Services, ServiceCrash(s)
      PROVE  ValuesOK'
  BY <1>41 DEF ServiceCrash, process, etc, run, data, backup
<1>42. ASSUME NEW s \in Services, AutoRestart(s)
      PROVE  ValuesOK'
  BY <1>42 DEF AutoRestart, GuardPasses, process, etc, run, data, backup
<1>43. ASSUME NEW p \in Paths, ClientWrite(p)
      PROVE  ValuesOK'
  BY <1>43 DEF ClientWrite, Exposed, AllDown, process, etc, run, data, backup
<1>44. CASE UNCHANGED vars
  BY <1>44 DEF vars, process, etc, run, data, backup
<1> QED
  BY <1>1, <1>2, <1>3, <1>4, <1>5, <1>6, <1>7, <1>8, <1>9, <1>10, <1>11, <1>12, <1>13, <1>14, <1>15,
    <1>16, <1>17, <1>18, <1>19, <1>20, <1>21, <1>22, <1>23, <1>24, <1>25, <1>26, <1>27, <1>28,
    <1>29, <1>30, <1>31, <1>32, <1>33, <1>34, <1>35, <1>36, <1>37, <1>38, <1>39, <1>40, <1>41,
    <1>42, <1>43, <1>44
  DEF Next, Proceed, Environment

\* The goal and the step stay those of the running command.
LEMMA ControlStep ==
    ASSUME TypeOK, Control, Fence, Phase, [Next]_vars
    PROVE  Control'
<1> USE DEF TypeOK, ValuesOK, Control, Steps, Isolating, Promoting, Publishing, Capturing, Finishing
<1>1. CASE StartApply
  BY <1>1 DEF StartApply, Ready, AllActive, process, etc, run, data, backup
<1>2. CASE StartRecover
  BY <1>2 DEF StartRecover, process, etc, run, data, backup
<1>3. CASE WriteMarker
  BY <1>3 DEF WriteMarker, Mark, Open, process, etc, run, data, backup
<1>4. CASE WriteMarkerFails
  BY <1>4 DEF WriteMarkerFails, Mark, Return, process, etc, run, data, backup
<1>5. ASSUME NEW s \in Services, Stop(s)
      PROVE  Control'
  BY <1>5 DEF Stop, Halted, Visit, process, etc, run, data, backup
<1>6. CASE AllowSnapshot
  BY <1>6 DEF AllowSnapshot, Go, process, etc, run, data, backup
<1>7. CASE Capture
  BY <1>7 DEF Capture, Go, process, etc, run, data, backup
<1>8. CASE Compare
  BY <1>8 DEF Compare, AllDown, Go, process, etc, run, data, backup
<1>9. CASE SaveMigrating
  BY <1>9 DEF SaveMigrating, Save, Open, process, etc, run, data, backup
<1>10. ASSUME NEW p \in Paths, SwapOut(p)
      PROVE  Control'
  BY <1>10 DEF SwapOut, Go, process, etc, run, data, backup
<1>11. ASSUME NEW p \in Paths, SwapIn(p)
      PROVE  Control'
  BY <1>11 DEF SwapIn, Visit, process, etc, run, data, backup
<1>12. CASE WriteRecord
  BY <1>12 DEF WriteRecord, Go, process, etc, run, data, backup
<1>13. CASE LoadTable
  BY <1>13 DEF LoadTable, Go, process, etc, run, data, backup
<1>14. CASE Seal
  BY <1>14 DEF Seal, Go, Open, process, etc, run, data, backup
<1>15. CASE Install
  BY <1>15 DEF Install, Go, process, etc, run, data, backup
<1>16. CASE AllowValidation
  BY <1>16 DEF AllowValidation, ToStart, Go, Open, process, etc, run, data, backup
<1>17. ASSUME NEW s \in Services, Start(s)
      PROVE  Control'
  BY <1>17 DEF Start, GuardPasses, Visit, process, etc, run, data, backup
<1>18. CASE Verify
  BY <1>18 DEF Verify, AllActive, AfterVerify, Go, process, etc, run, data, backup
<1>19. CASE Commit
  BY <1>19 DEF Commit, Save, Go, process, etc, run, data, backup
<1>20. ASSUME NEW p \in Paths, Remove(p)
      PROVE  Control'
  BY <1>20 DEF Remove, Kept, Go, Visit, process, etc, run, data, backup
<1>21. ASSUME NEW p \in Paths, PutBack(p)
      PROVE  Control'
  BY <1>21 DEF PutBack, Visit, process, etc, run, data, backup
<1>22. CASE SaveRolledBack
  BY <1>22 DEF SaveRolledBack, Save, Go, process, etc, run, data, backup
<1>23. CASE SetScope
  BY <1>23 DEF SetScope, Scope, Go, process, etc, run, data, backup
<1>24. CASE RefreshHelpers
  BY <1>24 DEF RefreshHelpers, Go, process, etc, run, data, backup
<1>25. CASE Withdraw
  BY <1>25 DEF Withdraw, Go, process, etc, run, data, backup
<1>26. CASE Unfence
  BY <1>26 DEF Unfence, Go, process, etc, run, data, backup
<1>27. CASE Release
  BY <1>27 DEF Release, RecordGone, AfterRelease, Go, process, etc, run, data, backup
<1>28. CASE AllowTarget
  BY <1>28 DEF AllowTarget, Go, Open, process, etc, run, data, backup
<1>29. ASSUME NEW s \in Services, Pause(s)
      PROVE  Control'
  BY <1>29 DEF Pause, Visit, process, etc, run, data, backup
<1>30. ASSUME NEW s \in Services, Resume(s)
      PROVE  Control'
  BY <1>30 DEF Resume, GuardPasses, Visit, process, etc, run, data, backup
<1>31. CASE Upload
  BY <1>31 DEF Upload, Go, process, etc, run, data, backup
<1>32. CASE Clean
  BY <1>32 DEF Clean, Go, process, etc, run, data, backup
<1>33. CASE RecordResult
  BY <1>33 DEF RecordResult, Go, process, etc, run, data, backup
<1>34. CASE Unmark
  BY <1>34 DEF Unmark, Go, process, etc, run, data, backup
<1>35. CASE Sync
  BY <1>35 DEF Sync, Return, process, etc, run, data, backup
<1>36. CASE Branch
  BY <1>36 DEF Branch, Decided, StartRollback, process, etc, run, data, backup
<1>37. CASE Raise
  BY <1>37 DEF Raise, RaisePromoting, RaiseCommitted, RaiseSettling, StartRollback, Return, Freeze,
        Resumed, process, etc, run, data, backup
<1>38. CASE Interrupt
  BY <1>38 DEF Interrupt, Return, Freeze, Resumed, process, etc, run, data, backup
<1>39. CASE Kill
  BY <1>39 DEF Kill, Return, process, etc, run, data, backup
<1>40. CASE Reboot
  BY <1>40 DEF Reboot, GuardPasses, Return, process, etc, run, data, backup
<1>41. ASSUME NEW s \in Services, ServiceCrash(s)
      PROVE  Control'
  BY <1>41 DEF ServiceCrash, process, etc, run, data, backup
<1>42. ASSUME NEW s \in Services, AutoRestart(s)
      PROVE  Control'
  BY <1>42 DEF AutoRestart, GuardPasses, process, etc, run, data, backup
<1>43. ASSUME NEW p \in Paths, ClientWrite(p)
      PROVE  Control'
  BY <1>43 DEF ClientWrite, Exposed, AllDown, process, etc, run, data, backup
<1>44. CASE UNCHANGED vars
  BY <1>44 DEF vars, process, etc, run, data, backup
<1> QED
  BY <1>1, <1>2, <1>3, <1>4, <1>5, <1>6, <1>7, <1>8, <1>9, <1>10, <1>11, <1>12, <1>13, <1>14, <1>15,
    <1>16, <1>17, <1>18, <1>19, <1>20, <1>21, <1>22, <1>23, <1>24, <1>25, <1>26, <1>27, <1>28,
    <1>29, <1>30, <1>31, <1>32, <1>33, <1>34, <1>35, <1>36, <1>37, <1>38, <1>39, <1>40, <1>41,
    <1>42, <1>43, <1>44
  DEF Next, Proceed, Environment

\* The fence stands where the step needs it.
LEMMA FenceStep ==
    ASSUME TypeOK, Control, Fence, [Next]_vars
    PROVE  Fence'
<1> USE DEF TypeOK, ValuesOK, Control, Fence, Closing, Steps, Isolating, Promoting, Publishing,
           Capturing, Finishing
<1>1. CASE StartApply
  BY <1>1 DEF StartApply, Ready, AllActive, process, etc, run, data, backup
<1>2. CASE StartRecover
  BY <1>2 DEF StartRecover, process, etc, run, data, backup
<1>3. CASE WriteMarker
  BY <1>3 DEF WriteMarker, Mark, Open, process, etc, run, data, backup
<1>4. CASE WriteMarkerFails
  BY <1>4 DEF WriteMarkerFails, Mark, Return, process, etc, run, data, backup
<1>5. ASSUME NEW s \in Services, Stop(s)
      PROVE  Fence'
  BY <1>5 DEF Stop, Halted, Visit, process, etc, run, data, backup
<1>6. CASE AllowSnapshot
  BY <1>6 DEF AllowSnapshot, Go, process, etc, run, data, backup
<1>7. CASE Capture
  BY <1>7 DEF Capture, Go, process, etc, run, data, backup
<1>8. CASE Compare
  BY <1>8 DEF Compare, AllDown, Go, process, etc, run, data, backup
<1>9. CASE SaveMigrating
  BY <1>9 DEF SaveMigrating, Save, Open, process, etc, run, data, backup
<1>10. ASSUME NEW p \in Paths, SwapOut(p)
      PROVE  Fence'
  BY <1>10 DEF SwapOut, Go, process, etc, run, data, backup
<1>11. ASSUME NEW p \in Paths, SwapIn(p)
      PROVE  Fence'
  BY <1>11 DEF SwapIn, Visit, process, etc, run, data, backup
<1>12. CASE WriteRecord
  BY <1>12 DEF WriteRecord, Go, process, etc, run, data, backup
<1>13. CASE LoadTable
  BY <1>13 DEF LoadTable, Go, process, etc, run, data, backup
<1>14. CASE Seal
  BY <1>14 DEF Seal, Go, Open, process, etc, run, data, backup
<1>15. CASE Install
  BY <1>15 DEF Install, Go, process, etc, run, data, backup
<1>16. CASE AllowValidation
  BY <1>16 DEF AllowValidation, ToStart, Go, Open, process, etc, run, data, backup
<1>17. ASSUME NEW s \in Services, Start(s)
      PROVE  Fence'
  BY <1>17 DEF Start, GuardPasses, Visit, process, etc, run, data, backup
<1>18. CASE Verify
  BY <1>18 DEF Verify, AllActive, AfterVerify, Go, process, etc, run, data, backup
<1>19. CASE Commit
  BY <1>19 DEF Commit, Save, Go, process, etc, run, data, backup
<1>20. ASSUME NEW p \in Paths, Remove(p)
      PROVE  Fence'
  BY <1>20 DEF Remove, Kept, Go, Visit, process, etc, run, data, backup
<1>21. ASSUME NEW p \in Paths, PutBack(p)
      PROVE  Fence'
  BY <1>21 DEF PutBack, Visit, process, etc, run, data, backup
<1>22. CASE SaveRolledBack
  BY <1>22 DEF SaveRolledBack, Save, Go, process, etc, run, data, backup
<1>23. CASE SetScope
  BY <1>23 DEF SetScope, Scope, Go, process, etc, run, data, backup
<1>24. CASE RefreshHelpers
  BY <1>24 DEF RefreshHelpers, Go, process, etc, run, data, backup
<1>25. CASE Withdraw
  BY <1>25 DEF Withdraw, Go, process, etc, run, data, backup
<1>26. CASE Unfence
  BY <1>26 DEF Unfence, Go, process, etc, run, data, backup
<1>27. CASE Release
  BY <1>27 DEF Release, RecordGone, AfterRelease, Go, process, etc, run, data, backup
<1>28. CASE AllowTarget
  BY <1>28 DEF AllowTarget, Go, Open, process, etc, run, data, backup
<1>29. ASSUME NEW s \in Services, Pause(s)
      PROVE  Fence'
  BY <1>29 DEF Pause, Visit, process, etc, run, data, backup
<1>30. ASSUME NEW s \in Services, Resume(s)
      PROVE  Fence'
  BY <1>30 DEF Resume, GuardPasses, Visit, process, etc, run, data, backup
<1>31. CASE Upload
  BY <1>31 DEF Upload, Go, process, etc, run, data, backup
<1>32. CASE Clean
  BY <1>32 DEF Clean, Go, process, etc, run, data, backup
<1>33. CASE RecordResult
  BY <1>33 DEF RecordResult, Go, process, etc, run, data, backup
<1>34. CASE Unmark
  BY <1>34 DEF Unmark, Go, process, etc, run, data, backup
<1>35. CASE Sync
  BY <1>35 DEF Sync, Return, process, etc, run, data, backup
<1>36. CASE Branch
  BY <1>36 DEF Branch, Decided, StartRollback, process, etc, run, data, backup
<1>37. CASE Raise
  BY <1>37 DEF Raise, RaisePromoting, RaiseCommitted, RaiseSettling, StartRollback, Return, Freeze,
        Resumed, process, etc, run, data, backup
<1>38. CASE Interrupt
  BY <1>38 DEF Interrupt, Return, Freeze, Resumed, process, etc, run, data, backup
<1>39. CASE Kill
  BY <1>39 DEF Kill, Return, process, etc, run, data, backup
<1>40. CASE Reboot
  BY <1>40 DEF Reboot, GuardPasses, Return, process, etc, run, data, backup
<1>41. ASSUME NEW s \in Services, ServiceCrash(s)
      PROVE  Fence'
  BY <1>41 DEF ServiceCrash, process, etc, run, data, backup
<1>42. ASSUME NEW s \in Services, AutoRestart(s)
      PROVE  Fence'
  BY <1>42 DEF AutoRestart, GuardPasses, process, etc, run, data, backup
<1>43. ASSUME NEW p \in Paths, ClientWrite(p)
      PROVE  Fence'
  BY <1>43 DEF ClientWrite, Exposed, AllDown, process, etc, run, data, backup
<1>44. CASE UNCHANGED vars
  BY <1>44 DEF vars, process, etc, run, data, backup
<1> QED
  BY <1>1, <1>2, <1>3, <1>4, <1>5, <1>6, <1>7, <1>8, <1>9, <1>10, <1>11, <1>12, <1>13, <1>14, <1>15,
    <1>16, <1>17, <1>18, <1>19, <1>20, <1>21, <1>22, <1>23, <1>24, <1>25, <1>26, <1>27, <1>28,
    <1>29, <1>30, <1>31, <1>32, <1>33, <1>34, <1>35, <1>36, <1>37, <1>38, <1>39, <1>40, <1>41,
    <1>42, <1>43, <1>44
  DEF Next, Proceed, Environment

\* The data is what the journal's phase says.
LEMMA PhaseStep ==
    ASSUME TypeOK, Control, Fence, Phase, Progress, Guarded, [Next]_vars
    PROVE  Phase'
<1> USE DEF TypeOK, ValuesOK, Control, Phase, Progress, InPlace, Replaced, Upgraded, Steps,
           Isolating, Promoting, Publishing, Capturing, Finishing
<1>1. CASE StartApply
  BY <1>1 DEF StartApply, Ready, AllActive, process, etc, run, data, backup
<1>2. CASE StartRecover
  BY <1>2 DEF StartRecover, process, etc, run, data, backup
<1>3. CASE WriteMarker
  BY <1>3 DEF WriteMarker, Mark, Open, process, etc, run, data, backup
<1>4. CASE WriteMarkerFails
  BY <1>4 DEF WriteMarkerFails, Mark, Return, process, etc, run, data, backup
<1>5. ASSUME NEW s \in Services, Stop(s)
      PROVE  Phase'
  BY <1>5 DEF Stop, Halted, Visit, process, etc, run, data, backup
<1>6. CASE AllowSnapshot
  BY <1>6 DEF AllowSnapshot, Go, process, etc, run, data, backup
<1>7. CASE Capture
  BY <1>7 DEF Capture, Go, process, etc, run, data, backup
<1>8. CASE Compare
  BY <1>8 DEF Compare, AllDown, Go, process, etc, run, data, backup
<1>9. CASE SaveMigrating
  BY <1>9 DEF SaveMigrating, Save, Open, process, etc, run, data, backup
<1>10. ASSUME NEW p \in Paths, SwapOut(p)
      PROVE  Phase'
  BY <1>10 DEF SwapOut, Go, process, etc, run, data, backup
<1>11. ASSUME NEW p \in Paths, SwapIn(p)
      PROVE  Phase'
  BY <1>11 DEF SwapIn, Visit, process, etc, run, data, backup
<1>12. CASE WriteRecord
  BY <1>12 DEF WriteRecord, Go, process, etc, run, data, backup
<1>13. CASE LoadTable
  BY <1>13 DEF LoadTable, Go, process, etc, run, data, backup
<1>14. CASE Seal
  BY <1>14 DEF Seal, Go, Open, process, etc, run, data, backup
<1>15. CASE Install
  BY <1>15 DEF Install, Go, process, etc, run, data, backup
<1>16. CASE AllowValidation
  BY <1>16 DEF AllowValidation, ToStart, Go, Open, process, etc, run, data, backup
<1>17. ASSUME NEW s \in Services, Start(s)
      PROVE  Phase'
  BY <1>17 DEF Start, GuardPasses, Visit, process, etc, run, data, backup
<1>18. CASE Verify
  BY <1>18 DEF Verify, AllActive, AfterVerify, Go, process, etc, run, data, backup
<1>19. CASE Commit
  BY <1>19 DEF Commit, Save, Go, process, etc, run, data, backup
<1>20. ASSUME NEW p \in Paths, Remove(p)
      PROVE  Phase'
  BY <1>20 DEF Remove, Kept, Go, Visit, process, etc, run, data, backup
<1>21. ASSUME NEW p \in Paths, PutBack(p)
      PROVE  Phase'
  BY <1>21 DEF PutBack, Visit, process, etc, run, data, backup
<1>22. CASE SaveRolledBack
  BY <1>22 DEF SaveRolledBack, Save, Go, process, etc, run, data, backup
<1>23. CASE SetScope
  BY <1>23 DEF SetScope, Scope, Go, process, etc, run, data, backup
<1>24. CASE RefreshHelpers
  BY <1>24 DEF RefreshHelpers, Go, process, etc, run, data, backup
<1>25. CASE Withdraw
  BY <1>25 DEF Withdraw, Go, process, etc, run, data, backup
<1>26. CASE Unfence
  BY <1>26 DEF Unfence, Go, process, etc, run, data, backup
<1>27. CASE Release
  BY <1>27 DEF Release, RecordGone, AfterRelease, Go, process, etc, run, data, backup
<1>28. CASE AllowTarget
  BY <1>28 DEF AllowTarget, Go, Open, process, etc, run, data, backup
<1>29. ASSUME NEW s \in Services, Pause(s)
      PROVE  Phase'
  BY <1>29 DEF Pause, Visit, process, etc, run, data, backup
<1>30. ASSUME NEW s \in Services, Resume(s)
      PROVE  Phase'
  BY <1>30 DEF Resume, GuardPasses, Visit, process, etc, run, data, backup
<1>31. CASE Upload
  BY <1>31 DEF Upload, Go, process, etc, run, data, backup
<1>32. CASE Clean
  BY FinishingDecided, <1>32 DEF Clean, Go, process, etc, run, data, backup
<1>33. CASE RecordResult
  BY <1>33 DEF RecordResult, Go, process, etc, run, data, backup
<1>34. CASE Unmark
  BY FinishingDecided, <1>34 DEF Unmark, Go, process, etc, run, data, backup
<1>35. CASE Sync
  BY <1>35 DEF Sync, Return, process, etc, run, data, backup
<1>36. CASE Branch
  BY <1>36 DEF Branch, Decided, StartRollback, process, etc, run, data, backup
<1>37. CASE Raise
  BY <1>37 DEF Raise, RaisePromoting, RaiseCommitted, RaiseSettling, StartRollback, Return, Freeze,
        Resumed, process, etc, run, data, backup
<1>38. CASE Interrupt
  BY <1>38 DEF Interrupt, Return, Freeze, Resumed, process, etc, run, data, backup
<1>39. CASE Kill
  BY <1>39 DEF Kill, Return, process, etc, run, data, backup
<1>40. CASE Reboot
  BY <1>40 DEF Reboot, GuardPasses, Return, process, etc, run, data, backup
<1>41. ASSUME NEW s \in Services, ServiceCrash(s)
      PROVE  Phase'
  BY <1>41 DEF ServiceCrash, process, etc, run, data, backup
<1>42. ASSUME NEW s \in Services, AutoRestart(s)
      PROVE  Phase'
  BY <1>42 DEF AutoRestart, GuardPasses, process, etc, run, data, backup
<1>43. ASSUME NEW p \in Paths, ClientWrite(p)
      PROVE  Phase'
  BY ReachedDecided, <1>43 DEF ClientWrite, Exposed, AllDown, process, etc, run, data, backup
<1>44. CASE UNCHANGED vars
  BY <1>44 DEF vars, process, etc, run, data, backup
<1> QED
  BY <1>1, <1>2, <1>3, <1>4, <1>5, <1>6, <1>7, <1>8, <1>9, <1>10, <1>11, <1>12, <1>13, <1>14, <1>15,
    <1>16, <1>17, <1>18, <1>19, <1>20, <1>21, <1>22, <1>23, <1>24, <1>25, <1>26, <1>27, <1>28,
    <1>29, <1>30, <1>31, <1>32, <1>33, <1>34, <1>35, <1>36, <1>37, <1>38, <1>39, <1>40, <1>41,
    <1>42, <1>43, <1>44
  DEF Next, Proceed, Environment

\* The data is as far as the running command's step says.
LEMMA ProgressStep ==
    ASSUME TypeOK, Control, Fence, Phase, Progress, Guarded, [Next]_vars
    PROVE  Progress'
<1> USE DEF TypeOK, ValuesOK, Control, Phase, Progress, InPlace, Replaced, Upgraded, Steps,
           Isolating, Promoting, Publishing, Capturing, Finishing
<1>1. CASE StartApply
  BY ReadySettled, <1>1 DEF StartApply, Ready, AllActive, process, etc, run, data, backup
<1>2. CASE StartRecover
  BY <1>2 DEF StartRecover, process, etc, run, data, backup
<1>3. CASE WriteMarker
  BY <1>3 DEF WriteMarker, Mark, Open, process, etc, run, data, backup
<1>4. CASE WriteMarkerFails
  BY <1>4 DEF WriteMarkerFails, Mark, Return, process, etc, run, data, backup
<1>5. ASSUME NEW s \in Services, Stop(s)
      PROVE  Progress'
  BY <1>5 DEF Stop, Halted, Visit, process, etc, run, data, backup
<1>6. CASE AllowSnapshot
  BY <1>6 DEF AllowSnapshot, Go, process, etc, run, data, backup
<1>7. CASE Capture
  BY <1>7 DEF Capture, Go, process, etc, run, data, backup
<1>8. CASE Compare
  BY <1>8 DEF Compare, AllDown, Go, process, etc, run, data, backup
<1>9. CASE SaveMigrating
  BY <1>9 DEF SaveMigrating, Save, Open, process, etc, run, data, backup
<1>10. ASSUME NEW p \in Paths, SwapOut(p)
      PROVE  Progress'
  BY <1>10 DEF SwapOut, Go, process, etc, run, data, backup
<1>11. ASSUME NEW p \in Paths, SwapIn(p)
      PROVE  Progress'
  BY <1>11 DEF SwapIn, Visit, process, etc, run, data, backup
<1>12. CASE WriteRecord
  BY <1>12 DEF WriteRecord, Go, process, etc, run, data, backup
<1>13. CASE LoadTable
  BY <1>13 DEF LoadTable, Go, process, etc, run, data, backup
<1>14. CASE Seal
  BY <1>14 DEF Seal, Go, Open, process, etc, run, data, backup
<1>15. CASE Install
  BY <1>15 DEF Install, Go, process, etc, run, data, backup
<1>16. CASE AllowValidation
  BY <1>16 DEF AllowValidation, ToStart, Go, Open, process, etc, run, data, backup
<1>17. ASSUME NEW s \in Services, Start(s)
      PROVE  Progress'
  BY <1>17 DEF Start, GuardPasses, Visit, process, etc, run, data, backup
<1>18. CASE Verify
  BY <1>18 DEF Verify, AllActive, AfterVerify, Go, process, etc, run, data, backup
<1>19. CASE Commit
  BY <1>19 DEF Commit, Save, Go, process, etc, run, data, backup
<1>20. ASSUME NEW p \in Paths, Remove(p)
      PROVE  Progress'
  BY <1>20 DEF Remove, Kept, Go, Visit, process, etc, run, data, backup
<1>21. ASSUME NEW p \in Paths, PutBack(p)
      PROVE  Progress'
  BY <1>21 DEF PutBack, Visit, process, etc, run, data, backup
<1>22. CASE SaveRolledBack
  BY <1>22 DEF SaveRolledBack, Save, Go, process, etc, run, data, backup
<1>23. CASE SetScope
  BY <1>23 DEF SetScope, Scope, Go, process, etc, run, data, backup
<1>24. CASE RefreshHelpers
  BY <1>24 DEF RefreshHelpers, Go, process, etc, run, data, backup
<1>25. CASE Withdraw
  BY <1>25 DEF Withdraw, Go, process, etc, run, data, backup
<1>26. CASE Unfence
  BY <1>26 DEF Unfence, Go, process, etc, run, data, backup
<1>27. CASE Release
  BY <1>27 DEF Release, RecordGone, AfterRelease, Go, process, etc, run, data, backup
<1>28. CASE AllowTarget
  BY <1>28 DEF AllowTarget, Go, Open, process, etc, run, data, backup
<1>29. ASSUME NEW s \in Services, Pause(s)
      PROVE  Progress'
  BY <1>29 DEF Pause, Visit, process, etc, run, data, backup
<1>30. ASSUME NEW s \in Services, Resume(s)
      PROVE  Progress'
  BY <1>30 DEF Resume, GuardPasses, Visit, process, etc, run, data, backup
<1>31. CASE Upload
  BY <1>31 DEF Upload, Go, process, etc, run, data, backup
<1>32. CASE Clean
  BY <1>32 DEF Clean, Go, process, etc, run, data, backup
<1>33. CASE RecordResult
  BY <1>33 DEF RecordResult, Go, process, etc, run, data, backup
<1>34. CASE Unmark
  BY <1>34 DEF Unmark, Go, process, etc, run, data, backup
<1>35. CASE Sync
  BY <1>35 DEF Sync, Return, process, etc, run, data, backup
<1>36. CASE Branch
  <2>1. op = "recover" /\ pending /\ phase # "none"
    BY <1>36 DEF Branch
  <2>2. CASE Decided
    BY <1>36, <2>1, <2>2 DEF Branch, Decided, process, etc, run, data, backup
  <2>3. CASE ~Decided
    <3>1. phase \in {"preparing", "migrating"}
      BY <2>1, <2>3 DEF Decided, Phases
    <3> QED
      BY <1>36, <2>3, <3>1 DEF Branch, StartRollback, process, etc, run, data, backup
  <2> QED
    BY <2>2, <2>3
<1>37. CASE Raise
  BY <1>37 DEF Raise, RaisePromoting, RaiseCommitted, RaiseSettling, StartRollback, Return, Freeze,
        Resumed, process, etc, run, data, backup
<1>38. CASE Interrupt
  BY <1>38 DEF Interrupt, Return, Freeze, Resumed, process, etc, run, data, backup
<1>39. CASE Kill
  BY <1>39 DEF Kill, Return, process, etc, run, data, backup
<1>40. CASE Reboot
  BY <1>40 DEF Reboot, GuardPasses, Return, process, etc, run, data, backup
<1>41. ASSUME NEW s \in Services, ServiceCrash(s)
      PROVE  Progress'
  BY <1>41 DEF ServiceCrash, process, etc, run, data, backup
<1>42. ASSUME NEW s \in Services, AutoRestart(s)
      PROVE  Progress'
  BY <1>42 DEF AutoRestart, GuardPasses, process, etc, run, data, backup
<1>43. ASSUME NEW p \in Paths, ClientWrite(p)
      PROVE  Progress'
  BY ReachedDecided, <1>43 DEF ClientWrite, Exposed, AllDown, process, etc, run, data, backup
<1>44. CASE UNCHANGED vars
  BY <1>44 DEF vars, process, etc, run, data, backup
<1> QED
  BY <1>1, <1>2, <1>3, <1>4, <1>5, <1>6, <1>7, <1>8, <1>9, <1>10, <1>11, <1>12, <1>13, <1>14, <1>15,
    <1>16, <1>17, <1>18, <1>19, <1>20, <1>21, <1>22, <1>23, <1>24, <1>25, <1>26, <1>27, <1>28,
    <1>29, <1>30, <1>31, <1>32, <1>33, <1>34, <1>35, <1>36, <1>37, <1>38, <1>39, <1>40, <1>41,
    <1>42, <1>43, <1>44
  DEF Next, Proceed, Environment

\* Undecided data stays out of reach, and its backup whole.
LEMMA GuardedStep ==
    ASSUME TypeOK, Control, Fence, Phase, Progress, Guarded, Reported, [Next]_vars
    PROVE  Guarded'
<1> USE DEF TypeOK, ValuesOK, Control, Fence, Phase, Progress, Guarded, AllStopped, AllDown, Steps,
           Isolating, Promoting, Publishing, Capturing, Finishing
<1>1. CASE StartApply
  BY <1>1 DEF StartApply, Ready, AllActive, process, etc, run, data, backup
<1>2. CASE StartRecover
  BY <1>2 DEF StartRecover, process, etc, run, data, backup
<1>3. CASE WriteMarker
  BY <1>3 DEF WriteMarker, Mark, Open, process, etc, run, data, backup
<1>4. CASE WriteMarkerFails
  BY <1>4 DEF WriteMarkerFails, Mark, Return, process, etc, run, data, backup
<1>5. ASSUME NEW s \in Services, Stop(s)
      PROVE  Guarded'
  BY <1>5 DEF Stop, Halted, Visit, process, etc, run, data, backup
<1>6. CASE AllowSnapshot
  BY <1>6 DEF AllowSnapshot, Go, process, etc, run, data, backup
<1>7. CASE Capture
  BY <1>7 DEF Capture, Go, process, etc, run, data, backup
<1>8. CASE Compare
  BY <1>8 DEF Compare, AllDown, Go, process, etc, run, data, backup
<1>9. CASE SaveMigrating
  BY <1>9 DEF SaveMigrating, Save, Open, process, etc, run, data, backup
<1>10. ASSUME NEW p \in Paths, SwapOut(p)
      PROVE  Guarded'
  BY <1>10 DEF SwapOut, Go, process, etc, run, data, backup
<1>11. ASSUME NEW p \in Paths, SwapIn(p)
      PROVE  Guarded'
  BY <1>11 DEF SwapIn, Visit, process, etc, run, data, backup
<1>12. CASE WriteRecord
  BY <1>12 DEF WriteRecord, Go, process, etc, run, data, backup
<1>13. CASE LoadTable
  BY <1>13 DEF LoadTable, Go, process, etc, run, data, backup
<1>14. CASE Seal
  BY <1>14 DEF Seal, Go, Open, process, etc, run, data, backup
<1>15. CASE Install
  BY <1>15 DEF Install, Go, process, etc, run, data, backup
<1>16. CASE AllowValidation
  BY <1>16 DEF AllowValidation, ToStart, Go, Open, process, etc, run, data, backup
<1>17. ASSUME NEW s \in Services, Start(s)
      PROVE  Guarded'
  BY <1>17 DEF Start, GuardPasses, Visit, process, etc, run, data, backup
<1>18. CASE Verify
  BY <1>18 DEF Verify, AllActive, AfterVerify, Go, process, etc, run, data, backup
<1>19. CASE Commit
  BY <1>19 DEF Commit, Save, Go, process, etc, run, data, backup
<1>20. ASSUME NEW p \in Paths, Remove(p)
      PROVE  Guarded'
  BY <1>20 DEF Remove, Kept, Go, Visit, process, etc, run, data, backup
<1>21. ASSUME NEW p \in Paths, PutBack(p)
      PROVE  Guarded'
  BY <1>21 DEF PutBack, Visit, process, etc, run, data, backup
<1>22. CASE SaveRolledBack
  BY <1>22 DEF SaveRolledBack, Save, Go, process, etc, run, data, backup
<1>23. CASE SetScope
  BY <1>23 DEF SetScope, Scope, Go, process, etc, run, data, backup
<1>24. CASE RefreshHelpers
  BY <1>24 DEF RefreshHelpers, Go, process, etc, run, data, backup
<1>25. CASE Withdraw
  BY <1>25 DEF Withdraw, Go, process, etc, run, data, backup
<1>26. CASE Unfence
  BY FinishingDecided, <1>26 DEF Unfence, Go, process, etc, run, data, backup
<1>27. CASE Release
  BY <1>27 DEF Release, RecordGone, AfterRelease, Go, process, etc, run, data, backup
<1>28. CASE AllowTarget
  BY <1>28 DEF AllowTarget, Go, Open, process, etc, run, data, backup
<1>29. ASSUME NEW s \in Services, Pause(s)
      PROVE  Guarded'
  BY <1>29 DEF Pause, Visit, process, etc, run, data, backup
<1>30. ASSUME NEW s \in Services, Resume(s)
      PROVE  Guarded'
  BY <1>30 DEF Resume, GuardPasses, Visit, process, etc, run, data, backup
<1>31. CASE Upload
  BY <1>31 DEF Upload, Go, process, etc, run, data, backup
<1>32. CASE Clean
  BY <1>32 DEF Clean, Go, process, etc, run, data, backup
<1>33. CASE RecordResult
  BY <1>33 DEF RecordResult, Go, process, etc, run, data, backup
<1>34. CASE Unmark
  BY <1>34 DEF Unmark, Go, process, etc, run, data, backup
<1>35. CASE Sync
  BY <1>35 DEF Sync, Return, process, etc, run, data, backup
<1>36. CASE Branch
  BY <1>36 DEF Branch, Decided, StartRollback, process, etc, run, data, backup
<1>37. CASE Raise
  BY <1>37 DEF Raise, RaisePromoting, RaiseCommitted, RaiseSettling, StartRollback, Return, Freeze,
        Resumed, process, etc, run, data, backup
<1>38. CASE Interrupt
  BY <1>38 DEF Interrupt, Return, Freeze, Resumed, process, etc, run, data, backup
<1>39. CASE Kill
  BY <1>39 DEF Kill, Return, process, etc, run, data, backup
<1>40. CASE Reboot
  BY <1>40 DEF Reboot, GuardPasses, Return, process, etc, run, data, backup
<1>41. ASSUME NEW s \in Services, ServiceCrash(s)
      PROVE  Guarded'
  BY <1>41 DEF ServiceCrash, process, etc, run, data, backup
<1>42. ASSUME NEW s \in Services, AutoRestart(s)
      PROVE  Guarded'
  BY <1>42 DEF AutoRestart, GuardPasses, process, etc, run, data, backup
<1>43. ASSUME NEW p \in Paths, ClientWrite(p)
      PROVE  Guarded'
  BY ReachedDecided, <1>43 DEF ClientWrite, Exposed, AllDown, process, etc, run, data, backup,
        Upgraded
<1>44. CASE UNCHANGED vars
  BY <1>44 DEF vars, process, etc, run, data, backup
<1> QED
  BY <1>1, <1>2, <1>3, <1>4, <1>5, <1>6, <1>7, <1>8, <1>9, <1>10, <1>11, <1>12, <1>13, <1>14, <1>15,
    <1>16, <1>17, <1>18, <1>19, <1>20, <1>21, <1>22, <1>23, <1>24, <1>25, <1>26, <1>27, <1>28,
    <1>29, <1>30, <1>31, <1>32, <1>33, <1>34, <1>35, <1>36, <1>37, <1>38, <1>39, <1>40, <1>41,
    <1>42, <1>43, <1>44
  DEF Next, Proceed, Environment

\* Reports, permit and the backups' scope stay true.
LEMMA ReportedStep ==
    ASSUME TypeOK, Control, Fence, Phase, Progress, Guarded, Reported, [Next]_vars
    PROVE  Reported'
<1> USE DEF TypeOK, ValuesOK, Control, Progress, Reported, Closing, Steps, Isolating, Promoting,
           Publishing, Capturing, Finishing
<1>1. CASE StartApply
  BY <1>1 DEF StartApply, Ready, AllActive, process, etc, run, data, backup
<1>2. CASE StartRecover
  BY <1>2 DEF StartRecover, process, etc, run, data, backup
<1>3. CASE WriteMarker
  BY <1>3 DEF WriteMarker, Mark, Open, process, etc, run, data, backup
<1>4. CASE WriteMarkerFails
  BY <1>4 DEF WriteMarkerFails, Mark, Return, process, etc, run, data, backup
<1>5. ASSUME NEW s \in Services, Stop(s)
      PROVE  Reported'
  BY <1>5 DEF Stop, Halted, Visit, process, etc, run, data, backup
<1>6. CASE AllowSnapshot
  BY <1>6 DEF AllowSnapshot, Go, process, etc, run, data, backup
<1>7. CASE Capture
  BY <1>7 DEF Capture, Go, process, etc, run, data, backup
<1>8. CASE Compare
  BY <1>8 DEF Compare, AllDown, Go, process, etc, run, data, backup
<1>9. CASE SaveMigrating
  BY <1>9 DEF SaveMigrating, Save, Open, process, etc, run, data, backup
<1>10. ASSUME NEW p \in Paths, SwapOut(p)
      PROVE  Reported'
  BY <1>10 DEF SwapOut, Go, process, etc, run, data, backup
<1>11. ASSUME NEW p \in Paths, SwapIn(p)
      PROVE  Reported'
  BY <1>11 DEF SwapIn, Visit, process, etc, run, data, backup
<1>12. CASE WriteRecord
  BY <1>12 DEF WriteRecord, Go, process, etc, run, data, backup
<1>13. CASE LoadTable
  BY <1>13 DEF LoadTable, Go, process, etc, run, data, backup
<1>14. CASE Seal
  BY <1>14 DEF Seal, Go, Open, process, etc, run, data, backup
<1>15. CASE Install
  BY <1>15 DEF Install, Go, process, etc, run, data, backup
<1>16. CASE AllowValidation
  BY <1>16 DEF AllowValidation, ToStart, Go, Open, process, etc, run, data, backup
<1>17. ASSUME NEW s \in Services, Start(s)
      PROVE  Reported'
  BY <1>17 DEF Start, GuardPasses, Visit, process, etc, run, data, backup
<1>18. CASE Verify
  BY <1>18 DEF Verify, AllActive, AfterVerify, Go, process, etc, run, data, backup
<1>19. CASE Commit
  BY <1>19 DEF Commit, Save, Go, process, etc, run, data, backup
<1>20. ASSUME NEW p \in Paths, Remove(p)
      PROVE  Reported'
  BY <1>20 DEF Remove, Kept, Go, Visit, process, etc, run, data, backup
<1>21. ASSUME NEW p \in Paths, PutBack(p)
      PROVE  Reported'
  BY <1>21 DEF PutBack, Visit, process, etc, run, data, backup
<1>22. CASE SaveRolledBack
  BY <1>22 DEF SaveRolledBack, Save, Go, process, etc, run, data, backup
<1>23. CASE SetScope
  BY <1>23 DEF SetScope, Scope, Go, process, etc, run, data, backup
<1>24. CASE RefreshHelpers
  BY <1>24 DEF RefreshHelpers, Go, process, etc, run, data, backup
<1>25. CASE Withdraw
  BY <1>25 DEF Withdraw, Go, process, etc, run, data, backup
<1>26. CASE Unfence
  BY <1>26 DEF Unfence, Go, process, etc, run, data, backup
<1>27. CASE Release
  BY <1>27 DEF Release, RecordGone, AfterRelease, Go, process, etc, run, data, backup
<1>28. CASE AllowTarget
  BY <1>28 DEF AllowTarget, Go, Open, process, etc, run, data, backup
<1>29. ASSUME NEW s \in Services, Pause(s)
      PROVE  Reported'
  BY <1>29 DEF Pause, Visit, process, etc, run, data, backup
<1>30. ASSUME NEW s \in Services, Resume(s)
      PROVE  Reported'
  BY <1>30 DEF Resume, GuardPasses, Visit, process, etc, run, data, backup
<1>31. CASE Upload
  BY <1>31 DEF Upload, Go, process, etc, run, data, backup
<1>32. CASE Clean
  BY <1>32 DEF Clean, Go, process, etc, run, data, backup
<1>33. CASE RecordResult
  BY <1>33 DEF RecordResult, Go, process, etc, run, data, backup
<1>34. CASE Unmark
  BY <1>34 DEF Unmark, Go, process, etc, run, data, backup
<1>35. CASE Sync
  BY FinishingDecided, <1>35 DEF Sync, Return, process, etc, run, data, backup
<1>36. CASE Branch
  BY <1>36 DEF Branch, Decided, StartRollback, process, etc, run, data, backup
<1>37. CASE Raise
  BY <1>37 DEF Raise, RaisePromoting, RaiseCommitted, RaiseSettling, StartRollback, Return, Freeze,
        Resumed, process, etc, run, data, backup
<1>38. CASE Interrupt
  BY <1>38 DEF Interrupt, Return, Freeze, Resumed, process, etc, run, data, backup
<1>39. CASE Kill
  BY <1>39 DEF Kill, Return, process, etc, run, data, backup
<1>40. CASE Reboot
  BY <1>40 DEF Reboot, GuardPasses, Return, process, etc, run, data, backup
<1>41. ASSUME NEW s \in Services, ServiceCrash(s)
      PROVE  Reported'
  BY <1>41 DEF ServiceCrash, process, etc, run, data, backup
<1>42. ASSUME NEW s \in Services, AutoRestart(s)
      PROVE  Reported'
  BY <1>42 DEF AutoRestart, GuardPasses, process, etc, run, data, backup
<1>43. ASSUME NEW p \in Paths, ClientWrite(p)
      PROVE  Reported'
  BY <1>43 DEF ClientWrite, Exposed, AllDown, process, etc, run, data, backup
<1>44. CASE UNCHANGED vars
  BY <1>44 DEF vars, process, etc, run, data, backup
<1> QED
  BY <1>1, <1>2, <1>3, <1>4, <1>5, <1>6, <1>7, <1>8, <1>9, <1>10, <1>11, <1>12, <1>13, <1>14, <1>15,
    <1>16, <1>17, <1>18, <1>19, <1>20, <1>21, <1>22, <1>23, <1>24, <1>25, <1>26, <1>27, <1>28,
    <1>29, <1>30, <1>31, <1>32, <1>33, <1>34, <1>35, <1>36, <1>37, <1>38, <1>39, <1>40, <1>41,
    <1>42, <1>43, <1>44
  DEF Next, Proceed, Environment

-----------------------------------------------------------------------------
(* Invariance.                                                             *)

LEMMA InitInv == Init => Inv
<1> SUFFICES ASSUME Init PROVE Inv
  OBVIOUS
<1>1. FlagsOK
  BY Zenon DEF Init, FlagsOK
<1>2. ValuesOK
  BY DEF Init, ValuesOK, Goals, Steps, Phases, Claims
<1>3. Control /\ Fence
  BY DEF Init, Control, Fence, Closing, Steps, Isolating, Promoting, Publishing, Capturing, Finishing
<1>4. Phase /\ Progress
  BY DEF Init, Phase, Progress, InPlace, Isolating, Publishing, Capturing, Finishing
<1>5. Guarded /\ Reported
  BY DEF Init, Guarded, Reported, Closing
<1> QED
  BY <1>1, <1>2, <1>3, <1>4, <1>5 DEF Inv, TypeOK

LEMMA InvStep == Inv /\ [Next]_vars => Inv'
BY FlagsStep, ValuesStep, ControlStep, FenceStep, PhaseStep, ProgressStep, GuardedStep,
   ReportedStep DEF Inv, TypeOK

\* Every reachable state satisfies the layered invariant.
THEOREM Invariance == Spec => []Inv
BY InitInv, InvStep, PTL DEF Spec

\* The variables keep their types, for any units and paths.
THEOREM TypeCorrect == Spec => []TypeOK
<1>1. Inv => TypeOK
  BY DEF Inv
<1> QED
  BY Invariance, <1>1, PTL

\* Nothing is moved before a backup with all that clients wrote was read back, and
\* until the decision nothing is written that it lacks.
THEOREM BackupComesFirst == Spec => []WholeBackupFirst
<1>1. Inv => WholeBackupFirst
  BY DEF Inv, TypeOK, ValuesOK, Phases, Phase, InPlace, Guarded, Decided, WholeBackupFirst
<1> QED
  BY Invariance, <1>1, PTL

\* A reported outcome is the durable truth, whatever was cut before.
THEOREM ClaimsAreTrue == Spec => []ClaimHonest
<1>1. Inv => ClaimHonest
  BY DEF Inv, Phase, InPlace, Reported, ClaimHonest
<1> QED
  BY Invariance, <1>1, PTL

\* Once no upgrade is pending, the backups name the version in place.
THEOREM BackupsFollow == Spec => []ScopeFollowsVersion
<1>1. ASSUME Inv, ~pending
      PROVE  /\ helpers # "between"
             /\ scope = "target" => \A p \in Paths : Upgraded(p)
             /\ scope # "target" => \A p \in Paths : live[p] = "original"
  <2>1. CASE phase = "committed"
    BY <1>1, <2>1 DEF Inv, Phase, Reported
  <2>2. CASE phase \in {"none", "rolled-back"}
    BY <1>1, <2>2 DEF Inv, Phase, InPlace, Reported
  <2> QED
    BY <1>1, <2>1, <2>2 DEF Inv, TypeOK, ValuesOK, Phases, Phase
<1>2. Inv => ScopeFollowsVersion
  BY <1>1 DEF ScopeFollowsVersion
<1> QED
  BY Invariance, <1>2, PTL

-----------------------------------------------------------------------------
(* What a step may never do.                                               *)

\* Without a running command only the environment, or a new command's first step, acts.
LEMMA IdleSteps ==
    ASSUME Inv, [Next]_vars, op = "none"
    PROVE  StartApply \/ StartRecover \/ Environment \/ UNCHANGED vars
<1>1. pc = "idle" /\ goal = "none"
  BY DEF Inv, Control
<1>2. ~Proceed
  BY <1>1 DEF Proceed, WriteMarker, Stop, AllowSnapshot, Capture, Compare, SaveMigrating,
     SwapOut, SwapIn, WriteRecord, LoadTable, Seal, Install, AllowValidation, Start, Verify,
     Commit, Remove, PutBack, SaveRolledBack, SetScope, RefreshHelpers, Withdraw, Unfence,
     Release, AllowTarget, Pause, Resume, Upload, Clean, RecordResult, Unmark, Sync, Branch
<1>3. ~WriteMarkerFails /\ ~Raise /\ ~Interrupt /\ ~Kill
  BY <1>1 DEF WriteMarkerFails, Raise, RaisePromoting, RaiseCommitted, RaiseSettling,
     Interrupt, Kill
<1> QED
  BY <1>2, <1>3 DEF Next

\* While an upgrade is pending and its last command came to its own end, no unit
\* comes up by itself.
THEOREM StaysBlocked == Spec => UnattendedBlocked
<1>1. ASSUME Inv, [Next]_vars, NEW s \in Services,
             pending, op = "none", claim # "interrupted", svc'[s] = "active"
      PROVE  svc[s] = "active"
  <2>1. ~permit
    BY <1>1 DEF Inv, Reported
  <2>2. CASE Reboot
    <3>1. pending' /\ ~permit'
      BY Zenon, <1>1, <2>2 DEF Reboot
    <3>2. ~GuardPasses'
      BY <3>1 DEF GuardPasses
    <3>3. svc' \in [Services -> {"stopped", "failed"}]
      BY <2>2, <3>2 DEF Reboot
    <3> QED
      BY <1>1, <3>3
  <2>3. CASE \E t \in Services : ServiceCrash(t)
    BY <1>1, <2>3 DEF ServiceCrash, Inv, TypeOK, ValuesOK
  <2>4. CASE \E t \in Services : AutoRestart(t)
    BY <1>1, <2>1, <2>4 DEF AutoRestart, GuardPasses
  <2>5. CASE StartApply \/ StartRecover \/ (\E p \in Paths : ClientWrite(p)) \/ UNCHANGED vars
    BY <1>1, <2>5 DEF StartApply, StartRecover, ClientWrite, vars, run
  <2> QED
    BY <1>1, <2>2, <2>3, <2>4, <2>5, IdleSteps DEF Environment
<1>2. Inv /\ [Next]_vars =>
        [\A s \in Services : pending /\ op = "none" /\ claim # "interrupted" /\ svc'[s] = "active" =>
             svc[s] = "active"]_vars
  BY <1>1
<1> QED
  BY Invariance, <1>2, PTL DEF Spec, UnattendedBlocked

-----------------------------------------------------------------------------
(* The upgrade implements FencedSwitch.                                    *)

\* Clients see the copy of record or nothing.
LEMMA ShowsRecord ==
    ASSUME Inv
    PROVE  Shown = IF Exposed THEN {CopyOfRecord} ELSE {}
<1>1. CASE Exposed
  <2>1. phase # "migrating"
    BY <1>1, ReachedDecided DEF Inv
  <2>2. \A p \in Paths : CopyAt(p) = CopyOfRecord
    <3>1. CASE phase = "committed"
      BY <3>1 DEF Inv, Phase, Upgraded, CopyAt, CopyOfRecord
    <3>2. CASE phase # "committed"
      BY <2>1, <3>2 DEF Inv, TypeOK, ValuesOK, Phases, Phase, InPlace, CopyAt, CopyOfRecord
    <3> QED
      BY <3>1, <3>2
  <2> QED
    BY <1>1, <2>2, PathsAssumption DEF Shown
<1>2. CASE ~Exposed
  BY <1>2 DEF Shown
<1> QED
  BY <1>1, <1>2

Uncommitted == phase # "committed"

\* Nobody has written before the decision.
LEMMA NoEdits ==
    ASSUME Inv, Uncommitted
    PROVE  Edited = {} /\ CopyOfRecord = "original"
BY DEF Uncommitted, Inv, TypeOK, ValuesOK, Phases, Phase, InPlace, Edited, CopyOfRecord

LEMMA Visibility ==
    ASSUME Inv, Inv', UNCHANGED <<pending, CopyOfRecord, Edited>>
    PROVE  [Switch!Next]_(Switch!vars)
<1>1. Shown = IF Exposed THEN {CopyOfRecord} ELSE {}
  BY ShowsRecord
<1>2. (Shown = IF Exposed THEN {CopyOfRecord} ELSE {})'
  BY ShowsRecord, PTL
<1>3. \/ Shown' = Shown
      \/ Shown # {} /\ Shown' = {}
      \/ Shown = {} /\ Shown' = {CopyOfRecord}
  BY <1>1, <1>2
<1> QED
  BY <1>3 DEF Switch!Next, Switch!Hide, Switch!Show, Switch!vars

\* A step that leaves the marker alone, before and after it undecided, shows or hides.
LEMMA UndecidedStep ==
    ASSUME Inv, Inv', pending' = pending, Uncommitted, Uncommitted'
    PROVE  [Switch!Next]_(Switch!vars)
<1>1. Edited = {} /\ CopyOfRecord = "original"
  BY NoEdits
<1>2. (Edited = {} /\ CopyOfRecord = "original")'
  BY NoEdits, PTL
<1> QED
  BY <1>1, <1>2, Visibility

LEMMA BeginStep ==
    ASSUME Inv, Inv', pc = "marker", Mark, UNCHANGED <<table, svc>>
    PROVE  Switch!Next
<1>1. ~pending /\ pending' = TRUE
  BY DEF Inv, Control, Mark
<1>2. CopyOfRecord' = "original" /\ Uncommitted'
  BY DEF Mark, CopyOfRecord, Uncommitted
<1>3. (Edited = {} /\ CopyOfRecord = "original")'
  BY <1>2, NoEdits, PTL
<1>4. Exposed' = Exposed
  BY DEF Exposed, AllDown
<1>5. Shown = IF Exposed THEN {CopyOfRecord} ELSE {}
  BY ShowsRecord
<1>6. (Shown = IF Exposed THEN {CopyOfRecord} ELSE {})'
  BY ShowsRecord, PTL
<1>7. Shown' = IF Shown = {} THEN {} ELSE {"original"}
  BY <1>2, <1>4, <1>5, <1>6
<1> QED
  BY <1>1, <1>2, <1>3, <1>7 DEF Switch!Next, Switch!Begin

LEMMA SwitchStep ==
    ASSUME Inv, Inv', [Next]_vars
    PROVE  [Switch!Next]_(Switch!vars)
<1>1. CASE UNCHANGED <<pending, phase, live>>
  <2>1. UNCHANGED <<pending, CopyOfRecord, Edited>>
    BY <1>1 DEF CopyOfRecord, Edited
  <2> QED
    BY <2>1, Visibility
<1>2. CASE WriteMarker \/ WriteMarkerFails
  <2>1. CASE Mark
    BY <1>2, <2>1, BeginStep DEF WriteMarker, WriteMarkerFails, run
  <2>2. CASE UNCHANGED <<pending, phase, live>>
    BY <1>1, <2>2
  <2> QED
    BY <1>2, <2>1, <2>2 DEF WriteMarker, WriteMarkerFails, etc, data
<1>3. CASE Install \/ \E p \in Paths : SwapOut(p) \/ SwapIn(p) \/ Remove(p) \/ PutBack(p)
  <2>1. UNCHANGED <<pending, phase>>
    BY <1>3 DEF Install, SwapOut, SwapIn, Remove, PutBack, etc
  <2>2. Uncommitted
    BY <1>3 DEF Uncommitted, Install, SwapOut, SwapIn, Remove, PutBack, Inv, Control, Progress, Publishing,
       Capturing, Finishing
  <2>3. Uncommitted'
    BY <2>1, <2>2 DEF Uncommitted
  <2> QED
    BY <2>1, <2>2, <2>3, UndecidedStep
<1>4. CASE SaveMigrating \/ SaveRolledBack
  <2>1. pending' = pending /\ Uncommitted'
    BY <1>4 DEF Uncommitted, SaveMigrating, SaveRolledBack, Save
  <2>2. Uncommitted
    BY <1>4 DEF Uncommitted, SaveMigrating, SaveRolledBack, Inv, Control, Progress, Publishing, Capturing,
       Finishing
  <2> QED
    BY <2>1, <2>2, UndecidedStep
<1>5. CASE Commit
  <2>1. table /\ table' /\ pending /\ pending' = pending /\ phase = "migrating"
    BY <1>5 DEF Commit, Inv, Control, Fence, Progress, run
  <2>2. CopyOfRecord = "original" /\ CopyOfRecord' = "replacement"
    BY <1>5, <2>1 DEF Commit, Save, CopyOfRecord
  <2>3. Edited' = Edited
    BY <1>5 DEF Commit, data, Edited
  <2>4. Shown = {} /\ Shown' = {}
    BY <2>1 DEF Shown, Exposed
  <2> QED
    BY <2>1, <2>2, <2>3, <2>4 DEF Switch!Next, Switch!Switch
<1>6. CASE Unmark
  <2>1. pending /\ pending' = FALSE /\ UNCHANGED <<phase, live, table, svc>>
    BY <1>6 DEF Unmark, Inv, Control, data, run
  <2>2. UNCHANGED <<CopyOfRecord, Edited, Shown>>
    BY <2>1 DEF CopyOfRecord, Edited, Shown, Exposed, AllDown, CopyAt
  <2> QED
    BY <2>1, <2>2 DEF Switch!Next, Switch!End
<1>7. CASE Reboot
  <2>1. UNCHANGED <<CopyOfRecord, Edited>>
    BY <1>7 DEF Reboot, data, CopyOfRecord, Edited
  <2>2. pending' => Shown' = {}
    <3>1. ASSUME pending' PROVE AllDown'
      <4>1. ~GuardPasses'
        BY <1>7, <3>1 DEF Reboot, GuardPasses
      <4> QED
        BY <1>7, <4>1 DEF Reboot, AllDown
    <3> QED
      BY <3>1 DEF Shown, Exposed
  <2>3. pending' = pending \/ (~pending /\ pending' = TRUE)
    BY Zenon, <1>7 DEF Reboot, Inv, TypeOK, FlagsOK
  <2>4. CASE pending' = pending
    BY <2>1, <2>4, Visibility
  <2>5. CASE ~pending /\ pending' = TRUE
    BY <2>1, <2>2, <2>5 DEF Switch!Next, Switch!Resume
  <2> QED
    BY <2>3, <2>4, <2>5
<1>8. CASE \E p \in Paths : ClientWrite(p)
  <2> PICK p \in Paths : ClientWrite(p)
    BY <1>8
  <2>1. Exposed /\ UNCHANGED <<pending, phase, table, svc>>
    BY DEF ClientWrite, etc, run
  <2>2. CASE live' = live
    BY <1>1, <2>1, <2>2
  <2>3. CASE live[p] = "upgraded" /\ live' = [live EXCEPT ![p] = "edited"]
    <3>1. phase = "committed"
      BY <2>1, <2>3, ReachedDecided DEF Inv
    <3>2. Edited' \subseteq Paths /\ Edited \subseteq Edited'
      BY <2>3 DEF Edited, Inv, TypeOK, ValuesOK
    <3>3. Exposed'
      BY <2>1 DEF Exposed, AllDown
    <3>4. CopyOfRecord = "replacement" /\ CopyOfRecord' = "replacement"
      BY <2>1, <3>1 DEF CopyOfRecord
    <3>5. Shown = {"replacement"}
      BY <2>1, <3>4, ShowsRecord
    <3>6. (Shown = IF Exposed THEN {CopyOfRecord} ELSE {})'
      BY ShowsRecord, PTL
    <3>7. Shown' = Shown
      BY <3>3, <3>4, <3>5, <3>6
    <3> QED
      BY <2>1, <3>2, <3>4, <3>5, <3>7 DEF Switch!Next, Switch!Edit
  <2> QED
    BY <2>2, <2>3 DEF ClientWrite
<1> QED
  BY <1>1, <1>2, <1>3, <1>4, <1>5, <1>6, <1>7, <1>8
  DEF Next, Proceed, Environment, vars, etc, data, StartApply, StartRecover, Stop, AllowSnapshot,
      Capture, Compare, WriteRecord, LoadTable, Seal, AllowValidation, Start, Verify, SetScope,
      RefreshHelpers, Withdraw, Unfence, Release, AllowTarget, Pause, Resume, Upload, Clean,
      RecordResult, Sync, Branch, Raise, Interrupt, Kill, ServiceCrash, AutoRestart

\* The upgrade, with everything that can cut it, implements the fenced switch.
THEOREM Implements == Spec => ImplementsSwitch
<1>1. Init => Switch!Init
  BY PathsAssumption DEF Init, Switch!Init, CopyOfRecord, Edited, Shown, Exposed, AllDown, CopyAt
<1>2. Inv /\ Inv' /\ [Next]_vars => [Switch!Next]_(Switch!vars)
  BY SwitchStep
<1> QED
  BY Invariance, <1>1, <1>2, PTL DEF Spec, ImplementsSwitch, Switch!Spec
=============================================================================
