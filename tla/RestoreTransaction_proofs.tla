---------------------- MODULE RestoreTransaction_proofs ----------------------
(***************************************************************************)
(* Proofs that hold for any number of services and paths.  The invariant   *)
(* Inv is a conjunction of layers; each layer is preserved on its own,     *)
(* given the layers above it.                                              *)
(***************************************************************************)
EXTENDS RestoreProperties, TLAPS

\* Which command runs decides its goal, and the goal the steps that are left.
Control ==
    /\ op = "none" <=> pc = "idle"
    /\ op = "none" => goal = "none"
    /\ op = "apply" => goal \in {"promote", "rollback"}
    /\ op = "recover" => goal # "promote"
    /\ op = "recover" => (goal = "none" <=> pc \in Isolating \union {"branch"})
    /\ op = "apply" => pc # "branch"
    /\ op = "apply" /\ pc \in Isolating => goal = "promote"
    /\ pc \in {"marker", "stage", "swapOut", "swapIn", "validating", "commit"} => goal = "promote"
    /\ pc \in {"remove", "putBack", "rolledBack"} => goal = "rollback"
    /\ pc = "quiesce" => goal \in {"promote", "rollback"}
    /\ pc = "marker" => ~pending /\ ~record /\ ~table
    /\ op # "none" /\ pc # "marker" => pending
    /\ op # "none" => claim = "none"

\* Where the fence stands, and that a lost unlink brings the marker back with it.
Fence ==
    /\ pc \in Promoting \union {"seal", "branch", "remove", "putBack", "commit",
                                "rolledBack", "withdraw", "unfence"} => table
    /\ pc \in {"release", "clean", "evidence", "unmark"} => ~table
    /\ pc \in {"clean", "evidence", "unmark"} => ~record
    /\ pc = "unfence" => ~permit
    /\ permit => table
    /\ table \/ record => pending
    /\ "record" \in unsynced => pending \/ "pending" \in unsynced

InPlace(p) == live[p] = "original" /\ old[p] = "none"
Replaced(p) == live[p] \in {"restored", "edited"}

\* What the journal's phase says of the data, whoever runs.
Phase ==
    /\ journal.phase = "none" =>
           /\ ~pending /\ "pending" \notin unsynced
           /\ \A p \in Paths : live[p] = "original"
    /\ ~pending => ~Undecided
    /\ journal.phase = "committed" => \A p \in Paths : Replaced(p)
    /\ journal.phase = "rolled-back" => \A p \in Paths : live[p] = "original"
    /\ Undecided => \A p \in Paths : live[p] # "edited" /\ (InPlace(p) \/ old[p] = "original")

\* How far the running command has come with the data.
Progress ==
    /\ goal = "promote" /\ pc \in Isolating \union {"stage", "quiesce"} =>
           journal.phase = "preparing" /\ \A p \in Paths : InPlace(p)
    /\ pc = "swapOut" =>
           /\ journal.phase = "preparing" /\ todo \subseteq Paths
           /\ \A p \in todo : InPlace(p)
           /\ \A p \in Paths \ todo : live[p] = "restored"
    /\ pc = "swapIn" =>
           /\ journal.phase = "preparing" /\ todo \subseteq Paths
           /\ \A p, q \in todo : live[p] = "missing" /\ live[q] = "missing" => p = q
           /\ \A p \in todo : live[p] = "missing" \/ InPlace(p)
           /\ \A p \in Paths \ todo : live[p] = "restored"
    /\ goal = "promote" /\ pc \in {"validating", "permit", "start", "verify", "commit"} =>
           Undecided /\ \A p \in Paths : live[p] = "restored"
    /\ pc \in {"remove", "putBack"} =>
           todo \subseteq Paths /\ \A p \in Paths \ todo : live[p] = "original"
    /\ goal = "rollback" /\ pc \in {"permit", "start", "verify", "rolledBack"} =>
           \A p \in Paths : live[p] = "original"
    /\ goal = "rollback" => (Undecided <=> pc \notin Finishing)
    /\ goal = "settleNew" \/ (goal = "promote" /\ pc \in Finishing) => journal.phase = "committed"
    /\ goal = "settleOld" \/ (goal = "rollback" /\ pc \in Finishing) => journal.phase = "rolled-back"

Settled ==
    \/ \A p \in Paths : live[p] = "original"
    \/ journal.phase = "committed" /\ \A p \in Paths : Replaced(p)

\* Unsettled data is behind the fence or behind the startup guard.
Guarded ==
    /\ pc = "quiesce" => todo \subseteq Services /\ \A s \in Services \ todo : svc[s] = "stopped"
    /\ pc \in {"swapOut", "swapIn", "remove", "putBack"} => \A s \in Services : svc[s] = "stopped"
    /\ Settled \/ (pending /\ (table \/ \A s \in Services : svc[s] # "active"))

Reported ==
    /\ claim = "restored" => journal.phase = "committed" /\ evidence
    /\ claim = "recovered" => journal.phase = "rolled-back"
    /\ pc = "unmark" /\ goal \in {"promote", "settleNew"} => evidence
    /\ draft.timer \/ journal.timer => Managed
    /\ pc \in {"clean", "evidence", "unmark"} \/ claim \in {"restored", "recovered"} =>
           (journal.timer => timer)

Inv == TypeOK /\ Control /\ Fence /\ Phase /\ Progress /\ Guarded /\ Reported

-----------------------------------------------------------------------------
(* The layers, one lemma each: every step of the specification preserves it.*)

\* The Boolean variables stay Boolean.
LEMMA FlagsStep ==
    ASSUME TypeOK, [Next]_vars
    PROVE  FlagsOK'
<1> USE DEF TypeOK, FlagsOK
<1>1. CASE StartApply
  BY <1>1 DEF StartApply, Plan, HoldTimer, process, etc, run, data, report
<1>2. CASE StartRecover
  BY <1>2 DEF StartRecover, HoldTimer, process, etc, run, data, report
<1>3. CASE RecoverBusy
  <2>1. journal.timer \in BOOLEAN
    BY SMT DEF TypeOK, ValuesOK
  <2> QED
    BY Zenon, <1>3, <2>1 DEF RecoverBusy, etc
<1>4. CASE WriteMarker
  BY <1>4 DEF WriteMarker, Mark, Go, process, etc, run, data, report
<1>5. CASE WriteMarkerFails
  <2>1. draft.timer \in BOOLEAN
    BY SMT DEF TypeOK, ValuesOK
  <2>2. timer' \in BOOLEAN
    BY Zenon, <1>5, <2>1 DEF WriteMarkerFails
  <2>3. pending' \in BOOLEAN /\ record' \in BOOLEAN /\ evidence' \in BOOLEAN
    BY Zenon, <1>5 DEF WriteMarkerFails, Mark, etc
  <2> QED
    BY Zenon, <1>5, <2>2, <2>3 DEF WriteMarkerFails
<1>6. CASE WriteRecord
  BY <1>6 DEF WriteRecord, Go, process, etc, run, data, report
<1>7. CASE LoadTable
  BY <1>7 DEF LoadTable, Go, process, etc, run, data, report
<1>8. CASE Seal
  BY <1>8 DEF Seal, Go, process, etc, run, data, report
<1>9. CASE Stage
  BY <1>9 DEF Stage, process, etc, run, data, report
<1>10. ASSUME NEW s \in Services, Stop(s)
      PROVE  FlagsOK'
  BY <1>10 DEF Stop, Visit, process, etc, run, data, report
<1>11. ASSUME NEW s \in Services, Start(s)
      PROVE  FlagsOK'
  BY <1>11 DEF Start, Visit, GuardPasses, process, etc, run, data, report
<1>12. ASSUME NEW p \in Paths, SwapOut(p)
      PROVE  FlagsOK'
  BY <1>12 DEF SwapOut, Go, process, etc, run, data, report
<1>13. ASSUME NEW p \in Paths, SwapIn(p)
      PROVE  FlagsOK'
  BY <1>13 DEF SwapIn, Candidate, Visit, process, etc, run, data, report
<1>14. ASSUME NEW p \in Paths, Remove(p)
      PROVE  FlagsOK'
  BY <1>14 DEF Remove, Go, Visit, Kept, process, etc, run, data, report
<1>15. ASSUME NEW p \in Paths, PutBack(p)
      PROVE  FlagsOK'
  BY <1>15 DEF PutBack, Visit, process, etc, run, data, report
<1>16. CASE SaveValidating
  BY <1>16 DEF SaveValidating, Save, Go, process, etc, run, data, report
<1>17. CASE Commit
  BY <1>17 DEF Commit, Save, Go, process, etc, run, data, report
<1>18. CASE AllowValidation
  BY <1>18 DEF AllowValidation, AfterPermit, AfterVerify, ToStart, process, etc, run, data, report
<1>19. CASE Verify
  BY <1>19 DEF Verify, Go, AfterVerify, AllActive, process, etc, run, data, report
<1>20. CASE SaveRolledBack
  BY <1>20 DEF SaveRolledBack, Save, Go, process, etc, run, data, report
<1>21. CASE Withdraw
  BY <1>21 DEF Withdraw, Go, process, etc, run, data, report
<1>22. CASE Unfence
  BY <1>22 DEF Unfence, Go, process, etc, run, data, report
<1>23. CASE Release
  BY <1>23 DEF Release, Go, RecordGone, TimerBack, process, etc, run, data, report
<1>24. CASE Clean
  BY <1>24 DEF Clean, Go, process, etc, run, data, report
<1>25. CASE RecordEvidence
  BY <1>25 DEF RecordEvidence, Go, process, etc, run, data, report
<1>26. CASE Unmark
  BY <1>26 DEF Unmark, Return, process, etc, run, data, report
<1>27. CASE Branch
  BY <1>27 DEF Branch, Undecided, StartRollback, process, etc, run, data, report
<1>28. CASE Raise
  BY <1>28 DEF Raise, RaiseIsolating, RaisePromoting, RaiseCommitted, RaiseRollback, RaiseRecover, StartRollback, Return, process, etc, run, data, report
<1>29. CASE Interrupt
  BY <1>29 DEF Interrupt, Return, process, etc, run, data, report
<1>30. CASE Kill
  BY <1>30 DEF Kill, Return, process, etc, run, data, report
<1>31. CASE Reboot
  <2>1. PICK undone \in SUBSET unsynced :
            /\ pending' = (pending \/ "pending" \in undone)
            /\ record' = (record \/ "record" \in undone)
    BY Zenon, <1>31 DEF Reboot
  <2>2. pending' \in BOOLEAN /\ record' \in BOOLEAN
    BY Zenon, <2>1
  <2> QED
    BY Zenon, <1>31, <2>2, ManagedAssumption DEF Reboot
<1>32. ASSUME NEW s \in Services, ServiceCrash(s)
      PROVE  FlagsOK'
  BY <1>32 DEF ServiceCrash, process, etc, run, data, report
<1>33. ASSUME NEW s \in Services, AutoRestart(s)
      PROVE  FlagsOK'
  BY <1>33 DEF AutoRestart, GuardPasses, process, etc, run, data, report
<1>34. ASSUME NEW p \in Paths, ClientWrite(p)
      PROVE  FlagsOK'
  BY <1>34 DEF ClientWrite, Exposed, process, etc, run, data, report
<1>35. CASE UNCHANGED vars
  BY <1>35 DEF vars, process, etc, run, data, report
<1> QED
  BY <1>1, <1>2, <1>3, <1>4, <1>5, <1>6, <1>7, <1>8, <1>9, <1>10, <1>11, <1>12, <1>13, <1>14, <1>15, <1>16, <1>17, <1>18, <1>19, <1>20, <1>21, <1>22, <1>23, <1>24, <1>25, <1>26, <1>27, <1>28, <1>29, <1>30, <1>31, <1>32, <1>33, <1>34, <1>35
  DEF Next, Proceed, Environment

\* Every other variable keeps its type.
LEMMA ValuesStep ==
    ASSUME TypeOK, [Next]_vars
    PROVE  ValuesOK'
<1> USE DEF TypeOK, FlagsOK, ValuesOK, Goals, Phases, Content, Claims, Steps, Isolating, Promoting, Finishing
<1>1. CASE StartApply
  BY <1>1 DEF StartApply, Plan, HoldTimer, process, etc, run, data, report
<1>2. CASE StartRecover
  BY <1>2 DEF StartRecover, HoldTimer, process, etc, run, data, report
<1>3. CASE RecoverBusy
  BY <1>3 DEF RecoverBusy, process, etc, run, data, report
<1>4. CASE WriteMarker
  BY <1>4 DEF WriteMarker, Mark, Go, process, etc, run, data, report
<1>5. CASE WriteMarkerFails
  <2>1. CASE Mark
    BY <1>5, <2>1 DEF WriteMarkerFails, Mark, Return
  <2>2. CASE UNCHANGED <<etc, data, evidence>>
    BY <1>5, <2>2 DEF WriteMarkerFails, Return, etc, data
  <2> QED
    BY <1>5, <2>1, <2>2 DEF WriteMarkerFails
<1>6. CASE WriteRecord
  <2>1. UNCHANGED <<journal, op, goal, todo, draft, svc, live, old, claim>>
    BY Zenon, <1>6 DEF WriteRecord, Go, run, data, report
  <2>2. pc' \in {"seal", "table"} /\ unsynced' \in {unsynced, {}}
    BY Zenon, <1>6 DEF WriteRecord, Go
  <2> QED
    BY <2>1, <2>2
<1>7. CASE LoadTable
  BY <1>7 DEF LoadTable, Go, process, etc, run, data, report
<1>8. CASE Seal
  BY <1>8 DEF Seal, Go, process, etc, run, data, report
<1>9. CASE Stage
  BY <1>9 DEF Stage, process, etc, run, data, report
<1>10. ASSUME NEW s \in Services, Stop(s)
      PROVE  ValuesOK'
  BY <1>10 DEF Stop, Visit, process, etc, run, data, report
<1>11. ASSUME NEW s \in Services, Start(s)
      PROVE  ValuesOK'
  BY <1>11 DEF Start, Visit, GuardPasses, process, etc, run, data, report
<1>12. ASSUME NEW p \in Paths, SwapOut(p)
      PROVE  ValuesOK'
  BY <1>12 DEF SwapOut, Go, process, etc, run, data, report
<1>13. ASSUME NEW p \in Paths, SwapIn(p)
      PROVE  ValuesOK'
  BY <1>13 DEF SwapIn, Candidate, Visit, process, etc, run, data, report
<1>14. ASSUME NEW p \in Paths, Remove(p)
      PROVE  ValuesOK'
  BY <1>14 DEF Remove, Go, Visit, Kept, process, etc, run, data, report
<1>15. ASSUME NEW p \in Paths, PutBack(p)
      PROVE  ValuesOK'
  BY <1>15 DEF PutBack, Visit, process, etc, run, data, report
<1>16. CASE SaveValidating
  BY <1>16 DEF SaveValidating, Save, Go, process, etc, run, data, report
<1>17. CASE Commit
  BY <1>17 DEF Commit, Save, Go, process, etc, run, data, report
<1>18. CASE AllowValidation
  BY <1>18 DEF AllowValidation, AfterPermit, AfterVerify, ToStart, process, etc, run, data, report
<1>19. CASE Verify
  BY <1>19 DEF Verify, Go, AfterVerify, AllActive, process, etc, run, data, report
<1>20. CASE SaveRolledBack
  BY <1>20 DEF SaveRolledBack, Save, Go, process, etc, run, data, report
<1>21. CASE Withdraw
  BY <1>21 DEF Withdraw, Go, process, etc, run, data, report
<1>22. CASE Unfence
  BY <1>22 DEF Unfence, Go, process, etc, run, data, report
<1>23. CASE Release
  BY <1>23 DEF Release, Go, RecordGone, TimerBack, process, etc, run, data, report
<1>24. CASE Clean
  BY <1>24 DEF Clean, Go, process, etc, run, data, report
<1>25. CASE RecordEvidence
  BY <1>25 DEF RecordEvidence, Go, process, etc, run, data, report
<1>26. CASE Unmark
  BY <1>26 DEF Unmark, Return, process, etc, run, data, report
<1>27. CASE Branch
  BY <1>27 DEF Branch, Undecided, StartRollback, process, etc, run, data, report
<1>28. CASE Raise
  BY <1>28 DEF Raise, RaiseIsolating, RaisePromoting, RaiseCommitted, RaiseRollback, RaiseRecover, StartRollback, Return, process, etc, run, data, report
<1>29. CASE Interrupt
  BY <1>29 DEF Interrupt, Return, process, etc, run, data, report
<1>30. CASE Kill
  BY <1>30 DEF Kill, Return, process, etc, run, data, report
<1>31. CASE Reboot
  BY <1>31 DEF Reboot, Return, process, etc, run, data, report
<1>32. ASSUME NEW s \in Services, ServiceCrash(s)
      PROVE  ValuesOK'
  BY <1>32 DEF ServiceCrash, process, etc, run, data, report
<1>33. ASSUME NEW s \in Services, AutoRestart(s)
      PROVE  ValuesOK'
  BY <1>33 DEF AutoRestart, GuardPasses, process, etc, run, data, report
<1>34. ASSUME NEW p \in Paths, ClientWrite(p)
      PROVE  ValuesOK'
  BY <1>34 DEF ClientWrite, Exposed, process, etc, run, data, report
<1>35. CASE UNCHANGED vars
  BY <1>35 DEF vars, process, etc, run, data, report
<1> QED
  BY <1>1, <1>2, <1>3, <1>4, <1>5, <1>6, <1>7, <1>8, <1>9, <1>10, <1>11, <1>12, <1>13, <1>14, <1>15, <1>16, <1>17, <1>18, <1>19, <1>20, <1>21, <1>22, <1>23, <1>24, <1>25, <1>26, <1>27, <1>28, <1>29, <1>30, <1>31, <1>32, <1>33, <1>34, <1>35
  DEF Next, Proceed, Environment

\* The command, its goal and its next step stay in agreement.
LEMMA ControlStep ==
    ASSUME TypeOK, Control, [Next]_vars
    PROVE  Control'
<1> USE DEF Control, Steps, Isolating, Promoting, Finishing
<1>1. CASE StartApply
  BY <1>1 DEF StartApply, Plan, HoldTimer, process, etc, run, data, report
<1>2. CASE StartRecover
  BY <1>2 DEF StartRecover, HoldTimer, process, etc, run, data, report
<1>3. CASE RecoverBusy
  BY <1>3 DEF RecoverBusy, process, etc, run, data, report
<1>4. CASE WriteMarker
  BY <1>4 DEF WriteMarker, Mark, Go, process, etc, run, data, report
<1>5. CASE WriteMarkerFails
  BY <1>5 DEF WriteMarkerFails, Mark, Return, process, etc, run, data, report
<1>6. CASE WriteRecord
  BY <1>6 DEF WriteRecord, Go, process, etc, run, data, report
<1>7. CASE LoadTable
  BY <1>7 DEF LoadTable, Go, process, etc, run, data, report
<1>8. CASE Seal
  BY <1>8 DEF Seal, Go, process, etc, run, data, report
<1>9. CASE Stage
  BY <1>9 DEF Stage, process, etc, run, data, report
<1>10. ASSUME NEW s \in Services, Stop(s)
      PROVE  Control'
  BY <1>10 DEF Stop, Visit, process, etc, run, data, report
<1>11. ASSUME NEW s \in Services, Start(s)
      PROVE  Control'
  BY <1>11 DEF Start, Visit, GuardPasses, process, etc, run, data, report
<1>12. ASSUME NEW p \in Paths, SwapOut(p)
      PROVE  Control'
  BY <1>12 DEF SwapOut, Go, process, etc, run, data, report
<1>13. ASSUME NEW p \in Paths, SwapIn(p)
      PROVE  Control'
  BY <1>13 DEF SwapIn, Candidate, Visit, process, etc, run, data, report
<1>14. ASSUME NEW p \in Paths, Remove(p)
      PROVE  Control'
  BY <1>14 DEF Remove, Go, Visit, Kept, process, etc, run, data, report
<1>15. ASSUME NEW p \in Paths, PutBack(p)
      PROVE  Control'
  BY <1>15 DEF PutBack, Visit, process, etc, run, data, report
<1>16. CASE SaveValidating
  BY <1>16 DEF SaveValidating, Save, Go, process, etc, run, data, report
<1>17. CASE Commit
  BY <1>17 DEF Commit, Save, Go, process, etc, run, data, report
<1>18. CASE AllowValidation
  BY <1>18 DEF AllowValidation, AfterPermit, AfterVerify, ToStart, process, etc, run, data, report
<1>19. CASE Verify
  BY <1>19 DEF Verify, Go, AfterVerify, AllActive, process, etc, run, data, report
<1>20. CASE SaveRolledBack
  BY <1>20 DEF SaveRolledBack, Save, Go, process, etc, run, data, report
<1>21. CASE Withdraw
  BY <1>21 DEF Withdraw, Go, process, etc, run, data, report
<1>22. CASE Unfence
  BY <1>22 DEF Unfence, Go, process, etc, run, data, report
<1>23. CASE Release
  BY <1>23 DEF Release, Go, RecordGone, TimerBack, process, etc, run, data, report
<1>24. CASE Clean
  BY <1>24 DEF Clean, Go, process, etc, run, data, report
<1>25. CASE RecordEvidence
  BY <1>25 DEF RecordEvidence, Go, process, etc, run, data, report
<1>26. CASE Unmark
  BY <1>26 DEF Unmark, Return, process, etc, run, data, report
<1>27. CASE Branch
  BY <1>27 DEF Branch, Undecided, StartRollback, process, etc, run, data, report
<1>28. CASE Raise
  BY <1>28 DEF Raise, RaiseIsolating, RaisePromoting, RaiseCommitted, RaiseRollback, RaiseRecover, StartRollback, Return, process, etc, run, data, report
<1>29. CASE Interrupt
  BY <1>29 DEF Interrupt, Return, process, etc, run, data, report
<1>30. CASE Kill
  BY <1>30 DEF Kill, Return, process, etc, run, data, report
<1>31. CASE Reboot
  BY <1>31 DEF Reboot, Return, process, etc, run, data, report
<1>32. ASSUME NEW s \in Services, ServiceCrash(s)
      PROVE  Control'
  BY <1>32 DEF ServiceCrash, process, etc, run, data, report
<1>33. ASSUME NEW s \in Services, AutoRestart(s)
      PROVE  Control'
  BY <1>33 DEF AutoRestart, GuardPasses, process, etc, run, data, report
<1>34. ASSUME NEW p \in Paths, ClientWrite(p)
      PROVE  Control'
  BY <1>34 DEF ClientWrite, Exposed, process, etc, run, data, report
<1>35. CASE UNCHANGED vars
  BY <1>35 DEF vars, process, etc, run, data, report
<1> QED
  BY <1>1, <1>2, <1>3, <1>4, <1>5, <1>6, <1>7, <1>8, <1>9, <1>10, <1>11, <1>12, <1>13, <1>14, <1>15, <1>16, <1>17, <1>18, <1>19, <1>20, <1>21, <1>22, <1>23, <1>24, <1>25, <1>26, <1>27, <1>28, <1>29, <1>30, <1>31, <1>32, <1>33, <1>34, <1>35
  DEF Next, Proceed, Environment

\* The fence stands where the step needs it and never without a marker.
LEMMA FenceStep ==
    ASSUME TypeOK, Control, Fence, [Next]_vars
    PROVE  Fence'
<1> USE DEF Control, Fence, Steps, Isolating, Promoting, Finishing
<1>1. CASE StartApply
  BY <1>1 DEF StartApply, Plan, HoldTimer, process, etc, run, data, report
<1>2. CASE StartRecover
  BY <1>2 DEF StartRecover, HoldTimer, process, etc, run, data, report
<1>3. CASE RecoverBusy
  BY <1>3 DEF RecoverBusy, process, etc, run, data, report
<1>4. CASE WriteMarker
  BY <1>4 DEF WriteMarker, Mark, Go, process, etc, run, data, report
<1>5. CASE WriteMarkerFails
  BY <1>5 DEF WriteMarkerFails, Mark, Return, process, etc, run, data, report
<1>6. CASE WriteRecord
  BY <1>6 DEF WriteRecord, Go, process, etc, run, data, report
<1>7. CASE LoadTable
  BY <1>7 DEF LoadTable, Go, process, etc, run, data, report
<1>8. CASE Seal
  BY <1>8 DEF Seal, Go, process, etc, run, data, report
<1>9. CASE Stage
  BY <1>9 DEF Stage, process, etc, run, data, report
<1>10. ASSUME NEW s \in Services, Stop(s)
      PROVE  Fence'
  BY <1>10 DEF Stop, Visit, process, etc, run, data, report
<1>11. ASSUME NEW s \in Services, Start(s)
      PROVE  Fence'
  BY <1>11 DEF Start, Visit, GuardPasses, process, etc, run, data, report
<1>12. ASSUME NEW p \in Paths, SwapOut(p)
      PROVE  Fence'
  BY <1>12 DEF SwapOut, Go, process, etc, run, data, report
<1>13. ASSUME NEW p \in Paths, SwapIn(p)
      PROVE  Fence'
  BY <1>13 DEF SwapIn, Candidate, Visit, process, etc, run, data, report
<1>14. ASSUME NEW p \in Paths, Remove(p)
      PROVE  Fence'
  BY <1>14 DEF Remove, Go, Visit, Kept, process, etc, run, data, report
<1>15. ASSUME NEW p \in Paths, PutBack(p)
      PROVE  Fence'
  BY <1>15 DEF PutBack, Visit, process, etc, run, data, report
<1>16. CASE SaveValidating
  BY <1>16 DEF SaveValidating, Save, Go, process, etc, run, data, report
<1>17. CASE Commit
  BY <1>17 DEF Commit, Save, Go, process, etc, run, data, report
<1>18. CASE AllowValidation
  BY <1>18 DEF AllowValidation, AfterPermit, AfterVerify, ToStart, process, etc, run, data, report
<1>19. CASE Verify
  BY <1>19 DEF Verify, Go, AfterVerify, AllActive, process, etc, run, data, report
<1>20. CASE SaveRolledBack
  BY <1>20 DEF SaveRolledBack, Save, Go, process, etc, run, data, report
<1>21. CASE Withdraw
  BY <1>21 DEF Withdraw, Go, process, etc, run, data, report
<1>22. CASE Unfence
  BY <1>22 DEF Unfence, Go, process, etc, run, data, report
<1>23. CASE Release
  BY <1>23 DEF Release, Go, RecordGone, TimerBack, process, etc, run, data, report
<1>24. CASE Clean
  BY <1>24 DEF Clean, Go, process, etc, run, data, report
<1>25. CASE RecordEvidence
  BY <1>25 DEF RecordEvidence, Go, process, etc, run, data, report
<1>26. CASE Unmark
  BY <1>26 DEF Unmark, Return, process, etc, run, data, report
<1>27. CASE Branch
  BY <1>27 DEF Branch, Undecided, StartRollback, process, etc, run, data, report
<1>28. CASE Raise
  BY <1>28 DEF Raise, RaiseIsolating, RaisePromoting, RaiseCommitted, RaiseRollback, RaiseRecover, StartRollback, Return, process, etc, run, data, report
<1>29. CASE Interrupt
  BY <1>29 DEF Interrupt, Return, process, etc, run, data, report
<1>30. CASE Kill
  BY <1>30 DEF Kill, Return, process, etc, run, data, report
<1>31. CASE Reboot
  BY <1>31 DEF Reboot, Return, process, etc, run, data, report
<1>32. ASSUME NEW s \in Services, ServiceCrash(s)
      PROVE  Fence'
  BY <1>32 DEF ServiceCrash, process, etc, run, data, report
<1>33. ASSUME NEW s \in Services, AutoRestart(s)
      PROVE  Fence'
  BY <1>33 DEF AutoRestart, GuardPasses, process, etc, run, data, report
<1>34. ASSUME NEW p \in Paths, ClientWrite(p)
      PROVE  Fence'
  BY <1>34 DEF ClientWrite, Exposed, process, etc, run, data, report
<1>35. CASE UNCHANGED vars
  BY <1>35 DEF vars, process, etc, run, data, report
<1> QED
  BY <1>1, <1>2, <1>3, <1>4, <1>5, <1>6, <1>7, <1>8, <1>9, <1>10, <1>11, <1>12, <1>13, <1>14, <1>15, <1>16, <1>17, <1>18, <1>19, <1>20, <1>21, <1>22, <1>23, <1>24, <1>25, <1>26, <1>27, <1>28, <1>29, <1>30, <1>31, <1>32, <1>33, <1>34, <1>35
  DEF Next, Proceed, Environment

\* A command that finishes has decided.
LEMMA FinishingDecided ==
    ASSUME TypeOK, Control, Progress, pc \in Finishing
    PROVE  journal.phase \in {"committed", "rolled-back"}
BY DEF TypeOK, ValuesOK, Goals, Control, Progress, Steps, Isolating, Promoting, Finishing

\* Data that clients wrote belongs to a committed transaction.
LEMMA WritableCommitted ==
    ASSUME TypeOK, Guarded, Exposed, NEW p \in Paths, live[p] = "restored"
    PROVE  journal.phase = "committed"
BY DEF TypeOK, FlagsOK, Guarded, Settled, Exposed

\* The journal's phase stays true of the data.
LEMMA PhaseStep ==
    ASSUME TypeOK, Control, Phase, Progress, Guarded, [Next]_vars
    PROVE  Phase'
<1> USE DEF TypeOK, ValuesOK, Control, Phase, Progress, InPlace, Replaced, Undecided, Steps, Isolating, Promoting, Finishing
<1>1. CASE StartApply
  BY <1>1 DEF StartApply, Plan, HoldTimer, process, etc, run, data, report
<1>2. CASE StartRecover
  BY <1>2 DEF StartRecover, HoldTimer, process, etc, run, data, report
<1>3. CASE RecoverBusy
  BY <1>3 DEF RecoverBusy, process, etc, run, data, report
<1>4. CASE WriteMarker
  BY <1>4 DEF WriteMarker, Mark, Go, process, etc, run, data, report
<1>5. CASE WriteMarkerFails
  <2>1. CASE Mark
    BY <1>5, <2>1 DEF WriteMarkerFails, Mark, Return, TypeOK, ValuesOK
  <2>2. CASE UNCHANGED <<etc, data, evidence>>
    BY <1>5, <2>2 DEF WriteMarkerFails, Return, etc, data
  <2> QED
    BY <1>5, <2>1, <2>2 DEF WriteMarkerFails
<1>6. CASE WriteRecord
  BY <1>6 DEF WriteRecord, Go, process, etc, run, data, report
<1>7. CASE LoadTable
  BY <1>7 DEF LoadTable, Go, process, etc, run, data, report
<1>8. CASE Seal
  BY <1>8 DEF Seal, Go, process, etc, run, data, report
<1>9. CASE Stage
  BY <1>9 DEF Stage, process, etc, run, data, report
<1>10. ASSUME NEW s \in Services, Stop(s)
      PROVE  Phase'
  BY <1>10 DEF Stop, Visit, process, etc, run, data, report
<1>11. ASSUME NEW s \in Services, Start(s)
      PROVE  Phase'
  BY <1>11 DEF Start, Visit, GuardPasses, process, etc, run, data, report
<1>12. ASSUME NEW p \in Paths, SwapOut(p)
      PROVE  Phase'
  BY <1>12 DEF SwapOut, Go, process, etc, run, data, report
<1>13. ASSUME NEW p \in Paths, SwapIn(p)
      PROVE  Phase'
  BY <1>13 DEF SwapIn, Candidate, Visit, process, etc, run, data, report
<1>14. ASSUME NEW p \in Paths, Remove(p)
      PROVE  Phase'
  BY <1>14 DEF Remove, Go, Visit, Kept, process, etc, run, data, report
<1>15. ASSUME NEW p \in Paths, PutBack(p)
      PROVE  Phase'
  BY <1>15 DEF PutBack, Visit, process, etc, run, data, report
<1>16. CASE SaveValidating
  BY <1>16 DEF SaveValidating, Save, Go, process, etc, run, data, report
<1>17. CASE Commit
  BY <1>17 DEF Commit, Save, Go, process, etc, run, data, report
<1>18. CASE AllowValidation
  BY <1>18 DEF AllowValidation, AfterPermit, AfterVerify, ToStart, process, etc, run, data, report
<1>19. CASE Verify
  BY <1>19 DEF Verify, Go, AfterVerify, AllActive, process, etc, run, data, report
<1>20. CASE SaveRolledBack
  BY <1>20 DEF SaveRolledBack, Save, Go, process, etc, run, data, report
<1>21. CASE Withdraw
  BY <1>21 DEF Withdraw, Go, process, etc, run, data, report
<1>22. CASE Unfence
  BY <1>22 DEF Unfence, Go, process, etc, run, data, report
<1>23. CASE Release
  BY <1>23 DEF Release, Go, RecordGone, TimerBack, process, etc, run, data, report
<1>24. CASE Clean
  BY <1>24, FinishingDecided DEF Clean, Go, process, etc, run, data, report
<1>25. CASE RecordEvidence
  BY <1>25 DEF RecordEvidence, Go, process, etc, run, data, report
<1>26. CASE Unmark
  BY <1>26, FinishingDecided DEF Unmark, Return, process, etc, run, data, report
<1>27. CASE Branch
  BY <1>27 DEF Branch, Undecided, StartRollback, process, etc, run, data, report
<1>28. CASE Raise
  BY <1>28 DEF Raise, RaiseIsolating, RaisePromoting, RaiseCommitted, RaiseRollback, RaiseRecover, StartRollback, Return, process, etc, run, data, report
<1>29. CASE Interrupt
  BY <1>29 DEF Interrupt, Return, process, etc, run, data, report
<1>30. CASE Kill
  BY <1>30 DEF Kill, Return, process, etc, run, data, report
<1>31. CASE Reboot
  BY <1>31 DEF Reboot, Return, process, etc, run, data, report
<1>32. ASSUME NEW s \in Services, ServiceCrash(s)
      PROVE  Phase'
  BY <1>32 DEF ServiceCrash, process, etc, run, data, report
<1>33. ASSUME NEW s \in Services, AutoRestart(s)
      PROVE  Phase'
  BY <1>33 DEF AutoRestart, GuardPasses, process, etc, run, data, report
<1>34. ASSUME NEW p \in Paths, ClientWrite(p)
      PROVE  Phase'
  BY <1>34, WritableCommitted DEF ClientWrite, Exposed, process, etc, run, data, report
<1>35. CASE UNCHANGED vars
  BY <1>35 DEF vars, process, etc, run, data, report
<1> QED
  BY <1>1, <1>2, <1>3, <1>4, <1>5, <1>6, <1>7, <1>8, <1>9, <1>10, <1>11, <1>12, <1>13, <1>14, <1>15, <1>16, <1>17, <1>18, <1>19, <1>20, <1>21, <1>22, <1>23, <1>24, <1>25, <1>26, <1>27, <1>28, <1>29, <1>30, <1>31, <1>32, <1>33, <1>34, <1>35
  DEF Next, Proceed, Environment

\* The data is as far as the running command's step says.
LEMMA ProgressStep ==
    ASSUME TypeOK, Control, Phase, Progress, Guarded, [Next]_vars
    PROVE  Progress'
<1> USE DEF TypeOK, ValuesOK, Control, Phase, Progress, InPlace, Replaced, Undecided, Steps, Isolating, Promoting, Finishing
<1>1. CASE StartApply
  BY <1>1 DEF StartApply, Plan, HoldTimer, process, etc, run, data, report
<1>2. CASE StartRecover
  BY <1>2 DEF StartRecover, HoldTimer, process, etc, run, data, report
<1>3. CASE RecoverBusy
  BY <1>3 DEF RecoverBusy, process, etc, run, data, report
<1>4. CASE WriteMarker
  BY <1>4 DEF WriteMarker, Mark, Go, process, etc, run, data, report
<1>5. CASE WriteMarkerFails
  BY <1>5 DEF WriteMarkerFails, Mark, Return, process, etc, run, data, report
<1>6. CASE WriteRecord
  BY <1>6 DEF WriteRecord, Go, process, etc, run, data, report
<1>7. CASE LoadTable
  BY <1>7 DEF LoadTable, Go, process, etc, run, data, report
<1>8. CASE Seal
  BY <1>8 DEF Seal, Go, process, etc, run, data, report
<1>9. CASE Stage
  BY <1>9 DEF Stage, process, etc, run, data, report
<1>10. ASSUME NEW s \in Services, Stop(s)
      PROVE  Progress'
  BY <1>10 DEF Stop, Visit, process, etc, run, data, report
<1>11. ASSUME NEW s \in Services, Start(s)
      PROVE  Progress'
  BY <1>11 DEF Start, Visit, GuardPasses, process, etc, run, data, report
<1>12. ASSUME NEW p \in Paths, SwapOut(p)
      PROVE  Progress'
  BY <1>12 DEF SwapOut, Go, process, etc, run, data, report
<1>13. ASSUME NEW p \in Paths, SwapIn(p)
      PROVE  Progress'
  BY <1>13 DEF SwapIn, Candidate, Visit, process, etc, run, data, report
<1>14. ASSUME NEW p \in Paths, Remove(p)
      PROVE  Progress'
  BY <1>14 DEF Remove, Go, Visit, Kept, process, etc, run, data, report
<1>15. ASSUME NEW p \in Paths, PutBack(p)
      PROVE  Progress'
  BY <1>15 DEF PutBack, Visit, process, etc, run, data, report
<1>16. CASE SaveValidating
  BY <1>16 DEF SaveValidating, Save, Go, process, etc, run, data, report
<1>17. CASE Commit
  BY <1>17 DEF Commit, Save, Go, process, etc, run, data, report
<1>18. CASE AllowValidation
  BY <1>18 DEF AllowValidation, AfterPermit, AfterVerify, ToStart, process, etc, run, data, report
<1>19. CASE Verify
  BY <1>19 DEF Verify, Go, AfterVerify, AllActive, process, etc, run, data, report
<1>20. CASE SaveRolledBack
  BY <1>20 DEF SaveRolledBack, Save, Go, process, etc, run, data, report
<1>21. CASE Withdraw
  BY <1>21 DEF Withdraw, Go, process, etc, run, data, report
<1>22. CASE Unfence
  BY <1>22 DEF Unfence, Go, process, etc, run, data, report
<1>23. CASE Release
  BY <1>23 DEF Release, Go, RecordGone, TimerBack, process, etc, run, data, report
<1>24. CASE Clean
  BY <1>24, FinishingDecided DEF Clean, Go, process, etc, run, data, report
<1>25. CASE RecordEvidence
  BY <1>25 DEF RecordEvidence, Go, process, etc, run, data, report
<1>26. CASE Unmark
  BY <1>26, FinishingDecided DEF Unmark, Return, process, etc, run, data, report
<1>27. CASE Branch
  <2>1. CASE Undecided
    BY <1>27, <2>1 DEF Branch, StartRollback, etc, data
  <2>2. CASE ~Undecided
    <3>1. journal.phase \in {"committed", "rolled-back"}
      BY <1>27, <2>2 DEF Branch, Phases
    <3>2. op = "recover" /\ op' = op /\ pc' = "permit" /\ UNCHANGED <<journal, live, old>>
          /\ goal' = IF journal.phase = "committed" THEN "settleNew" ELSE "settleOld"
      BY <1>27, <2>2 DEF Branch, etc, data
    <3> QED
      BY <2>2, <3>1, <3>2
  <2> QED
    BY <2>1, <2>2
<1>28. CASE Raise
  BY <1>28 DEF Raise, RaiseIsolating, RaisePromoting, RaiseCommitted, RaiseRollback, RaiseRecover, StartRollback, Return, process, etc, run, data, report
<1>29. CASE Interrupt
  BY <1>29 DEF Interrupt, Return, process, etc, run, data, report
<1>30. CASE Kill
  BY <1>30 DEF Kill, Return, process, etc, run, data, report
<1>31. CASE Reboot
  BY <1>31 DEF Reboot, Return, process, etc, run, data, report
<1>32. ASSUME NEW s \in Services, ServiceCrash(s)
      PROVE  Progress'
  BY <1>32 DEF ServiceCrash, process, etc, run, data, report
<1>33. ASSUME NEW s \in Services, AutoRestart(s)
      PROVE  Progress'
  BY <1>33 DEF AutoRestart, GuardPasses, process, etc, run, data, report
<1>34. ASSUME NEW p \in Paths, ClientWrite(p)
      PROVE  Progress'
  BY <1>34, WritableCommitted DEF ClientWrite, Exposed, process, etc, run, data, report
<1>35. CASE UNCHANGED vars
  BY <1>35 DEF vars, process, etc, run, data, report
<1> QED
  BY <1>1, <1>2, <1>3, <1>4, <1>5, <1>6, <1>7, <1>8, <1>9, <1>10, <1>11, <1>12, <1>13, <1>14, <1>15, <1>16, <1>17, <1>18, <1>19, <1>20, <1>21, <1>22, <1>23, <1>24, <1>25, <1>26, <1>27, <1>28, <1>29, <1>30, <1>31, <1>32, <1>33, <1>34, <1>35
  DEF Next, Proceed, Environment

\* Unsettled data stays out of reach.
LEMMA GuardedStep ==
    ASSUME TypeOK, Control, Phase, Progress, Guarded, Fence, [Next]_vars
    PROVE  Guarded'
<1> USE DEF TypeOK, ValuesOK, Guarded, Settled, Fence, Control, Phase, Progress, InPlace, Replaced, Undecided, Steps, Isolating, Promoting, Finishing
<1>1. CASE StartApply
  BY <1>1 DEF StartApply, Plan, HoldTimer, process, etc, run, data, report
<1>2. CASE StartRecover
  BY <1>2 DEF StartRecover, HoldTimer, process, etc, run, data, report
<1>3. CASE RecoverBusy
  BY <1>3 DEF RecoverBusy, process, etc, run, data, report
<1>4. CASE WriteMarker
  BY <1>4 DEF WriteMarker, Mark, Go, process, etc, run, data, report
<1>5. CASE WriteMarkerFails
  BY <1>5 DEF WriteMarkerFails, Mark, Return, process, etc, run, data, report
<1>6. CASE WriteRecord
  BY <1>6 DEF WriteRecord, Go, process, etc, run, data, report
<1>7. CASE LoadTable
  BY <1>7 DEF LoadTable, Go, process, etc, run, data, report
<1>8. CASE Seal
  BY <1>8 DEF Seal, Go, process, etc, run, data, report
<1>9. CASE Stage
  BY <1>9 DEF Stage, process, etc, run, data, report
<1>10. ASSUME NEW s \in Services, Stop(s)
      PROVE  Guarded'
  BY <1>10 DEF Stop, Visit, process, etc, run, data, report
<1>11. ASSUME NEW s \in Services, Start(s)
      PROVE  Guarded'
  BY <1>11 DEF Start, Visit, GuardPasses, process, etc, run, data, report
<1>12. ASSUME NEW p \in Paths, SwapOut(p)
      PROVE  Guarded'
  BY <1>12 DEF SwapOut, Go, process, etc, run, data, report
<1>13. ASSUME NEW p \in Paths, SwapIn(p)
      PROVE  Guarded'
  BY <1>13 DEF SwapIn, Candidate, Visit, process, etc, run, data, report
<1>14. ASSUME NEW p \in Paths, Remove(p)
      PROVE  Guarded'
  BY <1>14 DEF Remove, Go, Visit, Kept, process, etc, run, data, report
<1>15. ASSUME NEW p \in Paths, PutBack(p)
      PROVE  Guarded'
  BY <1>15 DEF PutBack, Visit, process, etc, run, data, report
<1>16. CASE SaveValidating
  BY <1>16 DEF SaveValidating, Save, Go, process, etc, run, data, report
<1>17. CASE Commit
  BY <1>17 DEF Commit, Save, Go, process, etc, run, data, report
<1>18. CASE AllowValidation
  BY <1>18 DEF AllowValidation, AfterPermit, AfterVerify, ToStart, process, etc, run, data, report
<1>19. CASE Verify
  BY <1>19 DEF Verify, Go, AfterVerify, AllActive, process, etc, run, data, report
<1>20. CASE SaveRolledBack
  BY <1>20 DEF SaveRolledBack, Save, Go, process, etc, run, data, report
<1>21. CASE Withdraw
  BY <1>21 DEF Withdraw, Go, process, etc, run, data, report
<1>22. CASE Unfence
  <2>1. journal.phase \in {"committed", "rolled-back"}
    BY <1>22, FinishingDecided DEF Unfence
  <2>2. Settled
    BY <2>1
  <2> QED
    BY <1>22, <2>2 DEF Unfence, Go, etc, data
<1>23. CASE Release
  BY <1>23 DEF Release, Go, RecordGone, TimerBack, process, etc, run, data, report
<1>24. CASE Clean
  BY <1>24, FinishingDecided DEF Clean, Go, process, etc, run, data, report
<1>25. CASE RecordEvidence
  BY <1>25 DEF RecordEvidence, Go, process, etc, run, data, report
<1>26. CASE Unmark
  BY <1>26, FinishingDecided DEF Unmark, Return, process, etc, run, data, report
<1>27. CASE Branch
  BY <1>27 DEF Branch, Undecided, StartRollback, process, etc, run, data, report
<1>28. CASE Raise
  BY <1>28 DEF Raise, RaiseIsolating, RaisePromoting, RaiseCommitted, RaiseRollback, RaiseRecover, StartRollback, Return, process, etc, run, data, report
<1>29. CASE Interrupt
  BY <1>29 DEF Interrupt, Return, process, etc, run, data, report
<1>30. CASE Kill
  BY <1>30 DEF Kill, Return, process, etc, run, data, report
<1>31. CASE Reboot
  BY <1>31 DEF Reboot, Return, process, etc, run, data, report
<1>32. ASSUME NEW s \in Services, ServiceCrash(s)
      PROVE  Guarded'
  BY <1>32 DEF ServiceCrash, process, etc, run, data, report
<1>33. ASSUME NEW s \in Services, AutoRestart(s)
      PROVE  Guarded'
  BY <1>33 DEF AutoRestart, GuardPasses, process, etc, run, data, report
<1>34. ASSUME NEW p \in Paths, ClientWrite(p)
      PROVE  Guarded'
  BY <1>34, WritableCommitted DEF ClientWrite, Exposed, process, etc, run, data, report
<1>35. CASE UNCHANGED vars
  BY <1>35 DEF vars, process, etc, run, data, report
<1> QED
  BY <1>1, <1>2, <1>3, <1>4, <1>5, <1>6, <1>7, <1>8, <1>9, <1>10, <1>11, <1>12, <1>13, <1>14, <1>15, <1>16, <1>17, <1>18, <1>19, <1>20, <1>21, <1>22, <1>23, <1>24, <1>25, <1>26, <1>27, <1>28, <1>29, <1>30, <1>31, <1>32, <1>33, <1>34, <1>35
  DEF Next, Proceed, Environment

\* What was reported stays true.
LEMMA ReportedStep ==
    ASSUME TypeOK, Control, Phase, Progress, Guarded, Fence, Reported, [Next]_vars
    PROVE  Reported'
<1> USE DEF TypeOK, FlagsOK, ValuesOK, Reported, Fence, Control, Phase, Progress, InPlace, Replaced, Undecided, Steps, Isolating, Promoting, Finishing
<1>1. CASE StartApply
  BY <1>1 DEF StartApply, Plan, HoldTimer, process, etc, run, data, report
<1>2. CASE StartRecover
  BY <1>2 DEF StartRecover, HoldTimer, process, etc, run, data, report
<1>3. CASE RecoverBusy
  BY <1>3 DEF RecoverBusy, process, etc, run, data, report
<1>4. CASE WriteMarker
  BY <1>4 DEF WriteMarker, Mark, Go, process, etc, run, data, report
<1>5. CASE WriteMarkerFails
  BY <1>5 DEF WriteMarkerFails, Mark, Return, process, etc, run, data, report
<1>6. CASE WriteRecord
  BY <1>6 DEF WriteRecord, Go, process, etc, run, data, report
<1>7. CASE LoadTable
  BY <1>7 DEF LoadTable, Go, process, etc, run, data, report
<1>8. CASE Seal
  BY <1>8 DEF Seal, Go, process, etc, run, data, report
<1>9. CASE Stage
  BY <1>9 DEF Stage, process, etc, run, data, report
<1>10. ASSUME NEW s \in Services, Stop(s)
      PROVE  Reported'
  BY <1>10 DEF Stop, Visit, process, etc, run, data, report
<1>11. ASSUME NEW s \in Services, Start(s)
      PROVE  Reported'
  BY <1>11 DEF Start, Visit, GuardPasses, process, etc, run, data, report
<1>12. ASSUME NEW p \in Paths, SwapOut(p)
      PROVE  Reported'
  BY <1>12 DEF SwapOut, Go, process, etc, run, data, report
<1>13. ASSUME NEW p \in Paths, SwapIn(p)
      PROVE  Reported'
  BY <1>13 DEF SwapIn, Candidate, Visit, process, etc, run, data, report
<1>14. ASSUME NEW p \in Paths, Remove(p)
      PROVE  Reported'
  BY <1>14 DEF Remove, Go, Visit, Kept, process, etc, run, data, report
<1>15. ASSUME NEW p \in Paths, PutBack(p)
      PROVE  Reported'
  BY <1>15 DEF PutBack, Visit, process, etc, run, data, report
<1>16. CASE SaveValidating
  BY <1>16 DEF SaveValidating, Save, Go, process, etc, run, data, report
<1>17. CASE Commit
  BY <1>17 DEF Commit, Save, Go, process, etc, run, data, report
<1>18. CASE AllowValidation
  BY <1>18 DEF AllowValidation, AfterPermit, AfterVerify, ToStart, process, etc, run, data, report
<1>19. CASE Verify
  BY <1>19 DEF Verify, Go, AfterVerify, AllActive, process, etc, run, data, report
<1>20. CASE SaveRolledBack
  BY <1>20 DEF SaveRolledBack, Save, Go, process, etc, run, data, report
<1>21. CASE Withdraw
  BY <1>21 DEF Withdraw, Go, process, etc, run, data, report
<1>22. CASE Unfence
  BY <1>22 DEF Unfence, Go, process, etc, run, data, report
<1>23. CASE Release
  BY <1>23 DEF Release, Go, RecordGone, TimerBack, process, etc, run, data, report
<1>24. CASE Clean
  BY <1>24, FinishingDecided DEF Clean, Go, process, etc, run, data, report
<1>25. CASE RecordEvidence
  BY <1>25 DEF RecordEvidence, Go, process, etc, run, data, report
<1>26. CASE Unmark
  <2>2. UNCHANGED <<journal, draft, timer, evidence>> /\ pc' = "idle"
    BY <1>26 DEF Unmark, Return, run
  <2>3. CASE goal \in {"promote", "settleNew"}
    <3>1. claim' = "restored" /\ evidence /\ journal.phase = "committed"
      BY <1>26, <2>3 DEF Unmark
    <3> QED
      BY <1>26, <2>2, <3>1 DEF Unmark
  <2>4. CASE goal \notin {"promote", "settleNew"}
    <3>1. claim' = "recovered" /\ journal.phase = "rolled-back"
      BY <1>26, <2>4 DEF Unmark, Goals
    <3> QED
      BY <1>26, <2>2, <3>1 DEF Unmark
  <2> QED
    BY <2>3, <2>4
<1>27. CASE Branch
  BY <1>27 DEF Branch, Undecided, StartRollback, process, etc, run, data, report
<1>28. CASE Raise
  BY <1>28 DEF Raise, RaiseIsolating, RaisePromoting, RaiseCommitted, RaiseRollback, RaiseRecover, StartRollback, Return, process, etc, run, data, report
<1>29. CASE Interrupt
  BY <1>29 DEF Interrupt, Return, process, etc, run, data, report
<1>30. CASE Kill
  BY <1>30 DEF Kill, Return, process, etc, run, data, report
<1>31. CASE Reboot
  BY <1>31 DEF Reboot, Return, process, etc, run, data, report
<1>32. ASSUME NEW s \in Services, ServiceCrash(s)
      PROVE  Reported'
  BY <1>32 DEF ServiceCrash, process, etc, run, data, report
<1>33. ASSUME NEW s \in Services, AutoRestart(s)
      PROVE  Reported'
  BY <1>33 DEF AutoRestart, GuardPasses, process, etc, run, data, report
<1>34. ASSUME NEW p \in Paths, ClientWrite(p)
      PROVE  Reported'
  BY <1>34, WritableCommitted DEF ClientWrite, Exposed, process, etc, run, data, report
<1>35. CASE UNCHANGED vars
  BY <1>35 DEF vars, process, etc, run, data, report
<1> QED
  BY <1>1, <1>2, <1>3, <1>4, <1>5, <1>6, <1>7, <1>8, <1>9, <1>10, <1>11, <1>12, <1>13, <1>14, <1>15, <1>16, <1>17, <1>18, <1>19, <1>20, <1>21, <1>22, <1>23, <1>24, <1>25, <1>26, <1>27, <1>28, <1>29, <1>30, <1>31, <1>32, <1>33, <1>34, <1>35
  DEF Next, Proceed, Environment

-----------------------------------------------------------------------------
(* Invariance.                                                             *)

LEMMA InitInv == Init => Inv
<1> SUFFICES ASSUME Init PROVE Inv
  OBVIOUS
<1>1. FlagsOK
  BY Zenon, ManagedAssumption DEF Init, FlagsOK
<1>2. ValuesOK
  BY DEF Init, ValuesOK, Goals, Steps, Phases, Content, Claims
<1>3. Control /\ Fence
  BY DEF Init, Control, Fence, Steps, Isolating, Promoting, Finishing
<1>4. Phase /\ Progress /\ Guarded
  BY DEF Init, Phase, Progress, Guarded, Settled, Undecided, Isolating, Promoting, Finishing
<1>5. Reported
  BY DEF Init, Reported
<1> QED
  BY <1>1, <1>2, <1>3, <1>4, <1>5 DEF Inv, TypeOK

LEMMA InvStep == Inv /\ [Next]_vars => Inv'
BY FlagsStep, ValuesStep, ControlStep, FenceStep, PhaseStep, ProgressStep, GuardedStep,
   ReportedStep DEF Inv, TypeOK

\* Every reachable state satisfies the layered invariant.
THEOREM Invariance == Spec => []Inv
BY InitInv, InvStep, PTL DEF Spec

\* The variables keep their types, for any services and paths.
THEOREM TypeCorrect == Spec => []TypeOK
<1>1. Inv => TypeOK
  BY DEF Inv
<1> QED
  BY Invariance, <1>1, PTL

\* No fence is left without the marker that lets recover remove it.
THEOREM FenceIsOwned == Spec => []FenceOwned
<1>1. Inv => FenceOwned
  BY DEF Inv, Fence, FenceOwned
<1> QED
  BY Invariance, <1>1, PTL

\* Clients reach all the original data, or all the committed restored data.
THEOREM ServesOnlyDecided == Spec => []ServedDecided
<1>1. Inv => ServedDecided
  BY DEF Inv, TypeOK, FlagsOK, Guarded, Settled, Replaced, Exposed, ServedDecided
<1> QED
  BY Invariance, <1>1, PTL

\* The original of every path is there until the transaction is decided.
THEOREM RetainsOriginal == Spec => []OriginalRetained
<1>1. Inv => OriginalRetained
  BY DEF Inv, Phase, InPlace, Undecided, OriginalRetained
<1> QED
  BY Invariance, <1>1, PTL

\* A reported success is the durable truth.
THEOREM ClaimsAreTrue == Spec => []ClaimHonest
<1>1. Inv => ClaimHonest
  BY DEF Inv, Phase, Replaced, Reported, ClaimHonest
<1> QED
  BY Invariance, <1>1, PTL

-----------------------------------------------------------------------------
(* What a step may never do.                                               *)

\* A step that changes a path is a rename or a removal under stopped services,
\* a client's write, or the marker's.
LEMMA LiveChanges ==
    ASSUME Inv, [Next]_vars, NEW p \in Paths, live'[p] # live[p]
    PROVE  \/ pc = "marker" /\ ~pending /\ pending'
           \/ pc \in {"swapOut", "swapIn", "remove", "putBack"}
           \/ live[p] = "restored" /\ live'[p] = "edited"
<1> USE DEF Inv, TypeOK, ValuesOK
<1>1. CASE WriteMarker \/ WriteMarkerFails
  BY <1>1 DEF WriteMarker, WriteMarkerFails, Mark, Control, etc, data
<1>2. CASE \E q \in Paths : SwapOut(q) \/ SwapIn(q) \/ Remove(q) \/ PutBack(q)
  BY <1>2 DEF SwapOut, SwapIn, Candidate, Remove, PutBack
<1>3. CASE \E q \in Paths : ClientWrite(q)
  BY <1>3 DEF ClientWrite
<1>4. CASE UNCHANGED live
  BY <1>4
<1> QED
  BY <1>1, <1>2, <1>3, <1>4
  DEF Next, Proceed, Environment, vars, data, StartApply, Plan, HoldTimer, StartRecover, RecoverBusy, WriteRecord,
      LoadTable, Seal, Stage, Stop, Start, SaveValidating, Commit, AllowValidation, Verify,
      SaveRolledBack, Withdraw, Unfence, Release, Clean, RecordEvidence, Unmark, Branch, Raise,
      Interrupt, Kill, Reboot, ServiceCrash, AutoRestart

\* Directories are renamed and removed only under services that are all down.
THEOREM MovesUnderStopped == Spec => MovedWhileDown
<1>1. Inv /\ [Next]_vars => [DownOrWritten]_vars
  <2> SUFFICES ASSUME Inv, [Next]_vars, NEW p \in Paths, live'[p] # live[p]
               PROVE  \/ \A s \in Services : svc[s] # "active"
                      \/ live'[p] = "edited"
                      \/ pc = "marker"
    BY DEF DownOrWritten
  <2> QED
    BY LiveChanges DEF Inv, Guarded
<1> QED
  BY Invariance, <1>1, PTL DEF Spec, MovedWhileDown

\* What clients wrote stays until a later transaction takes it over.
THEOREM KeepsEdits == Spec => EditsKept
<1>1. Inv /\ [Next]_vars => [KeptOrTaken]_vars
  <2> SUFFICES ASSUME Inv, [Next]_vars, NEW p \in Paths, live[p] = "edited", live'[p] # "edited"
               PROVE  ~pending /\ pending' /\ pc = "marker"
    BY DEF KeptOrTaken
  <2>1. ~Undecided
    BY DEF Inv, Phase
  <2>2. pc \notin {"swapOut", "swapIn", "remove", "putBack"}
    BY <2>1 DEF Inv, Control, Progress, Undecided, Finishing
  <2> QED
    BY LiveChanges, <2>2
<1> QED
  BY Invariance, <1>1, PTL DEF Spec, EditsKept

-----------------------------------------------------------------------------
(* The transaction implements FencedSwitch.                                *)

\* Clients see the copy of record or nothing.
LEMMA ShowsRecord ==
    ASSUME Inv
    PROVE  Shown = IF Exposed THEN {CopyOfRecord} ELSE {}
<1>1. CASE Exposed
  <2>1. \A p \in Paths : CopyAt(p) = CopyOfRecord
    BY <1>1 DEF Inv, TypeOK, FlagsOK, Guarded, Settled, Phase, Replaced, Exposed, CopyAt, CopyOfRecord
  <2> QED
    BY <1>1, <2>1, PathsAssumption DEF Shown
<1>2. CASE ~Exposed
  BY <1>2 DEF Shown
<1> QED
  BY <1>1, <1>2

LEMMA Visibility ==
    ASSUME Inv, Inv', UNCHANGED <<pending, CopyOfRecord, Edited>>
    PROVE  [Switch!Next]_(Switch!vars)
<1>1. Shown = IF Exposed THEN {CopyOfRecord} ELSE {}
  BY ShowsRecord
<1>2. (Shown = IF Exposed THEN {CopyOfRecord} ELSE {})'
  BY ShowsRecord, PTL
<1>3. \/ Shown' = Shown
      \/ Shown # {} /\ Shown' = {}
      \/ Shown = {} /\ Shown' = {CopyOfRecord}
  BY <1>1, <1>2
<1> QED
  BY <1>3 DEF Switch!Next, Switch!Hide, Switch!Show, Switch!vars

\* Nobody has written before the decision.
LEMMA NoEdits ==
    ASSUME Inv, Undecided
    PROVE  Edited = {} /\ CopyOfRecord = "original"
BY DEF Inv, Phase, Undecided, Edited, CopyOfRecord

LEMMA BeginStep ==
    ASSUME Inv, Inv', pc = "marker", Mark, UNCHANGED <<table, svc>>
    PROVE  Switch!Next
<1>1. ~pending /\ pending'
  BY DEF Inv, Control, Mark
<1>2. CopyOfRecord' = "original" /\ Edited' = {}
  BY DEF Mark, CopyOfRecord, Edited
<1>3. Exposed' = Exposed
  BY DEF Exposed
<1>4. Shown = IF Exposed THEN {CopyOfRecord} ELSE {}
  BY ShowsRecord
<1>5. (Shown = IF Exposed THEN {CopyOfRecord} ELSE {})'
  BY ShowsRecord, PTL
<1>6. Shown' = IF Shown = {} THEN {} ELSE {"original"}
  BY <1>2, <1>3, <1>4, <1>5
<1> QED
  BY <1>1, <1>2, <1>6 DEF Switch!Next, Switch!Begin

LEMMA SwitchStep ==
    ASSUME Inv, Inv', [Next]_vars
    PROVE  [Switch!Next]_(Switch!vars)
<1>0. Shown = IF Exposed THEN {CopyOfRecord} ELSE {}
  BY ShowsRecord
<1>00. (Shown = IF Exposed THEN {CopyOfRecord} ELSE {})'
  BY ShowsRecord, PTL
<1>1. CASE UNCHANGED <<pending, journal, live>>
  <2>1. UNCHANGED <<pending, CopyOfRecord, Edited>>
    BY <1>1 DEF CopyOfRecord, Edited
  <2> QED
    BY <2>1, Visibility
<1>2. CASE WriteMarker \/ WriteMarkerFails
  <2>1. CASE Mark
    BY <1>2, <2>1, BeginStep DEF WriteMarker, WriteMarkerFails, run
  <2>2. CASE UNCHANGED <<pending, journal, live>>
    BY <1>1, <2>2
  <2> QED
    BY <1>2, <2>1, <2>2 DEF WriteMarker, WriteMarkerFails, etc, data
<1>3. CASE \E p \in Paths : SwapOut(p) \/ SwapIn(p) \/ Remove(p) \/ PutBack(p)
  <2>1. UNCHANGED <<pending, journal>>
    BY <1>3 DEF SwapOut, SwapIn, Candidate, Remove, PutBack, etc
  <2>2. Undecided
    BY <1>3 DEF SwapOut, SwapIn, Candidate, Remove, PutBack, Inv, Control, Progress, Undecided, Finishing
  <2>3. Undecided'
    BY <2>1, <2>2 DEF Undecided
  <2>4. (Edited = {} /\ CopyOfRecord = "original")'
    BY <2>3, NoEdits, PTL
  <2>5. UNCHANGED <<pending, CopyOfRecord, Edited>>
    BY <2>1, <2>2, <2>4, NoEdits
  <2> QED
    BY <2>5, Visibility
<1>4. CASE SaveValidating \/ SaveRolledBack
  <2>1. UNCHANGED <<pending, live>> /\ journal'.phase # "committed"
    BY <1>4 DEF SaveValidating, SaveRolledBack, Save, Inv, TypeOK, ValuesOK, data
  <2>2. journal.phase # "committed"
    BY <1>4 DEF SaveValidating, SaveRolledBack, Inv, Control, Progress, Undecided, Finishing
  <2>3. UNCHANGED <<pending, CopyOfRecord, Edited>>
    BY <2>1, <2>2 DEF CopyOfRecord, Edited
  <2> QED
    BY <2>3, Visibility
<1>5. CASE Commit
  <2>1. table /\ table' /\ pending /\ pending' /\ Undecided
    BY <1>5 DEF Commit, Go, Inv, Control, Fence, Progress, run, Steps, Isolating, Promoting, Finishing
  <2>2. CopyOfRecord = "original" /\ CopyOfRecord' = "replacement"
    BY <1>5, <2>1 DEF Commit, Save, Undecided, CopyOfRecord, Inv, TypeOK, ValuesOK
  <2>3. Edited' = Edited
    BY <1>5 DEF Commit, data, Edited
  <2>4. Shown = {} /\ Shown' = {}
    BY <2>1 DEF Shown, Exposed
  <2>5. pending' = pending
    BY <1>5 DEF Commit
  <2> QED
    BY <2>1, <2>2, <2>3, <2>4, <2>5 DEF Switch!Next, Switch!Switch
<1>6. CASE Unmark
  <2>1. pending /\ ~pending' /\ UNCHANGED <<journal, live, table, svc>>
    BY <1>6 DEF Unmark, Inv, Control, data, run
  <2>2. UNCHANGED <<CopyOfRecord, Edited, Shown>>
    BY <2>1 DEF CopyOfRecord, Edited, Shown, Exposed, CopyAt
  <2> QED
    BY <1>6, <2>1, <2>2 DEF Unmark, Switch!Next, Switch!End
<1>7. CASE Reboot
  <2>1. UNCHANGED <<CopyOfRecord, Edited>>
    BY <1>7 DEF Reboot, data, CopyOfRecord, Edited
  <2>2. pending' => Shown' = {}
    BY <1>7 DEF Reboot, Shown, Exposed
  <2>3. pending' = pending \/ (~pending /\ pending' = TRUE)
    BY Zenon, <1>7 DEF Reboot, Inv, TypeOK, FlagsOK
  <2>4. CASE pending' = pending
    BY <2>1, <2>4, Visibility
  <2>5. CASE ~pending /\ pending' = TRUE
    BY <2>1, <2>2, <2>5 DEF Switch!Next, Switch!Resume
  <2> QED
    BY <2>3, <2>4, <2>5
<1>8. CASE \E p \in Paths : ClientWrite(p)
  <2> PICK p \in Paths : ClientWrite(p)
    BY <1>8
  <2>1. journal.phase = "committed"
    BY WritableCommitted DEF ClientWrite, Inv
  <2>2. UNCHANGED <<pending, journal, table, svc>>
    BY DEF ClientWrite, etc, run
  <2>3. Edited' \subseteq Paths /\ Edited \subseteq Edited'
    BY DEF ClientWrite, Edited, Inv, TypeOK, ValuesOK
  <2>4. Exposed /\ Exposed'
    BY <2>2 DEF ClientWrite, Exposed
  <2>5. CopyOfRecord = "replacement" /\ CopyOfRecord' = "replacement"
    BY <2>1, <2>2 DEF CopyOfRecord
  <2>6. Shown = {"replacement"} /\ Shown' = Shown
    BY <1>0, <1>00, <2>4, <2>5
  <2> QED
    BY <2>2, <2>3, <2>5, <2>6 DEF Switch!Next, Switch!Edit
<1> QED
  BY <1>1, <1>2, <1>3, <1>4, <1>5, <1>6, <1>7, <1>8
  DEF Next, Proceed, Environment, vars, etc, data, StartApply, Plan, HoldTimer, StartRecover, RecoverBusy,
      WriteRecord, LoadTable, Seal, Stage, Stop, Start, AllowValidation, Verify, Withdraw, Unfence,
      Release, Clean, RecordEvidence, Branch, Raise, Interrupt, Kill, ServiceCrash, AutoRestart

\* The restore transaction implements the fenced switch.
THEOREM Implements == Spec => ImplementsSwitch
<1>1. Init => Switch!Init
  BY PathsAssumption DEF Init, Switch!Init, CopyOfRecord, Edited, Shown, Exposed, CopyAt
<1>2. Inv /\ Inv' /\ [Next]_vars => [Switch!Next]_(Switch!vars)
  BY SwitchStep
<1> QED
  BY Invariance, <1>1, <1>2, PTL DEF Spec, ImplementsSwitch, Switch!Spec
=============================================================================
