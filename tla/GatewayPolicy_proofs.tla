------------------------ MODULE GatewayPolicy_proofs ------------------------
(***************************************************************************)
(* Proofs that hold for any agreements, any times and any bounds.  The     *)
(* invariant Inv is a conjunction of layers; each layer is preserved on    *)
(* its own, given the layers above it.                                     *)
(***************************************************************************)
EXTENDS GatewayProperties, TLAPS

Restoring == {"restore", "rollback"}

\* The steps of each command, and what excludes what: a restore runs under its
\* marker, a change under its intent, and never both.
Control ==
    /\ op = "none" <=> pc = "idle"
    /\ op = "change" => pc \in {"close", "validate", "commit", "install", "restart", "await",
                                "review", "open", "finish"}
    /\ op \in {"certificate", "previous"} => pc \in {"close", "restart", "await", "clear", "reopen"}
    /\ op = "restore" => pc \in {"suspend", "close", "stage", "quiesce", "swap", "start",
                                 "await", "finish"}
    /\ op = "rollback" => pc \in {"quiesce", "putBack", "start", "await", "finish"}
    /\ op \in Restoring => restoring
    /\ op \in {"change", "certificate", "previous"} => ~restoring
    /\ restoring => pending = None
    /\ op = "change" => pending # None
    /\ op = "change" /\ pc \in {"install", "restart", "await", "review", "open", "finish"} =>
           pending = policy
    /\ aside # Nothing => restoring
    /\ op = "restore" /\ pc \in {"suspend", "close", "stage"} =>
           aside = Nothing /\ policy.generation < MaxGeneration /\ snapshot # None
    /\ op = "restore" /\ pc \in {"quiesce", "swap"} => aside # Nothing

\* No policy that may still come into force knows less of the revocations.
History ==
    /\ pending # None => policy.revoked \subseteq pending.revoked
    /\ snapshot # None => snapshot.policy.revoked \subseteq policy.revoked
    /\ aside # Nothing => aside.policy.revoked = policy.revoked

Selected(p) == p.agreements \ p.revoked

\* The unit runs what the policy selects, except between the commit of a change
\* and the restart that follows it.
InForce == pending = None \/ (op = "change" /\ pc \in {"await", "review", "open", "finish"})

Routing ==
    /\ serving # {} => unit = "up"
    /\ op \in Restoring /\ pc \in {"swap", "putBack", "start"} => unit = "down"
    /\ InForce /\ unit \in {"loaded", "opening", "launching"} => config \subseteq Selected(policy)
    /\ InForce => serving \subseteq Selected(policy)

\* A review that is due keeps the firewall shut once the restore has stopped the
\* unit: no start that is under way can still open it.
UnderReview ==
    review /\ (~restoring \/ (op \in Restoring /\ pc \in {"swap", "putBack", "start", "await", "finish"}))

Closed ==
    /\ UnderReview => firewall = Shut /\ unit # "opening"
    /\ ~review => \A a \in Agreements : firewall[a] > 0 => Fresh(a)

Inv == TypeOK /\ Control /\ History /\ Routing /\ Closed

-----------------------------------------------------------------------------
(* Types.                                                                  *)

\* The greatest of five times is one of them.
LEMMA Greatest ==
    ASSUME NEW a \in Nat, NEW b \in Nat, NEW c \in Nat, NEW d \in Nat, NEW e \in Nat
    PROVE  AtLeast({a, b, c, d, e}) \in {a, b, c, d, e}
           /\ \A t \in {a, b, c, d, e} : t <= AtLeast({a, b, c, d, e})
<1>1. \E t \in {a, b, c, d, e} : \A u \in {a, b, c, d, e} : u <= t
  <2>1. PICK m \in {a, b} : a <= m /\ b <= m
    OBVIOUS
  <2>2. PICK n \in {m, c} : m <= n /\ c <= n
    BY <2>1
  <2>3. PICK k \in {n, d} : n <= k /\ d <= k
    BY <2>1, <2>2
  <2>4. PICK t \in {k, e} : k <= t /\ e <= t
    BY <2>1, <2>2, <2>3
  <2> QED
    BY <2>1, <2>2, <2>3, <2>4
<1> QED
  BY <1>1 DEF AtLeast

\* What the firewall is told is of its type.
LEMMA EntriesType ==
    ASSUME NEW p, TimesOK
    PROVE  Entries(p) \in [Agreements -> Nat]
  BY BoundsAssumption, AgreementsAssumption DEF Entries, TimesOK, Times

\* What the proxy is told to route is selected by the policy.
LEMMA PeersSelected ==
    ASSUME NEW p
    PROVE  Peers(p) \subseteq Selected(p)
  BY DEF Peers, Selected

\* A candidate is a policy.
LEMMA CandidatePolicy ==
    ASSUME policy \in Policies, policy.generation < MaxGeneration,
           NEW S \in SUBSET Agreements, NEW R \in SUBSET Agreements
    PROVE  Candidate(S, R) \in Policies
<1>1. policy.generation + 1 \in 0..MaxGeneration
  BY BoundsAssumption DEF Policies
<1> QED
  BY <1>1 DEF Candidate, Policies

\* A restored policy keeps the revocations of both histories.
LEMMA MergedPolicy ==
    ASSUME NEW saved \in Policies, policy \in Policies, policy.generation < MaxGeneration
    PROVE  Merge(saved) \in Policies /\ Merge(saved).revoked = policy.revoked \union saved.revoked
<1> DEFINE g == policy.generation + 1
           r == policy.revoked \union saved.revoked
<1>1. g \in 0..MaxGeneration /\ r \in SUBSET Agreements
  BY BoundsAssumption DEF Policies
<1> HIDE DEF g, r
<1>2. [saved EXCEPT !.generation = g, !.revoked = r] \in Policies
  BY <1>1 DEF Policies
<1>3. [saved EXCEPT !.generation = g, !.revoked = r].revoked = r
  BY DEF Policies
<1> QED
  BY <1>2, <1>3 DEF Merge, g, r

\* The floor a suspension sets, and the clock a candidate gets.
LEMMA FloorRises ==
    ASSUME TimesOK, PoliciesOK, snapshot # None
    PROVE  /\ AtLeast({wall, latest, floor, snapshot.latest, snapshot.floor}) \in floor..MaxTime
           /\ AtLeast({latest, snapshot.latest, floor}) \in 0..MaxTime
<1>1. snapshot.latest \in 0..MaxTime /\ snapshot.floor \in 0..MaxTime
  BY DEF PoliciesOK, Snapshots
<1>2. wall \in Nat /\ latest \in Nat /\ floor \in Nat /\ snapshot.latest \in Nat /\ snapshot.floor \in Nat
  BY <1>1, BoundsAssumption DEF TimesOK, Times
<1>3. \A t \in {wall, latest, floor, snapshot.latest, snapshot.floor} : t <= MaxTime
  BY <1>1, BoundsAssumption DEF TimesOK, Times
<1>4. {latest, snapshot.latest, floor} = {latest, snapshot.latest, floor, floor, floor}
  OBVIOUS
<1>5. AtLeast({wall, latest, floor, snapshot.latest, snapshot.floor}) \in floor..MaxTime
  <2> DEFINE S == {wall, latest, floor, snapshot.latest, snapshot.floor}
  <2>1. AtLeast(S) \in S /\ \A t \in S : t <= AtLeast(S)
    BY <1>2, Greatest
  <2>2. S \subseteq Nat /\ floor \in S /\ \A t \in S : t <= MaxTime
    BY <1>2, <1>3
  <2> QED
    BY <2>1, <2>2, BoundsAssumption
<1>6. AtLeast({latest, snapshot.latest, floor, floor, floor}) \in {latest, snapshot.latest, floor}
  BY <1>2, Greatest
<1> QED
  BY <1>1, <1>4, <1>5, <1>6, BoundsAssumption DEF TimesOK

\* The flags stay Boolean.
LEMMA FlagsStep ==
    ASSUME FlagsOK, [Next]_vars
    PROVE  FlagsOK'
<1> USE DEF FlagsOK
<1>1. CASE ChangeReviews
  BY <1>1 DEF ChangeReviews, At, Then, clock, restore, proxy
<1>2. CASE StartCertificate
  BY <1>2 DEF StartCertificate, Begin, clock, restore, proxy
<1>3. CASE CertificateClears
  BY <1>3 DEF CertificateClears, Then, clock, restore, proxy
<1>4. CASE CertificateFails
  BY <1>4 DEF CertificateFails, Return, Close, clock, restore, proxy
<1>5. CASE StartRestore
  BY <1>5 DEF StartRestore, Begin, clock, store, restore, proxy
<1>6. CASE Suspend
  BY <1>6 DEF Suspend, At, Then, clock, restore, proxy
<1>7. CASE Quiesce
  BY <1>7 DEF Quiesce, Then, Halt, Close, clock, store, restore
<1>8. CASE StartUnits
  BY <1>8 DEF StartUnits, Then, Halt, Close, clock, store, restore
<1>9. CASE RestoreFinishes
  BY <1>9 DEF RestoreFinishes, Return, clock, store, restore, proxy
<1>10. CASE Reboot
  BY <1>10 DEF Reboot, Return, Halt, Close, clock, store, restore
<1>11. CASE UNCHANGED <<certIntent, review, restoring, guardTimer>>
  BY <1>11 DEF FlagsOK
<1> QED
  BY <1>1, <1>2, <1>3, <1>4, <1>5, <1>6, <1>7, <1>8, <1>9, <1>10, <1>11
  DEF Next, Request, Proceed, Fail, UnitRuns, SelectPolicy, Revoke, Resume, Capture, Recover,
      ChangeCloses, ChangeValidates, ChangeCommits, ChangeInstalls, Restarts, Awaits, ChangeOpens,
      ChangeFinishes, CertificateCloses, CertificateReopens, RestoreCloses, Stage, Swap, PutBack,
      ChangeFails, CertificateReturns, RestoreFails, UnitStarts, UnitLoads, UnitChecks, UnitOpens,
      UnitLaunches, AutoRestart, UnitFails, Guard, Tick, Kill, StartChange, SetClock, At, Begin,
      Close, Exchange, Halt, Merge, NothingPending, Open, Openable, Recheck, Restart, Return,
      Then, vars, clock, store, restore, command, proxy

\* The clocks and the floor stay within the bound.
LEMMA TimesStep ==
    ASSUME TimesOK, PoliciesOK, Control, [Next]_vars
    PROVE  TimesOK'
<1> USE DEF TimesOK, Times
<1>1. CASE ChangeValidates
  BY <1>1 DEF ChangeValidates, At, Then, store, restore, proxy
<1>2. CASE ChangeOpens
  BY <1>2 DEF ChangeOpens, At, Then, Openable, Open, store, restore, proxy
<1>3. CASE CertificateReopens
  BY <1>3 DEF CertificateReopens, Return, Close, Openable, Open, store, restore, proxy
<1>4. CASE UnitStarts
  BY <1>4 DEF UnitStarts, Close, store, restore, command
<1>5. CASE Guard
  BY <1>5 DEF Guard, Recheck, Openable, Open, Close, store, restore, command, proxy
<1>6. CASE Suspend
  <2>1. snapshot # None /\ UNCHANGED <<wall, latest>>
    BY <1>6 DEF Suspend, At, Control, clock
  <2>2. floor' \in floor..MaxTime
    BY <1>6, <2>1, FloorRises DEF Suspend
  <2> QED
    BY <2>1, <2>2, BoundsAssumption
<1>7. CASE Swap
  <2>1. aside.latest \in 0..MaxTime
    BY <1>7 DEF Swap, At, Control, PoliciesOK, Aside, Nothing
  <2> QED
    BY <1>7, <2>1 DEF Swap, Exchange
<1>8. CASE PutBack
  <2>1. aside.kind = "retained" => aside.latest \in 0..MaxTime
    BY DEF PoliciesOK, Aside, Nothing
  <2> QED
    BY <1>8, <2>1 DEF PutBack, Exchange
<1>9. CASE Tick
  BY <1>9, BoundsAssumption DEF Tick, store, restore, command, proxy
<1>10. ASSUME NEW t \in Times, SetClock(t)
      PROVE  TimesOK'
  BY <1>10 DEF SetClock, store, restore, command, proxy
<1>11. CASE UNCHANGED <<wall, latest, floor>>
  BY <1>11
<1> QED
  BY <1>1, <1>2, <1>3, <1>4, <1>5, <1>6, <1>7, <1>8, <1>9, <1>10, <1>11
  DEF Next, Request, Proceed, Fail, UnitRuns, SelectPolicy, Revoke, Resume, StartCertificate,
      Capture, StartRestore, Recover, ChangeCloses, ChangeCommits, ChangeInstalls, Restarts,
      Awaits, ChangeReviews, ChangeFinishes, CertificateCloses, CertificateClears, RestoreCloses,
      Stage, Quiesce, StartUnits, RestoreFinishes, ChangeFails, CertificateReturns,
      CertificateFails, RestoreFails, UnitLoads, UnitChecks, UnitOpens, UnitLaunches, AutoRestart,
      UnitFails, Reboot, Kill, StartChange, At, Begin, Close, Halt, Merge, NothingPending,
      Restart, Return, Then, vars, clock, store, restore, command, proxy

\* The policies, journalled, current, kept aside and saved, are policies.
LEMMA PoliciesStep ==
    ASSUME PoliciesOK, TimesOK, Control, [Next]_vars
    PROVE  PoliciesOK'
<1> USE DEF PoliciesOK
<1>1. ASSUME NEW S \in SUBSET Agreements, NEW R \in SUBSET Agreements, StartChange(S, R)
      PROVE  PoliciesOK'
  <2>1. pending' \in Policies
    BY <1>1, CandidatePolicy DEF StartChange
  <2> QED
    BY <1>1, <2>1 DEF StartChange, restore, proxy
<1>2. CASE Capture
  <2>1. snapshot' \in Snapshots
    BY <1>2 DEF Capture, Snapshots, TimesOK
  <2> QED
    BY <1>2, <2>1 DEF Capture, store, proxy
<1>3. CASE Stage
  <2>1. snapshot # None /\ policy.generation < MaxGeneration
    BY <1>3 DEF Stage, At, Control
  <2>2. snapshot.policy \in Policies
    BY <2>1 DEF Snapshots
  <2>4. Merge(snapshot.policy) \in Policies
    BY <2>1, <2>2, MergedPolicy DEF PoliciesOK
  <2>5. AtLeast({latest, snapshot.latest, floor}) \in 0..MaxTime
    BY <2>1, FloorRises DEF PoliciesOK
  <2>6. aside' \in Aside
    BY <1>3, <2>4, <2>5 DEF Stage, Aside
  <2> QED
    BY <1>3, <2>6 DEF Stage, store, proxy
<1>4. CASE Swap
  <2>1. aside.policy \in Policies
    BY <1>4 DEF Swap, At, Control, Aside, Nothing
  <2>2. aside' \in Aside
    BY <1>4 DEF Swap, Aside, TimesOK
  <2> QED
    BY <1>4, <2>1, <2>2 DEF Swap, Exchange, proxy
<1>5. CASE PutBack
  <2>1. aside.kind = "retained" => aside.policy \in Policies
    BY DEF Aside, Nothing
  <2> QED
    BY <1>5, <2>1 DEF PutBack, Exchange, Aside, proxy
<1>6. CASE ChangeCommits
  BY <1>6 DEF ChangeCommits, At, Then, clock, restore, proxy, Control
<1>7. CASE ChangeFinishes
  BY <1>7 DEF ChangeFinishes, At, Return, clock, restore, proxy
<1>8. CASE ChangeFails
  BY <1>8 DEF ChangeFails, Return, Close, clock, restore, proxy
<1>9. CASE RestoreFinishes
  BY <1>9 DEF RestoreFinishes, Return, clock, store, restore, proxy, Aside
<1>10. CASE Restarts
  BY <1>10 DEF Restarts, Then, Restart, Halt, Close, clock, store, restore
<1>11. CASE Quiesce
  BY <1>11 DEF Quiesce, Then, Halt, Close, clock, store, restore
<1>12. CASE StartUnits
  BY <1>12 DEF StartUnits, Then, Halt, Close, clock, store, restore
<1>13. CASE UnitFails
  BY <1>13 DEF UnitFails, Halt, Close, clock, store, restore, command
<1>14. CASE Reboot
  BY <1>14 DEF Reboot, Return, Halt, Close, clock, store, restore
<1>15. CASE UnitLoads
  BY <1>15 DEF UnitLoads, clock, store, restore, command
<1>16. CASE UnitChecks
  BY <1>16 DEF UnitChecks, NothingPending, clock, store, restore, command
<1>17. CASE UnitOpens
  BY <1>17 DEF UnitOpens, clock, store, restore, command
<1>18. CASE UNCHANGED <<policy, pending, aside, snapshot, seen>>
  BY <1>18
<1>19. {b \in policy.agreements : review => Fresh(b)} \subseteq Agreements
  BY DEF TypeOK, PoliciesOK, Policies
<1> QED
  BY <1>1, <1>2, <1>3, <1>4, <1>5, <1>6, <1>7, <1>8, <1>9, <1>10, <1>11, <1>12, <1>13, <1>14,
      <1>15, <1>16, <1>17, <1>18, <1>19
  DEF Next, Request, Proceed, Fail, UnitRuns, SelectPolicy, Revoke, Resume, StartCertificate,
      StartRestore, Recover, ChangeCloses, ChangeValidates, ChangeInstalls, Awaits, ChangeReviews,
      ChangeOpens, CertificateCloses, CertificateClears, CertificateReopens, Suspend,
      RestoreCloses, CertificateReturns, CertificateFails, RestoreFails, UnitStarts, UnitLaunches,
      AutoRestart, Guard, Tick, Kill, SetClock, At, Begin, Close, Open, Openable, Recheck, Return,
      Then, vars, clock, store, restore, command, proxy

\* The firewall, the proxy and its unit keep their types.
LEMMA EnforcementStep ==
    ASSUME EnforcementOK, PoliciesOK, TimesOK, [Next]_vars
    PROVE  EnforcementOK'
<1> USE DEF EnforcementOK
<1>1. CASE ChangeCloses
  BY <1>1 DEF ChangeCloses, At, Then, Close, clock, store, restore, proxy, Shut
<1>2. CASE CertificateCloses
  BY <1>2 DEF CertificateCloses, At, Then, Close, clock, store, restore, proxy, Shut
<1>3. CASE RestoreCloses
  BY <1>3 DEF RestoreCloses, At, Then, Close, clock, store, restore, proxy, Shut
<1>4. CASE Restarts
  BY <1>4 DEF Restarts, Then, Restart, Halt, Close, clock, store, restore, Shut
<1>5. CASE Quiesce
  BY <1>5 DEF Quiesce, Then, Halt, Close, clock, store, restore, Shut
<1>6. CASE StartUnits
  BY <1>6 DEF StartUnits, Then, Halt, Close, clock, store, restore, Shut
<1>7. CASE ChangeFails
  BY <1>7 DEF ChangeFails, Return, Close, clock, restore, proxy, Shut
<1>8. CASE CertificateFails
  BY <1>8 DEF CertificateFails, Return, Close, clock, restore, proxy, Shut
<1>9. CASE UnitStarts
  BY <1>9 DEF UnitStarts, Close, store, restore, command, Shut
<1>10. CASE UnitFails
  BY <1>10 DEF UnitFails, Halt, Close, clock, store, restore, command, Shut
<1>11. CASE Reboot
  BY <1>11 DEF Reboot, Return, Halt, Close, clock, store, restore, Shut
<1>12. CASE ChangeInstalls
  <2>1. Peers(policy) \subseteq Agreements
    BY PeersSelected DEF Selected, PoliciesOK, Policies
  <2> QED
    BY <1>12, <2>1 DEF ChangeInstalls, store, restore, command
<1>13. CASE UnitLoads
  <2>1. Peers(policy) \subseteq Agreements
    BY PeersSelected DEF Selected, PoliciesOK, Policies
  <2> QED
    BY <1>13, <2>1 DEF UnitLoads, store, restore, command
<1>14. CASE ChangeOpens
  BY <1>14, EntriesType DEF ChangeOpens, At, Then, Openable, Open, store, restore, proxy
<1>15. CASE CertificateReopens
  BY <1>15, EntriesType DEF CertificateReopens, Return, Close, Openable, Open, store, restore, proxy, Shut
<1>16. CASE Guard
  BY <1>16, EntriesType DEF Guard, Recheck, Openable, Open, Close, store, restore, command, proxy, Shut
<1>17. CASE UnitOpens
  BY <1>17, EntriesType DEF UnitOpens, clock, store, restore, command
<1>18. CASE UnitChecks
  BY <1>18 DEF UnitChecks, NothingPending, clock, store, restore, command
<1>19. CASE UnitLaunches
  BY <1>19 DEF UnitLaunches, clock, store, restore, command
<1>20. CASE AutoRestart
  BY <1>20 DEF AutoRestart, clock, store, restore, command
<1>21. CASE Tick
  BY <1>21 DEF Tick, store, restore, command, proxy
<1>22. CASE UNCHANGED <<firewall, config, serving, unit>>
  BY <1>22
<1> QED
  BY <1>1, <1>2, <1>3, <1>4, <1>5, <1>6, <1>7, <1>8, <1>9, <1>10, <1>11, <1>12, <1>13, <1>14,
      <1>15, <1>16, <1>17, <1>18, <1>19, <1>20, <1>21, <1>22
  DEF Next, Request, Proceed, Fail, UnitRuns, SelectPolicy, Revoke, Resume, StartCertificate,
      Capture, StartRestore, Recover, ChangeValidates, ChangeCommits, Awaits, ChangeReviews,
      ChangeFinishes, CertificateClears, Suspend, Stage, Swap, PutBack, RestoreFinishes,
      CertificateReturns, RestoreFails, Kill, StartChange, SetClock, At, Begin, Exchange, Merge,
      NothingPending, Return, Then, vars, clock, store, restore, command, proxy

\* A command and its step stay in their sets.
LEMMA CommandStep ==
    ASSUME CommandOK, PoliciesOK, [Next]_vars
    PROVE  CommandOK'
<1> USE DEF CommandOK
<1>1. ASSUME NEW S \in SUBSET Agreements, NEW R \in SUBSET Agreements, StartChange(S, R)
      PROVE  CommandOK'
  BY <1>1 DEF StartChange, Begin, Candidate, clock, restore, proxy
<1>2. CASE Resume
  BY <1>2 DEF Resume, Begin, clock, store, restore, proxy
<1>3. CASE StartCertificate
  BY <1>3 DEF StartCertificate, Begin, clock, restore, proxy
<1>4. CASE StartRestore
  BY <1>4 DEF StartRestore, Begin, clock, store, restore, proxy
<1>5. CASE Recover
  BY <1>5 DEF Recover, Begin, clock, store, restore, proxy
<1>6. CASE ChangeCloses
  BY <1>6 DEF ChangeCloses, At, Then, Close, clock, store, restore, proxy
<1>7. CASE ChangeValidates
  BY <1>7 DEF ChangeValidates, At, Then, store, restore, proxy
<1>8. CASE ChangeCommits
  BY <1>8 DEF ChangeCommits, At, Then, clock, restore, proxy
<1>9. CASE ChangeInstalls
  BY <1>9 DEF ChangeInstalls, At, Then, clock, store, restore
<1>10. CASE Restarts
  BY <1>10 DEF Restarts, Then, Restart, Halt, Close, clock, store, restore
<1>11. CASE Awaits
  BY <1>11 DEF Awaits, Then, clock, store, restore, proxy
<1>12. CASE ChangeReviews
  BY <1>12 DEF ChangeReviews, At, Then, clock, restore, proxy
<1>13. CASE ChangeOpens
  BY <1>13 DEF ChangeOpens, At, Then, Openable, Open, store, restore, proxy
<1>14. CASE ChangeFinishes
  BY <1>14 DEF ChangeFinishes, At, Return, clock, restore, proxy
<1>15. CASE CertificateCloses
  BY <1>15 DEF CertificateCloses, At, Then, Close, clock, store, restore, proxy
<1>16. CASE CertificateClears
  BY <1>16 DEF CertificateClears, Then, clock, restore, proxy
<1>17. CASE CertificateReopens
  BY <1>17 DEF CertificateReopens, Return, Close, Openable, Open, store, restore, proxy
<1>18. CASE Suspend
  BY <1>18 DEF Suspend, At, Then, clock, restore, proxy
<1>19. CASE RestoreCloses
  BY <1>19 DEF RestoreCloses, At, Then, Close, clock, store, restore, proxy
<1>20. CASE Stage
  BY <1>20 DEF Stage, At, Then, Merge, clock, store, restore, proxy
<1>21. CASE Quiesce
  BY <1>21 DEF Quiesce, Then, Halt, Close, clock, store, restore
<1>22. CASE Swap
  BY <1>22 DEF Swap, At, Then, Exchange, restore, proxy
<1>23. CASE PutBack
  BY <1>23 DEF PutBack, At, Then, Exchange, proxy
<1>24. CASE StartUnits
  BY <1>24 DEF StartUnits, Then, Halt, Close, clock, store, restore
<1>25. CASE RestoreFinishes
  BY <1>25 DEF RestoreFinishes, Return, clock, store, restore, proxy
<1>26. CASE ChangeFails
  BY <1>26 DEF ChangeFails, Return, Close, clock, restore, proxy
<1>27. CASE CertificateReturns
  BY <1>27 DEF CertificateReturns, clock, store, restore, proxy
<1>28. CASE CertificateFails
  BY <1>28 DEF CertificateFails, Return, Close, clock, restore, proxy
<1>29. CASE RestoreFails
  BY <1>29 DEF RestoreFails, Return, clock, store, restore, proxy
<1>30. CASE Reboot
  BY <1>30 DEF Reboot, Return, Halt, Close, clock, store, restore
<1>31. CASE Kill
  BY <1>31 DEF Kill, Return, clock, store, restore, proxy
<1>32. CASE UNCHANGED <<op, pc>>
  BY <1>32
<1>33. {b \in policy.agreements : review => Fresh(b)} \subseteq Agreements
  BY DEF TypeOK, PoliciesOK, Policies
<1>34. CASE Request
  <2>1. CASE \E S \in SUBSET Agreements : SelectPolicy(S)
    BY <1>1, <2>1 DEF SelectPolicy
  <2>2. CASE \E a \in Agreements : Revoke(a)
    BY <1>1, <1>33, <2>2 DEF Revoke
  <2>3. CASE Capture
    BY <1>32, <2>3 DEF Capture, command
  <2> QED
    BY <1>2, <1>3, <1>4, <1>5, <1>34, <2>1, <2>2, <2>3 DEF Request
<1>35. CASE Proceed
  BY <1>6, <1>7, <1>8, <1>9, <1>10, <1>11, <1>12, <1>13, <1>14, <1>15, <1>16, <1>17, <1>18, <1>19,
     <1>20, <1>21, <1>22, <1>23, <1>24, <1>25, <1>35
  DEF Proceed
<1>36. CASE Fail \/ Kill \/ Reboot
  BY <1>26, <1>27, <1>28, <1>29, <1>30, <1>31, <1>36 DEF Fail
<1>37. CASE UnitRuns \/ UnitFails
  BY <1>32, <1>37
  DEF UnitRuns, UnitFails, UnitStarts, UnitLoads, UnitChecks, UnitOpens, UnitLaunches,
      AutoRestart, NothingPending, Halt, Close, Open, command
<1>38. CASE Guard \/ Tick \/ (\E t \in Times : SetClock(t)) \/ UNCHANGED vars
  BY <1>32, <1>38 DEF Guard, Tick, SetClock, Recheck, Openable, Open, Close, vars, command
<1> QED
  BY <1>34, <1>35, <1>36, <1>37, <1>38 DEF Next

-----------------------------------------------------------------------------
(* The layers.                                                             *)

\* Every step leaves a command at a step of its own, under its marker or intent.
LEMMA ControlStep ==
    ASSUME TypeOK, Control, [Next]_vars
    PROVE  Control'
<1> USE DEF Control, Restoring
<1>1. ASSUME NEW S \in SUBSET Agreements, NEW R \in SUBSET Agreements, StartChange(S, R)
      PROVE  Control'
  <2>1. pending' # None
    BY <1>1, CandidatePolicy, NoneAssumption DEF StartChange, TypeOK, PoliciesOK
  <2> QED
    BY <1>1, <2>1 DEF StartChange, Begin, clock, restore, proxy
<1>2. CASE Resume
  BY <1>2 DEF Resume, Begin, clock, store, restore, proxy
<1>3. CASE StartCertificate
  BY <1>3 DEF StartCertificate, Begin, clock, restore, proxy
<1>4. CASE StartRestore
  BY <1>4 DEF StartRestore, Begin, clock, store, restore, proxy
<1>5. CASE Recover
  BY <1>5 DEF Recover, Begin, clock, store, restore, proxy
<1>6. CASE ChangeCloses
  BY <1>6 DEF ChangeCloses, At, Then, Close, clock, store, restore, proxy
<1>7. CASE ChangeValidates
  BY <1>7 DEF ChangeValidates, At, Then, store, restore, proxy
<1>8. CASE ChangeCommits
  BY <1>8 DEF ChangeCommits, At, Then, clock, restore, proxy
<1>9. CASE ChangeInstalls
  BY <1>9 DEF ChangeInstalls, At, Then, clock, store, restore
<1>10. CASE Restarts
  BY <1>10 DEF Restarts, Then, Restart, Halt, Close, clock, store, restore
<1>11. CASE Awaits
  BY <1>11 DEF Awaits, Then, clock, store, restore, proxy
<1>12. CASE ChangeReviews
  BY <1>12 DEF ChangeReviews, At, Then, clock, restore, proxy
<1>13. CASE ChangeOpens
  BY <1>13 DEF ChangeOpens, At, Then, Openable, Open, store, restore, proxy
<1>14. CASE ChangeFinishes
  BY <1>14 DEF ChangeFinishes, At, Return, clock, restore, proxy
<1>15. CASE CertificateCloses
  BY <1>15 DEF CertificateCloses, At, Then, Close, clock, store, restore, proxy
<1>16. CASE CertificateClears
  BY <1>16 DEF CertificateClears, Then, clock, restore, proxy
<1>17. CASE CertificateReopens
  BY <1>17 DEF CertificateReopens, Return, Close, Openable, Open, store, restore, proxy
<1>18. CASE Suspend
  BY <1>18 DEF Suspend, At, Then, clock, restore, proxy
<1>19. CASE RestoreCloses
  BY <1>19 DEF RestoreCloses, At, Then, Close, clock, store, restore, proxy
<1>20. CASE Stage
  BY <1>20 DEF Stage, At, Then, Merge, clock, store, restore, proxy, Aside, Nothing, TypeOK, PoliciesOK
<1>21. CASE Quiesce
  BY <1>21 DEF Quiesce, Then, Halt, Close, clock, store, restore, TypeOK, CommandOK
<1>22. CASE Swap
  BY <1>22 DEF Swap, At, Then, Exchange, restore, proxy, Aside, Nothing, TypeOK, PoliciesOK
<1>23. CASE PutBack
  BY <1>23 DEF PutBack, At, Then, Exchange, proxy
<1>24. CASE StartUnits
  BY <1>24 DEF StartUnits, Then, Halt, Close, clock, store, restore, TypeOK, CommandOK
<1>25. CASE RestoreFinishes
  BY <1>25 DEF RestoreFinishes, Return, clock, store, restore, proxy
<1>26. CASE ChangeFails
  BY <1>26 DEF ChangeFails, Return, Close, clock, restore, proxy
<1>27. CASE CertificateReturns
  BY <1>27 DEF CertificateReturns, clock, store, restore, proxy
<1>28. CASE CertificateFails
  BY <1>28 DEF CertificateFails, Return, Close, clock, restore, proxy
<1>29. CASE RestoreFails
  BY <1>29 DEF RestoreFails, Return, clock, store, restore, proxy, TypeOK, CommandOK
<1>30. CASE Reboot
  BY <1>30 DEF Reboot, Return, Halt, Close, clock, store, restore
<1>31. CASE Kill
  BY <1>31 DEF Kill, Return, clock, store, restore, proxy
<1>32. CASE Capture
  BY <1>32 DEF Capture, NothingPending, clock, store, command, proxy
<1>33. CASE UNCHANGED <<op, pc, restoring, pending, policy, aside, snapshot>>
  BY <1>33
<1>34. {b \in policy.agreements : review => Fresh(b)} \subseteq Agreements
  BY DEF TypeOK, PoliciesOK, Policies
<1> QED
  BY <1>1, <1>2, <1>3, <1>4, <1>5, <1>6, <1>7, <1>8, <1>9, <1>10, <1>11, <1>12, <1>13, <1>14,
      <1>15, <1>16, <1>17, <1>18, <1>19, <1>20, <1>21, <1>22, <1>23, <1>24, <1>25, <1>26, <1>27,
      <1>28, <1>29, <1>30, <1>31, <1>32, <1>33, <1>34
  DEF Next, Request, Proceed, Fail, UnitRuns, SelectPolicy, Revoke, UnitStarts, UnitLoads,
      UnitChecks, UnitOpens, UnitLaunches, AutoRestart, UnitFails, Guard, Tick, SetClock, Close,
      Halt, NothingPending, Open, Openable, Recheck, vars, clock, store, restore, command, proxy

\* Every step keeps the revocations of every policy it keeps.
LEMMA HistoryStep ==
    ASSUME TypeOK, Control, History, [Next]_vars
    PROVE  History'
<1> USE DEF History
<1>1. ASSUME NEW S \in SUBSET Agreements, NEW R \in SUBSET Agreements, StartChange(S, R)
      PROVE  History'
  BY <1>1 DEF StartChange, Begin, Candidate, clock, restore, proxy, TypeOK, PoliciesOK, Policies
<1>2. CASE ChangeCommits
  BY <1>2 DEF ChangeCommits, At, Then, clock, restore, proxy, Control
<1>3. CASE ChangeFinishes
  BY <1>3 DEF ChangeFinishes, At, Return, clock, restore, proxy, Control
<1>4. CASE ChangeFails
  BY <1>4 DEF ChangeFails, Return, Close, clock, restore, proxy, Control
<1>5. CASE Capture
  BY <1>5 DEF Capture, NothingPending, clock, store, command, proxy
<1>6. CASE Stage
  <2>1. snapshot # None /\ policy.generation < MaxGeneration
    BY <1>6 DEF Stage, At, Control
  <2>2. snapshot.policy \in Policies /\ policy \in Policies
    BY <2>1 DEF TypeOK, PoliciesOK, Snapshots
  <2>3. Merge(snapshot.policy).revoked = policy.revoked
    BY <2>1, <2>2, MergedPolicy
  <2> QED
    BY <1>6, <2>3 DEF Stage, store
<1>7. CASE Swap
  BY <1>7 DEF Swap, At, Then, Exchange, restore, proxy, Control, Nothing
<1>8. CASE PutBack
  BY <1>8 DEF PutBack, At, Then, Exchange, proxy, Nothing
<1>9. CASE RestoreFinishes
  BY <1>9 DEF RestoreFinishes, Return, clock, store, restore, proxy
<1>10. CASE UNCHANGED <<pending, snapshot, aside, policy>>
  BY <1>10
<1>11. {b \in policy.agreements : review => Fresh(b)} \subseteq Agreements
  BY DEF TypeOK, PoliciesOK, Policies
<1> QED
  BY <1>1, <1>2, <1>3, <1>4, <1>5, <1>6, <1>7, <1>8, <1>9, <1>10, <1>11
  DEF Next, Request, Proceed, Fail, UnitRuns, SelectPolicy, Revoke, Resume, StartCertificate,
      StartRestore, Recover, ChangeCloses, ChangeValidates, ChangeInstalls, Restarts, Awaits,
      ChangeReviews, ChangeOpens, CertificateCloses, CertificateClears, CertificateReopens,
      Suspend, RestoreCloses, Quiesce, StartUnits, CertificateReturns, CertificateFails,
      RestoreFails, UnitStarts, UnitLoads, UnitChecks, UnitOpens, UnitLaunches, AutoRestart,
      UnitFails, Guard, Tick, Reboot, Kill, SetClock, At, Begin, Close, Halt, NothingPending,
      Open, Openable, Recheck, Restart, Return, Then, vars, clock, store, restore, command, proxy

\* Every step keeps the unit on the policy in force.
LEMMA RoutingStep ==
    ASSUME TypeOK, Control, Routing, [Next]_vars
    PROVE  Routing'
<1> USE DEF Routing, Restoring, InForce, Selected
<1>1. ASSUME NEW S \in SUBSET Agreements, NEW R \in SUBSET Agreements, StartChange(S, R)
      PROVE  Routing'
  BY <1>1 DEF StartChange, Begin, Candidate, clock, restore, proxy, Control
<1>2. CASE Resume
  BY <1>2 DEF Resume, Begin, clock, store, restore, proxy, Control
<1>3. CASE StartCertificate
  BY <1>3 DEF StartCertificate, Begin, clock, restore, proxy
<1>4. CASE StartRestore
  BY <1>4 DEF StartRestore, Begin, clock, store, restore, proxy
<1>5. CASE Recover
  BY <1>5 DEF Recover, Begin, clock, store, restore, proxy
<1>6. CASE ChangeCloses
  BY <1>6 DEF ChangeCloses, At, Then, Close, clock, store, restore, proxy
<1>7. CASE ChangeValidates
  BY <1>7 DEF ChangeValidates, At, Then, store, restore, proxy
<1>8. CASE ChangeCommits
  BY <1>8 DEF ChangeCommits, At, Then, clock, restore, proxy, Control
<1>9. CASE ChangeInstalls
  BY <1>9 DEF ChangeInstalls, At, Then, clock, store, restore, Control
<1>10. CASE Restarts
  BY <1>10 DEF Restarts, Then, Restart, Halt, Close, clock, store, restore, Control
<1>11. CASE Awaits
  BY <1>11 DEF Awaits, Then, clock, store, restore, proxy, Control
<1>12. CASE ChangeReviews
  BY <1>12 DEF ChangeReviews, At, Then, clock, restore, proxy, Control
<1>13. CASE ChangeOpens
  BY <1>13 DEF ChangeOpens, At, Then, Openable, Open, store, restore, proxy, Control
<1>14. CASE ChangeFinishes
  BY <1>14 DEF ChangeFinishes, At, Return, clock, restore, proxy, Control
<1>15. CASE CertificateCloses
  BY <1>15 DEF CertificateCloses, At, Then, Close, clock, store, restore, proxy, Control
<1>16. CASE CertificateClears
  BY <1>16 DEF CertificateClears, Then, clock, restore, proxy, Control
<1>17. CASE CertificateReopens
  BY <1>17 DEF CertificateReopens, Return, Close, Openable, Open, store, restore, proxy, Control
<1>18. CASE Suspend
  BY <1>18 DEF Suspend, At, Then, clock, restore, proxy
<1>19. CASE RestoreCloses
  BY <1>19 DEF RestoreCloses, At, Then, Close, clock, store, restore, proxy
<1>20. CASE Stage
  BY <1>20 DEF Stage, At, Then, Merge, clock, store, restore, proxy
<1>21. CASE Quiesce
  BY <1>21 DEF Quiesce, Then, Halt, Close, clock, store, restore
<1>22. CASE Swap
  BY <1>22 DEF Swap, At, Then, Exchange, restore, proxy, Control
<1>23. CASE PutBack
  BY <1>23 DEF PutBack, At, Then, Exchange, proxy
<1>24. CASE StartUnits
  BY <1>24 DEF StartUnits, Then, Halt, Close, clock, store, restore, Control
<1>25. CASE RestoreFinishes
  BY <1>25 DEF RestoreFinishes, Return, clock, store, restore, proxy, Control
<1>26. CASE ChangeFails
  BY <1>26 DEF ChangeFails, Return, Close, clock, restore, proxy, Control
<1>27. CASE CertificateReturns
  BY <1>27 DEF CertificateReturns, clock, store, restore, proxy, Control
<1>28. CASE CertificateFails
  BY <1>28 DEF CertificateFails, Return, Close, clock, restore, proxy, Control
<1>29. CASE RestoreFails
  BY <1>29 DEF RestoreFails, Return, clock, store, restore, proxy, Control
<1>30. CASE UnitStarts
  BY <1>30 DEF UnitStarts, Close, store, restore, command, Control
<1>31. CASE UnitLoads
  BY <1>31, PeersSelected DEF UnitLoads, clock, store, restore, command, Control
<1>32. CASE UnitChecks
  BY <1>32 DEF UnitChecks, NothingPending, clock, store, restore, command
<1>33. CASE UnitOpens
  BY <1>33 DEF UnitOpens, clock, store, restore, command
<1>34. CASE UnitLaunches
  BY <1>34 DEF UnitLaunches, clock, store, restore, command
<1>35. CASE AutoRestart
  BY <1>35 DEF AutoRestart, clock, store, restore, command
<1>36. CASE UnitFails
  BY <1>36 DEF UnitFails, Halt, Close, clock, store, restore, command
<1>37. CASE Reboot
  BY <1>37 DEF Reboot, Return, Halt, Close, clock, store, restore
<1>38. CASE Kill
  BY <1>38 DEF Kill, Return, clock, store, restore, proxy
<1>39. CASE UNCHANGED <<pending, policy, op, pc, serving, unit, config>>
  BY <1>39
<1>40. {b \in policy.agreements : review => Fresh(b)} \subseteq Agreements
  BY DEF TypeOK, PoliciesOK, Policies
<1> QED
  BY <1>1, <1>2, <1>3, <1>4, <1>5, <1>6, <1>7, <1>8, <1>9, <1>10, <1>11, <1>12, <1>13, <1>14,
      <1>15, <1>16, <1>17, <1>18, <1>19, <1>20, <1>21, <1>22, <1>23, <1>24, <1>25, <1>26, <1>27,
      <1>28, <1>29, <1>30, <1>31, <1>32, <1>33, <1>34, <1>35, <1>36, <1>37, <1>38, <1>39, <1>40
  DEF Next, Request, Proceed, Fail, UnitRuns, SelectPolicy, Revoke, Capture, Guard, Tick,
      SetClock, Close, NothingPending, Open, Openable, Recheck, vars, clock, store, restore,
      command, proxy

\* An open firewall lets only fresh agreements through.
LEMMA EntriesFresh ==
    ASSUME NEW p, NEW a \in Agreements, Entries(p)[a] > 0
    PROVE  Fresh(a)
  BY DEF Entries, Peers

\* Every step keeps a gateway under review shut, and the others to fresh agreements.
LEMMA ClosedStep ==
    ASSUME TypeOK, Control, Closed, [Next]_vars
    PROVE  Closed'
<1> USE DEF Closed, UnderReview, Restoring, Fresh, Shut
<1>1. ASSUME NEW S \in SUBSET Agreements, NEW R \in SUBSET Agreements, StartChange(S, R)
      PROVE  Closed'
  BY <1>1 DEF StartChange, Begin, Candidate, clock, restore, proxy, Control
<1>2. CASE Resume
  BY <1>2 DEF Resume, Begin, clock, store, restore, proxy, Control
<1>3. CASE StartCertificate
  BY <1>3 DEF StartCertificate, Begin, clock, restore, proxy, Control
<1>4. CASE StartRestore
  BY <1>4 DEF StartRestore, Begin, clock, store, restore, proxy, Control
<1>5. CASE Recover
  BY <1>5 DEF Recover, Begin, clock, store, restore, proxy, Control
<1>6. CASE ChangeCloses
  BY <1>6 DEF ChangeCloses, At, Then, Close, clock, store, restore, proxy, Control
<1>7. CASE ChangeValidates
  BY <1>7 DEF ChangeValidates, At, Then, store, restore, proxy, Control
<1>8. CASE ChangeCommits
  BY <1>8 DEF ChangeCommits, At, Then, clock, restore, proxy, Control
<1>9. CASE ChangeInstalls
  BY <1>9 DEF ChangeInstalls, At, Then, clock, store, restore, Control
<1>10. CASE Restarts
  BY <1>10 DEF Restarts, Then, Restart, Halt, Close, clock, store, restore, Control
<1>11. CASE Awaits
  BY <1>11 DEF Awaits, Then, clock, store, restore, proxy, Control
<1>12. CASE ChangeReviews
  BY <1>12 DEF ChangeReviews, At, Then, clock, restore, proxy, Control
<1>13. CASE ChangeOpens
  <2>1. ~review' /\ firewall' = Entries(policy) /\ UNCHANGED floor
    BY <1>13 DEF ChangeOpens, Openable, Open, store
  <2>2. \A a \in Agreements : Entries(policy)[a] > 0 => Fresh(a)
    BY EntriesFresh
  <2> QED
    BY <2>1, <2>2
<1>14. CASE ChangeFinishes
  BY <1>14 DEF ChangeFinishes, At, Return, clock, restore, proxy, Control
<1>15. CASE CertificateCloses
  BY <1>15 DEF CertificateCloses, At, Then, Close, clock, store, restore, proxy, Control
<1>16. CASE CertificateClears
  BY <1>16 DEF CertificateClears, Then, clock, restore, proxy, Control
<1>17. CASE CertificateReopens
  <2>1. UNCHANGED <<review, restoring, unit, floor>> /\ ~restoring /\ op' = "none"
    BY <1>17 DEF CertificateReopens, Return, Control, store, restore, proxy
  <2>2. (review /\ firewall' = Shut) \/ (~review /\ firewall' = Entries(policy))
    BY <1>17 DEF CertificateReopens, Openable, Open, Close
  <2>3. \A a \in Agreements : Entries(policy)[a] > 0 => Fresh(a)
    BY EntriesFresh
  <2> QED
    BY <2>1, <2>2, <2>3
<1>18. CASE Suspend
  BY <1>18 DEF Suspend, At, Then, clock, restore, proxy, Control
<1>19. CASE RestoreCloses
  BY <1>19 DEF RestoreCloses, At, Then, Close, clock, store, restore, proxy, Control
<1>20. CASE Stage
  BY <1>20 DEF Stage, At, Then, Merge, clock, store, restore, proxy, Control
<1>21. CASE Quiesce
  BY <1>21 DEF Quiesce, Then, Halt, Close, clock, store, restore, Control
<1>22. CASE Swap
  BY <1>22 DEF Swap, At, Then, Exchange, restore, proxy, Control
<1>23. CASE PutBack
  BY <1>23 DEF PutBack, At, Then, Exchange, proxy, Control
<1>24. CASE StartUnits
  BY <1>24 DEF StartUnits, Then, Halt, Close, clock, store, restore, Control
<1>25. CASE RestoreFinishes
  BY <1>25 DEF RestoreFinishes, Return, clock, store, restore, proxy, Control
<1>26. CASE ChangeFails
  BY <1>26 DEF ChangeFails, Return, Close, clock, restore, proxy, Control
<1>27. CASE CertificateReturns
  BY <1>27 DEF CertificateReturns, clock, store, restore, proxy, Control
<1>28. CASE CertificateFails
  BY <1>28 DEF CertificateFails, Return, Close, clock, restore, proxy, Control
<1>29. CASE RestoreFails
  BY <1>29 DEF RestoreFails, Return, clock, store, restore, proxy, Control
<1>30. CASE UnitStarts
  BY <1>30 DEF UnitStarts, Close, store, restore, command, Control
<1>31. CASE UnitLoads
  BY <1>31 DEF UnitLoads, clock, store, restore, command, Control
<1>32. CASE UnitChecks
  BY <1>32 DEF UnitChecks, NothingPending, clock, store, restore, command, Control
<1>33. CASE UnitOpens
  <2>1. firewall' = Entries(seen) /\ unit' # "opening" /\ UNCHANGED <<review, restoring, op, pc, floor>>
    BY <1>33 DEF UnitOpens, store, restore, command
  <2>2. ~UnderReview
    BY <1>33 DEF UnitOpens
  <2>3. \A a \in Agreements : Entries(seen)[a] > 0 => Fresh(a)
    BY EntriesFresh
  <2> QED
    BY <2>1, <2>2, <2>3
<1>34. CASE UnitLaunches
  BY <1>34 DEF UnitLaunches, clock, store, restore, command, Control
<1>35. CASE AutoRestart
  BY <1>35 DEF AutoRestart, clock, store, restore, command, Control
<1>36. CASE UnitFails
  BY <1>36 DEF UnitFails, Halt, Close, clock, store, restore, command, Control
<1>37. CASE Guard
  <2>1. UNCHANGED <<review, restoring, op, pc, unit, floor>>
    BY <1>37 DEF Guard, store, restore, command, proxy
  <2>2. firewall' = Shut \/ (~review /\ firewall' = Entries(policy))
    BY <1>37 DEF Guard, Recheck, Openable, Open, Close
  <2>3. \A a \in Agreements : Entries(policy)[a] > 0 => Fresh(a)
    BY EntriesFresh
  <2> QED
    BY <2>1, <2>2, <2>3
<1>38. CASE Tick
  <2>1. UNCHANGED <<review, restoring, op, pc, unit, floor>>
    BY <1>38 DEF Tick, store, restore, command, proxy
  <2>2. \A a \in Agreements : firewall'[a] > 0 => firewall[a] > 0
    BY <1>38 DEF Tick, TypeOK, EnforcementOK
  <2>3. firewall = Shut => firewall' = Shut
    BY <1>38 DEF Tick, Shut
  <2> QED
    BY <2>1, <2>2, <2>3
<1>39. CASE Reboot
  BY <1>39 DEF Reboot, Return, Halt, Close, clock, store, restore, Control
<1>40. CASE Kill
  BY <1>40 DEF Kill, Return, clock, store, restore, proxy, Control
<1>41. CASE UNCHANGED <<review, restoring, op, pc, firewall, unit, floor>>
  BY <1>41
<1>42. {b \in policy.agreements : review => Fresh(b)} \subseteq Agreements
  BY DEF TypeOK, PoliciesOK, Policies
<1> HIDE DEF Closed, UnderReview, Restoring, Fresh, Shut
<1> QED
  BY <1>1, <1>2, <1>3, <1>4, <1>5, <1>6, <1>7, <1>8, <1>9, <1>10, <1>11, <1>12, <1>13, <1>14,
      <1>15, <1>16, <1>17, <1>18, <1>19, <1>20, <1>21, <1>22, <1>23, <1>24, <1>25, <1>26, <1>27,
      <1>28, <1>29, <1>30, <1>31, <1>32, <1>33, <1>34, <1>35, <1>36, <1>37, <1>38, <1>39, <1>40,
      <1>41, <1>42
  DEF Next, Request, Proceed, Fail, UnitRuns, SelectPolicy, Revoke, Capture, SetClock,
      NothingPending, vars, clock, store, restore, command, proxy

-----------------------------------------------------------------------------
(* The invariant and the theorems.                                         *)

LEMMA InitInv == Init => Inv
<1> SUFFICES ASSUME Init
             PROVE  Inv
  OBVIOUS
<1>1. TypeOK
  <2>1. FlagsOK /\ CommandOK
    BY DEF Init, FlagsOK, CommandOK
  <2>2. TimesOK
    BY BoundsAssumption DEF Init, TimesOK, Times
  <2>3. EnforcementOK
    BY DEF Init, EnforcementOK, Shut
  <2>4. policy \in Policies
    BY BoundsAssumption DEF Init, Policies
  <2>5. PoliciesOK
    BY <2>4 DEF Init, PoliciesOK, Aside, Snapshots
  <2> QED
    BY <2>1, <2>2, <2>3, <2>5 DEF TypeOK
<1>2. Control /\ History
  BY DEF Init, Control, History, Restoring
<1>3. Routing /\ Closed
  BY DEF Init, Routing, Restoring, InForce, Closed, UnderReview, Shut
<1> QED
  BY <1>1, <1>2, <1>3 DEF Inv

LEMMA InvStep == Inv /\ [Next]_vars => Inv'
<1> SUFFICES ASSUME Inv, [Next]_vars
             PROVE  Inv'
  OBVIOUS
<1>1. TypeOK'
  BY FlagsStep, PoliciesStep, TimesStep, EnforcementStep, CommandStep DEF Inv, TypeOK
<1>2. Control' /\ History' /\ Routing' /\ Closed'
  BY ControlStep, HistoryStep, RoutingStep, ClosedStep DEF Inv
<1> QED
  BY <1>1, <1>2 DEF Inv

LEMMA Invariance == Spec => []Inv
  BY InitInv, InvStep, PTL DEF Spec

\* Every variable keeps its type.
THEOREM TypeCorrect == Spec => []TypeOK
<1>1. Inv => TypeOK
  BY DEF Inv
<1> QED
  BY Invariance, <1>1, PTL

\* When no change is pending, only partners of the current selection that are
\* not revoked pass.
THEOREM AdmitsOnlySelected == Spec => []AdmitsSelected
<1>1. Inv => AdmitsSelected
  BY DEF Inv, Routing, InForce, Selected, AdmitsSelected, Traffic
<1> QED
  BY Invariance, <1>1, PTL

\* After a restore nobody passes until the partners are reviewed.
THEOREM RestoredStaysShut == Spec => []RestoredShut
<1>1. Inv => RestoredShut
  BY DEF Inv, Closed, UnderReview, RestoredShut, Traffic, Shut, TypeOK, EnforcementOK
<1> QED
  BY Invariance, <1>1, PTL

\* After the review no agreement older than the approval floor passes.
THEOREM NeverReplays == Spec => []NoReplay
<1>1. ASSUME Inv, floor > 0, ~review, NEW a \in Traffic
      PROVE  Issued[a] >= floor /\ Accepted[a] >= floor
  <2>1. a \in Agreements /\ Fresh(a)
    BY <1>1 DEF Inv, Closed, Traffic, TypeOK, EnforcementOK
  <2> QED
    BY <1>1, <2>1 DEF Fresh
<1>2. Inv => NoReplay
  BY <1>1 DEF NoReplay
<1> QED
  BY Invariance, <1>2, PTL

\* No step forgets a revocation or lowers the floor.
LEMMA RevocationStep ==
    ASSUME Inv, [Next]_vars
    PROVE  Known \subseteq Known' /\ floor <= floor'
<1> floor <= floor
  BY BoundsAssumption DEF Inv, TypeOK, TimesOK
<1> USE DEF Inv, Control, History, Known
<1>1. ASSUME NEW S \in SUBSET Agreements, NEW R \in SUBSET Agreements, StartChange(S, R)
      PROVE  Known \subseteq Known' /\ floor <= floor'
  BY <1>1 DEF StartChange, Begin, Candidate, clock, restore, proxy
<1>2. CASE ChangeCommits
  BY <1>2 DEF ChangeCommits, At, Then, clock, restore, proxy
<1>3. CASE ChangeFinishes
  BY <1>3 DEF ChangeFinishes, At, Return, clock, restore, proxy
<1>4. CASE ChangeFails
  BY <1>4 DEF ChangeFails, Return, Close, clock, restore, proxy
<1>5. CASE Suspend
  <2>1. UNCHANGED <<policy, pending>> /\ snapshot # None
    BY <1>5 DEF Suspend, At, Control
  <2>2. floor' \in floor..MaxTime
    BY <1>5, <2>1, FloorRises DEF Suspend, TypeOK
  <2> QED
    BY <2>1, <2>2
<1>6. CASE Swap
  BY <1>6 DEF Swap, At, Then, Exchange, restore, proxy, Nothing
<1>7. CASE PutBack
  BY <1>7 DEF PutBack, At, Then, Exchange, proxy, Nothing
<1>8. CASE UNCHANGED <<policy, pending, floor>>
  BY <1>8
<1>9. {b \in policy.agreements : review => Fresh(b)} \subseteq Agreements
  BY DEF TypeOK, PoliciesOK, Policies
<1> QED
  BY <1>1, <1>2, <1>3, <1>4, <1>5, <1>6, <1>7, <1>8, <1>9
  DEF Next, Request, Proceed, Fail, UnitRuns, SelectPolicy, Revoke, Resume, StartCertificate,
      Capture, StartRestore, Recover, ChangeCloses, ChangeValidates, ChangeInstalls, Restarts,
      Awaits, ChangeReviews, ChangeOpens, CertificateCloses, CertificateClears,
      CertificateReopens, RestoreCloses, Stage, Quiesce, StartUnits, RestoreFinishes,
      CertificateReturns, CertificateFails, RestoreFails, UnitStarts, UnitLoads, UnitChecks,
      UnitOpens, UnitLaunches, AutoRestart, UnitFails, Guard, Tick, Reboot, Kill, SetClock, At,
      Begin, Close, Halt, Merge, NothingPending, Open, Openable, Recheck, Restart, Return, Then,
      vars, clock, store, restore, command, proxy

\* A revocation, and the approval floor, are final.
THEOREM RevocationsAreFinal == Spec => RevocationFinal
<1>1. Inv /\ [Next]_vars => [Known \subseteq Known' /\ floor <= floor']_vars
  BY RevocationStep
<1> QED
  BY Invariance, <1>1, PTL DEF Spec, RevocationFinal
=============================================================================
