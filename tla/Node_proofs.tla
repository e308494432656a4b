----------------------------- MODULE Node_proofs -----------------------------
(***************************************************************************)
(* Proofs about Node and its four components, for any certificates,        *)
(* credentials and bounds.                                                 *)
(***************************************************************************)
EXTENDS Node, Sequences, TLAPS

-----------------------------------------------------------------------------
(* The certificates of a service.                                          *)

Pointing == {"compare", "generation", "fill", "link", "point"}
Pointed == {"restart", "backLink", "backPoint", "keepLink", "keepPoint", "prune"}

\* A command is at a step of its own, has reported nothing yet, and an issuer's step has
\* its lineage.
Commanded ==
    /\ proc.op = "none" <=> proc.pc = "idle"
    /\ proc.op # "none" => claim = "none"
    /\ proc.pc \in {"home", "mark", "order", "material", "publish"} => proc.op \in {"issue", "renew"}
    /\ proc.pc \in {"copy", "timer"} => proc.op = "enable"
    /\ proc.pc = "copy" => issuer.lineage \in Materials
    /\ proc.pc \in ActivateSteps =>
           /\ proc.op \in {"install", "enable", "renew", "replace"}
           /\ proc.op \in {"enable", "renew"} => proc.target = issuer.lineage

\* Where activate has got to with the link, and which generations it relies on.
Activating ==
    /\ proc.pc \in Pointing => proc.old = tls.active
    /\ proc.pc \in Pointed => tls.active = proc.target
    /\ proc.pc = "backRestart" => tls.active = proc.old
    /\ proc.pc = "prune" => tls.previous = proc.old
    /\ proc.pc \in ActivateSteps \ {"compare", "generation", "fill"} => tls.gens[proc.target] = "whole"
    /\ proc.pc = "fill" => tls.gens[proc.target] = "partial"
    /\ proc.pc \in ActivateSteps /\ proc.old # None => tls.gens[proc.old] = "whole"

\* What clients are served once the restart has been verified.
Verified ==
    /\ proc.pc \in {"keepLink", "keepPoint", "prune", "timer"} => served = tls.active
    /\ proc.pc = "publish" /\ proc.op # "issue" => served = tls.active

CertificateInv ==
    TypeOK /\ Commanded /\ Activating /\ Verified /\ PointersWhole /\ OutcomeServed

\* The variables keep their types.
LEMMA CertificatesTyped ==
    ASSUME TypeOK, Commanded, [Next]_vars
    PROVE  TypeOK'
<1> USE DEF TypeOK, ProcOK, TlsOK, IssuerOK, Idle, ActivateSteps, Commanded, Steps, Claims, Some
<1>1. CASE StartIssue
  <2>1. proc' = [op |-> "issue", pc |-> "home", target |-> None, old |-> None]
    BY <1>1 DEF StartIssue, Begin
  <2> QED
    BY <1>1, <2>1 DEF StartIssue, Begin
<1>2. CASE StartRenew
  <2>1. proc' = [op |-> "renew", pc |-> "order", target |-> None, old |-> None]
    BY <1>2 DEF StartRenew, Begin
  <2> QED
    BY <1>2, <2>1 DEF StartRenew, Begin
<1>3. CASE StartEnable
  BY <1>3 DEF StartEnable, Issued, Active, Begin
<1>4. ASSUME NEW m \in Materials, StartInstall(m)
      PROVE  TypeOK'
  BY <1>4 DEF StartInstall
<1>5. ASSUME NEW m \in Materials, StartReplace(m)
      PROVE  TypeOK'
  BY <1>5 DEF StartReplace, Active
<1>6. CASE MakeHome
  BY <1>6 DEF MakeHome, Go, Return
<1>7. CASE MarkHome
  BY <1>7 DEF MarkHome, Go
<1>8. CASE Order
  BY <1>8 DEF Order, Fresh, Go
<1>9. CASE TakeMaterial
  <2>1. CASE proc.op = "renew"
    <3>1. proc' = [proc EXCEPT !.pc = "compare", !.target = issuer.lineage, !.old = tls.active]
      BY <1>9, <2>1 DEF TakeMaterial, Activate, Active
    <3>2. proc' = [op |-> proc.op, pc |-> "compare", target |-> issuer.lineage, old |-> tls.active]
      BY <3>1
    <3> QED
      BY <1>9, <3>2 DEF TakeMaterial, At
  <2>2. CASE proc.op # "renew"
    BY <1>9, <2>2 DEF TakeMaterial, At, Go
  <2> QED
    BY <2>1, <2>2
<1>10. CASE Publish
  BY <1>10 DEF Publish, Return
<1>11. CASE EnterProgram
  BY <1>11 DEF EnterProgram
<1>12. CASE CopyProgram
  BY <1>12 DEF CopyProgram, Activate, Active, At
<1>13. CASE StartTimer
  BY <1>13 DEF StartTimer, Return
<1>14. CASE Compare
  BY <1>14 DEF Compare, RestartServes, RestartFails, Activated, At, Go, Return
<1>15. CASE MakeGeneration
  BY <1>15 DEF MakeGeneration, At, Go, Return
<1>16. CASE FillGeneration
  BY <1>16 DEF FillGeneration, At, Go
<1>17. CASE LinkTarget
  <2>1. CASE tls.activeNew
    <3>1. Return("failed") /\ UNCHANGED <<tls, issuer, served>>
      BY <1>17, <2>1 DEF LinkTarget, Link
    <3> QED
      BY <3>1 DEF Return
  <2>2. CASE ~tls.activeNew
    <3>1. tls' = [tls EXCEPT !.activeNew = TRUE]
      BY <1>17 DEF LinkTarget, Link
    <3>2. Go("point") /\ UNCHANGED <<issuer, served, claim>>
      BY <1>17, <2>2 DEF LinkTarget, Link
    <3>3. TlsOK'
      BY <3>1
    <3>4. proc.target \in Materials /\ proc' = [proc EXCEPT !.pc = "point"]
      BY <1>17, <3>2 DEF LinkTarget, Link, At, Go
    <3> HIDE DEF TlsOK
    <3> QED
      BY <3>2, <3>3, <3>4
  <2> QED
    BY <2>1, <2>2
<1>18. CASE PointTarget
  <2>1. TlsOK' /\ UNCHANGED <<issuer, served>>
    BY <1>18 DEF PointTarget, Point
  <2>2. CASE proc.op = "install"
    BY <1>18, <2>1, <2>2 DEF PointTarget, Point, Activated, Return
  <2>3. CASE proc.op # "install"
    BY <1>18, <2>1, <2>3 DEF PointTarget, Point, At, Go
  <2> QED
    BY <2>2, <2>3
<1>19. CASE Restart
  BY <1>19 DEF Restart, RestartServes, RestartFails, At, Go
<1>20. CASE LinkBack
  <2>1. CASE tls.activeNew
    <3>1. Return("failed") /\ UNCHANGED <<tls, issuer, served>>
      BY <1>20, <2>1 DEF LinkBack, Link
    <3> QED
      BY <3>1 DEF Return
  <2>2. CASE ~tls.activeNew
    <3>1. tls' = [tls EXCEPT !.activeNew = TRUE]
      BY <1>20 DEF LinkBack, Link
    <3>2. Go("backPoint") /\ UNCHANGED <<issuer, served, claim>>
      BY <1>20, <2>2 DEF LinkBack, Link
    <3>3. TlsOK'
      BY <3>1
    <3>4. proc.target \in Materials /\ proc' = [proc EXCEPT !.pc = "backPoint"]
      BY <1>20, <3>2 DEF LinkBack, Link, At, Go
    <3> HIDE DEF TlsOK
    <3> QED
      BY <3>2, <3>3, <3>4
  <2> QED
    BY <2>1, <2>2
<1>21. CASE PointPreviousBack
  <2>1. TlsOK' /\ Go("backRestart") /\ UNCHANGED <<issuer, served, claim>> /\ proc.pc = "backPoint"
    BY <1>21 DEF PointPreviousBack, Point, PointBack, At
  <2> QED
    BY <2>1 DEF Go
<1>22. CASE RestartBack
  BY <1>22 DEF RestartBack, RestartServes, RestartFails, Return
<1>23. CASE KeepLink
  <2>1. CASE tls.previousNew
    <3>1. Return("failed") /\ UNCHANGED <<tls, issuer, served>>
      BY <1>23, <2>1 DEF KeepLink
    <3> QED
      BY <3>1 DEF Return
  <2>2. CASE ~tls.previousNew
    <3>1. tls' = [tls EXCEPT !.previousNew = TRUE]
      BY <1>23 DEF KeepLink
    <3>2. Go("keepPoint") /\ UNCHANGED <<issuer, served, claim>>
      BY <1>23, <2>2 DEF KeepLink
    <3>3. TlsOK'
      BY <3>1
    <3>4. proc.target \in Materials /\ proc' = [proc EXCEPT !.pc = "keepPoint"]
      BY <1>23, <3>2 DEF KeepLink, At, Go
    <3> HIDE DEF TlsOK
    <3> QED
      BY <3>2, <3>3, <3>4
  <2> QED
    BY <2>1, <2>2
<1>24. CASE KeepPoint
  BY <1>24 DEF KeepPoint, At, Go
<1>25. CASE Prune
  BY <1>25 DEF Prune, Activated, At, Go, Return
<1>26. CASE OrderFails
  BY <1>26 DEF OrderFails, Return
<1>27. CASE PublishFails
  BY <1>27 DEF PublishFails, Return
<1>28. CASE Refuse
  BY <1>28 DEF Refuse, Return
<1>29. CASE Kill
  BY <1>29 DEF Kill, Return
<1>30. CASE StartService
  BY <1>30 DEF StartService
<1>31. CASE UNCHANGED vars
  BY <1>31 DEF vars
<1> QED
  BY <1>1, <1>2, <1>3, <1>4, <1>5, <1>6, <1>7, <1>8, <1>9, <1>10, <1>11, <1>12, <1>13, <1>14, <1>15,
    <1>16, <1>17, <1>18, <1>19, <1>20, <1>21, <1>22, <1>23, <1>24, <1>25, <1>26, <1>27, <1>28,
    <1>29, <1>30, <1>31
  DEF Next, Proceed

\* A command stays at its own steps.
LEMMA CertificatesCommanded ==
    ASSUME TypeOK, Commanded, [Next]_vars
    PROVE  Commanded'
<1> USE DEF TypeOK, ProcOK, TlsOK, IssuerOK, Idle, ActivateSteps, Commanded
<1>1. CASE StartIssue
  BY <1>1 DEF StartIssue, Begin
<1>2. CASE StartRenew
  BY <1>2 DEF StartRenew, Begin
<1>3. CASE StartEnable
  <2> QED
    BY <1>3 DEF StartEnable, Issued, Begin, Some
<1>4. ASSUME NEW m \in Materials, StartInstall(m)
      PROVE  Commanded'
  BY <1>4 DEF StartInstall
<1>5. ASSUME NEW m \in Materials, StartReplace(m)
      PROVE  Commanded'
  BY <1>5 DEF StartReplace
<1>6. CASE MakeHome
  BY <1>6 DEF MakeHome, At, Go, Return
<1>7. CASE MarkHome
  BY <1>7 DEF MarkHome, At, Go
<1>8. CASE Order
  BY <1>8 DEF Order, At, Go
<1>9. CASE TakeMaterial
  <2>1. CASE proc.op = "renew"
    <3>1. proc' = [proc EXCEPT !.pc = "compare", !.target = issuer.lineage, !.old = tls.active]
      BY <1>9, <2>1 DEF TakeMaterial, Activate, Active
    <3>2. proc' = [op |-> proc.op, pc |-> "compare", target |-> issuer.lineage, old |-> tls.active]
      BY <3>1
    <3> QED
      BY <1>9, <2>1, <3>2 DEF TakeMaterial
  <2>2. CASE proc.op # "renew"
    BY <1>9, <2>2 DEF TakeMaterial, At, Go
  <2> QED
    BY <2>1, <2>2
<1>10. CASE Publish
  BY <1>10 DEF Publish, Return
<1>11. CASE EnterProgram
  BY <1>11 DEF EnterProgram
<1>12. CASE CopyProgram
  BY <1>12 DEF CopyProgram, Activate, At
<1>13. CASE StartTimer
  BY <1>13 DEF StartTimer, Return
<1>14. CASE Compare
  BY <1>14 DEF Compare, Activated, At, Go, Return
<1>15. CASE MakeGeneration
  BY <1>15 DEF MakeGeneration, At, Go, Return
<1>16. CASE FillGeneration
  BY <1>16 DEF FillGeneration, At, Go
<1>17. CASE LinkTarget
  BY <1>17 DEF LinkTarget, Link, At, Go, Return
<1>18. CASE PointTarget
  BY <1>18 DEF PointTarget, Point, Activated, At, Go, Return
<1>19. CASE Restart
  BY <1>19 DEF Restart, At, Go
<1>20. CASE LinkBack
  BY <1>20 DEF LinkBack, Link, At, Go, Return
<1>21. CASE PointPreviousBack
  BY <1>21 DEF PointPreviousBack, Point, At, Go
<1>22. CASE RestartBack
  BY <1>22 DEF RestartBack, Return
<1>23. CASE KeepLink
  BY <1>23 DEF KeepLink, At, Go, Return
<1>24. CASE KeepPoint
  BY <1>24 DEF KeepPoint, At, Go
<1>25. CASE Prune
  BY <1>25 DEF Prune, Activated, Go, Return
<1>26. CASE OrderFails
  BY <1>26 DEF OrderFails, Return
<1>27. CASE PublishFails
  BY <1>27 DEF PublishFails, Return
<1>28. CASE Refuse
  BY <1>28 DEF Refuse, Return
<1>29. CASE Kill
  BY <1>29 DEF Kill, Return
<1>30. CASE StartService
  BY <1>30 DEF StartService
<1>31. CASE UNCHANGED vars
  BY <1>31 DEF vars
<1> QED
  BY <1>1, <1>2, <1>3, <1>4, <1>5, <1>6, <1>7, <1>8, <1>9, <1>10, <1>11, <1>12, <1>13, <1>14, <1>15,
    <1>16, <1>17, <1>18, <1>19, <1>20, <1>21, <1>22, <1>23, <1>24, <1>25, <1>26, <1>27, <1>28,
    <1>29, <1>30, <1>31
  DEF Next, Proceed

\* The link and the generations are where activate's step says.
LEMMA CertificatesActivating ==
    ASSUME TypeOK, Commanded, Activating, PointersWhole, [Next]_vars
    PROVE  Activating'
<1> USE DEF TypeOK, ProcOK, TlsOK, IssuerOK, Idle, ActivateSteps, Commanded, Activating,
           PointersWhole, Pointing, Pointed
<1>1. CASE StartIssue
  BY <1>1 DEF StartIssue, Begin
<1>2. CASE StartRenew
  BY <1>2 DEF StartRenew, Begin
<1>3. CASE StartEnable
  BY <1>3 DEF StartEnable, Begin
<1>4. ASSUME NEW m \in Materials, StartInstall(m)
      PROVE  Activating'
  BY <1>4 DEF StartInstall, Active
<1>5. ASSUME NEW m \in Materials, StartReplace(m)
      PROVE  Activating'
  BY <1>5 DEF StartReplace, Active
<1>6. CASE MakeHome
  BY <1>6 DEF MakeHome, Go, Return
<1>7. CASE MarkHome
  BY <1>7 DEF MarkHome, Go
<1>8. CASE Order
  BY <1>8 DEF Order, Go
<1>9. CASE TakeMaterial
  <2>1. CASE proc.op = "renew"
    <3>1. proc' = [proc EXCEPT !.pc = "compare", !.target = issuer.lineage, !.old = tls.active]
      BY <1>9, <2>1 DEF TakeMaterial, Activate, Active
    <3>2. proc' = [op |-> proc.op, pc |-> "compare", target |-> issuer.lineage, old |-> tls.active]
      BY <3>1
    <3> QED
      BY <1>9, <3>2 DEF TakeMaterial
  <2>2. CASE proc.op # "renew"
    BY <1>9, <2>2 DEF TakeMaterial, Go
  <2> QED
    BY <2>1, <2>2
<1>10. CASE Publish
  BY <1>10 DEF Publish, Return
<1>11. CASE EnterProgram
  BY <1>11 DEF EnterProgram
<1>12. CASE CopyProgram
  BY <1>12 DEF CopyProgram, Activate, Active
<1>13. CASE StartTimer
  BY <1>13 DEF StartTimer, Return
<1>14. CASE Compare
  BY <1>14 DEF Compare, Activated, At, Go, Return
<1>15. CASE MakeGeneration
  <2>1. proc.pc = "generation" /\ proc.target \in Materials
    BY <1>15 DEF MakeGeneration, At
  <2>2. CASE tls.gens[proc.target] = "whole"
    BY <1>15, <2>1, <2>2 DEF MakeGeneration, Go
  <2>3. CASE tls.gens[proc.target] = "absent"
    <3>1. tls' = [tls EXCEPT !.gens[proc.target] = "partial"]
      BY <1>15, <2>3 DEF MakeGeneration
    <3>2. proc' = [proc EXCEPT !.pc = "fill"] /\ UNCHANGED <<issuer, served, claim>>
      BY <1>15, <2>3 DEF MakeGeneration, Go
    <3>3. tls'.active = tls.active /\ tls'.previous = tls.previous
      BY <3>1
    <3>4. \A m \in Materials : tls'.gens[m] = IF m = proc.target THEN "partial" ELSE tls.gens[m]
      BY <3>1
    <3>5. \A m \in Materials : tls.gens[m] = "whole" => tls'.gens[m] = "whole"
      BY <2>3, <3>4
    <3>6. tls'.gens[proc.target] = "partial"
      BY <2>1, <3>4
    <3>7. proc' = [op |-> proc.op, pc |-> "fill", target |-> proc.target, old |-> proc.old]
      BY <3>2
    <3> QED
      <4>1. proc'.pc = "fill" /\ proc'.target = proc.target /\ proc'.old = proc.old
        BY <3>7
      <4>2. proc.old = tls.active
        BY <2>1
      <4>4. proc.old # None => proc.old \in Materials
        BY DEF Some
      <4> QED
        BY <4>1, <4>2, <4>4, <3>3, <3>5, <3>6
  <2>4. CASE tls.gens[proc.target] = "partial"
    BY <1>15, <2>4 DEF MakeGeneration, Return
  <2> QED
    BY <2>1, <2>2, <2>3, <2>4
<1>16. CASE FillGeneration
  BY <1>16 DEF FillGeneration, At, Go
<1>17. CASE LinkTarget
  BY <1>17 DEF LinkTarget, Link, At, Go, Return
<1>18. CASE PointTarget
  BY <1>18 DEF PointTarget, Point, Activated, At, Go, Return
<1>19. CASE Restart
  BY <1>19 DEF Restart, At, Go
<1>20. CASE LinkBack
  BY <1>20 DEF LinkBack, Link, At, Go, Return
<1>21. CASE PointPreviousBack
  BY <1>21 DEF PointPreviousBack, Point, PointBack, At, Go
<1>22. CASE RestartBack
  BY <1>22 DEF RestartBack, Return
<1>23. CASE KeepLink
  BY <1>23 DEF KeepLink, At, Go, Return
<1>24. CASE KeepPoint
  BY <1>24 DEF KeepPoint, At, Go
<1>25. CASE Prune
  BY <1>25 DEF Prune, Activated, Go, Return
<1>26. CASE OrderFails
  BY <1>26 DEF OrderFails, Return
<1>27. CASE PublishFails
  BY <1>27 DEF PublishFails, Return
<1>28. CASE Refuse
  BY <1>28 DEF Refuse, Return
<1>29. CASE Kill
  BY <1>29 DEF Kill, Return
<1>30. CASE StartService
  BY <1>30 DEF StartService
<1>31. CASE UNCHANGED vars
  BY <1>31 DEF vars
<1> QED
  BY <1>1, <1>2, <1>3, <1>4, <1>5, <1>6, <1>7, <1>8, <1>9, <1>10, <1>11, <1>12, <1>13, <1>14, <1>15,
    <1>16, <1>17, <1>18, <1>19, <1>20, <1>21, <1>22, <1>23, <1>24, <1>25, <1>26, <1>27, <1>28,
    <1>29, <1>30, <1>31
  DEF Next, Proceed

\* The links name whole generations.
LEMMA CertificatesPointed ==
    ASSUME TypeOK, Commanded, Activating, PointersWhole, [Next]_vars
    PROVE  PointersWhole'
<1> USE DEF TypeOK, ProcOK, TlsOK, IssuerOK, Idle, ActivateSteps, Activating, PointersWhole,
           Pointing, Pointed
<1>1. CASE StartIssue
  BY <1>1 DEF StartIssue, Begin
<1>2. CASE StartRenew
  BY <1>2 DEF StartRenew, Begin
<1>3. CASE StartEnable
  BY <1>3 DEF StartEnable, Begin
<1>4. ASSUME NEW m \in Materials, StartInstall(m)
      PROVE  PointersWhole'
  BY <1>4 DEF StartInstall
<1>5. ASSUME NEW m \in Materials, StartReplace(m)
      PROVE  PointersWhole'
  BY <1>5 DEF StartReplace
<1>6. CASE MakeHome
  BY <1>6 DEF MakeHome
<1>7. CASE MarkHome
  BY <1>7 DEF MarkHome
<1>8. CASE Order
  BY <1>8 DEF Order
<1>9. CASE TakeMaterial
  BY <1>9 DEF TakeMaterial
<1>10. CASE Publish
  BY <1>10 DEF Publish
<1>11. CASE EnterProgram
  BY <1>11 DEF EnterProgram
<1>12. CASE CopyProgram
  BY <1>12 DEF CopyProgram
<1>13. CASE StartTimer
  BY <1>13 DEF StartTimer
<1>14. CASE Compare
  BY <1>14 DEF Compare
<1>15. CASE MakeGeneration
  <2>1. proc.pc = "generation" /\ proc.target \in Materials
    BY <1>15 DEF MakeGeneration, At
  <2>2. CASE tls.gens[proc.target] = "whole"
    BY <1>15, <2>2 DEF MakeGeneration
  <2>3. CASE tls.gens[proc.target] = "absent"
    <3>1. tls' = [tls EXCEPT !.gens[proc.target] = "partial"]
      BY <1>15, <2>3 DEF MakeGeneration
    <3>3. tls'.active = tls.active /\ tls'.previous = tls.previous
      BY <3>1
    <3>4. \A m \in Materials : tls'.gens[m] = IF m = proc.target THEN "partial" ELSE tls.gens[m]
      BY <3>1
    <3>5. \A m \in Materials : tls.gens[m] = "whole" => tls'.gens[m] = "whole"
      BY <2>3, <3>4
    <3> QED
      <4>1. tls.active # None => tls.active \in Materials
        BY DEF Some
      <4>2. tls.previous # None => tls.previous \in Materials
        BY DEF Some
      <4> QED
        BY <4>1, <4>2, <3>3, <3>5
  <2>4. CASE tls.gens[proc.target] = "partial"
    BY <1>15, <2>4 DEF MakeGeneration
  <2> QED
    BY <2>1, <2>2, <2>3, <2>4
<1>16. CASE FillGeneration
  BY <1>16 DEF FillGeneration
<1>17. CASE LinkTarget
  BY <1>17 DEF LinkTarget, Link
<1>18. CASE PointTarget
  BY <1>18 DEF PointTarget, Point, At
<1>19. CASE Restart
  BY <1>19 DEF Restart
<1>20. CASE LinkBack
  BY <1>20 DEF LinkBack, Link
<1>21. CASE PointPreviousBack
  BY <1>21 DEF PointPreviousBack, Point, PointBack, At
<1>22. CASE RestartBack
  BY <1>22 DEF RestartBack
<1>23. CASE KeepLink
  BY <1>23 DEF KeepLink
<1>24. CASE KeepPoint
  BY <1>24 DEF KeepPoint, At
<1>25. CASE Prune
  <2> QED
    BY <1>25 DEF Prune, At, Keep, Some
<1>26. CASE OrderFails
  BY <1>26 DEF OrderFails
<1>27. CASE PublishFails
  BY <1>27 DEF PublishFails
<1>28. CASE Refuse
  BY <1>28 DEF Refuse
<1>29. CASE Kill
  BY <1>29 DEF Kill
<1>30. CASE StartService
  BY <1>30 DEF StartService
<1>31. CASE UNCHANGED vars
  BY <1>31 DEF vars
<1> QED
  BY <1>1, <1>2, <1>3, <1>4, <1>5, <1>6, <1>7, <1>8, <1>9, <1>10, <1>11, <1>12, <1>13, <1>14, <1>15,
    <1>16, <1>17, <1>18, <1>19, <1>20, <1>21, <1>22, <1>23, <1>24, <1>25, <1>26, <1>27, <1>28,
    <1>29, <1>30, <1>31
  DEF Next, Proceed

\* What was verified is still served.
LEMMA CertificatesVerified ==
    ASSUME TypeOK, Commanded, Activating, Verified, [Next]_vars
    PROVE  Verified'
<1> USE DEF TypeOK, ProcOK, TlsOK, IssuerOK, Idle, ActivateSteps, Commanded, Activating, Verified,
           Pointing, Pointed
<1>1. CASE StartIssue
  BY <1>1 DEF StartIssue, Begin
<1>2. CASE StartRenew
  BY <1>2 DEF StartRenew, Begin
<1>3. CASE StartEnable
  BY <1>3 DEF StartEnable, Begin
<1>4. ASSUME NEW m \in Materials, StartInstall(m)
      PROVE  Verified'
  BY <1>4 DEF StartInstall
<1>5. ASSUME NEW m \in Materials, StartReplace(m)
      PROVE  Verified'
  BY <1>5 DEF StartReplace
<1>6. CASE MakeHome
  BY <1>6 DEF MakeHome, Go, Return
<1>7. CASE MarkHome
  BY <1>7 DEF MarkHome, Go
<1>8. CASE Order
  BY <1>8 DEF Order, Go
<1>9. CASE TakeMaterial
  <2>1. CASE proc.op = "renew"
    <3>1. proc' = [proc EXCEPT !.pc = "compare", !.target = issuer.lineage, !.old = tls.active]
      BY <1>9, <2>1 DEF TakeMaterial, Activate, Active
    <3>2. proc' = [op |-> proc.op, pc |-> "compare", target |-> issuer.lineage, old |-> tls.active]
      BY <3>1
    <3> QED
      BY <3>2
  <2>2. CASE proc.op # "renew"
    BY <1>9, <2>2 DEF TakeMaterial, At, Go
  <2> QED
    BY <2>1, <2>2
<1>10. CASE Publish
  BY <1>10 DEF Publish, Return
<1>11. CASE EnterProgram
  BY <1>11 DEF EnterProgram
<1>12. CASE CopyProgram
  BY <1>12 DEF CopyProgram, Activate
<1>13. CASE StartTimer
  BY <1>13 DEF StartTimer, Return
<1>14. CASE Compare
  BY <1>14 DEF Compare, Serving, RestartServes, Activated, At, Go, Return
<1>15. CASE MakeGeneration
  BY <1>15 DEF MakeGeneration, Go, Return
<1>16. CASE FillGeneration
  BY <1>16 DEF FillGeneration, Go
<1>17. CASE LinkTarget
  BY <1>17 DEF LinkTarget, Link, Go, Return
<1>18. CASE PointTarget
  BY <1>18 DEF PointTarget, Point, Activated, Go, Return
<1>19. CASE Restart
  BY <1>19 DEF Restart, RestartServes, At, Go
<1>20. CASE LinkBack
  BY <1>20 DEF LinkBack, Link, Go, Return
<1>21. CASE PointPreviousBack
  BY <1>21 DEF PointPreviousBack, Point, Go
<1>22. CASE RestartBack
  BY <1>22 DEF RestartBack, Return
<1>23. CASE KeepLink
  BY <1>23 DEF KeepLink, At
<1>24. CASE KeepPoint
  BY <1>24 DEF KeepPoint, At
<1>25. CASE Prune
  BY <1>25 DEF Prune, At
<1>26. CASE OrderFails
  BY <1>26 DEF OrderFails, Return
<1>27. CASE PublishFails
  BY <1>27 DEF PublishFails, Return
<1>28. CASE Refuse
  BY <1>28 DEF Refuse, Return
<1>29. CASE Kill
  BY <1>29 DEF Kill, Return
<1>30. CASE StartService
  BY <1>30 DEF StartService
<1>31. CASE UNCHANGED vars
  BY <1>31 DEF vars
<1> QED
  BY <1>1, <1>2, <1>3, <1>4, <1>5, <1>6, <1>7, <1>8, <1>9, <1>10, <1>11, <1>12, <1>13, <1>14, <1>15,
    <1>16, <1>17, <1>18, <1>19, <1>20, <1>21, <1>22, <1>23, <1>24, <1>25, <1>26, <1>27, <1>28,
    <1>29, <1>30, <1>31
  DEF Next, Proceed

\* What is reported is what is served.
LEMMA CertificatesReported ==
    ASSUME TypeOK, Commanded, Activating, Verified, OutcomeServed, [Next]_vars
    PROVE  OutcomeServed'
<1> USE DEF TypeOK, ProcOK, TlsOK, IssuerOK, Idle, ActivateSteps, Commanded, Activating, Verified,
           OutcomeServed, Pointing, Pointed
<1>1. CASE StartIssue
  BY <1>1 DEF StartIssue, Begin
<1>2. CASE StartRenew
  BY <1>2 DEF StartRenew, Begin
<1>3. CASE StartEnable
  BY <1>3 DEF StartEnable, Begin
<1>4. ASSUME NEW m \in Materials, StartInstall(m)
      PROVE  OutcomeServed'
  BY <1>4 DEF StartInstall
<1>5. ASSUME NEW m \in Materials, StartReplace(m)
      PROVE  OutcomeServed'
  BY <1>5 DEF StartReplace
<1>6. CASE MakeHome
  BY <1>6 DEF MakeHome, Return
<1>7. CASE MarkHome
  BY <1>7 DEF MarkHome
<1>8. CASE Order
  BY <1>8 DEF Order
<1>9. CASE TakeMaterial
  BY <1>9 DEF TakeMaterial
<1>10. CASE Publish
  BY <1>10 DEF Publish, At, Return
<1>11. CASE EnterProgram
  BY <1>11 DEF EnterProgram
<1>12. CASE CopyProgram
  BY <1>12 DEF CopyProgram
<1>13. CASE StartTimer
  BY <1>13 DEF StartTimer, At
<1>14. CASE Compare
  BY <1>14 DEF Compare, Serving, RestartServes, Activated, At, Return
<1>15. CASE MakeGeneration
  BY <1>15 DEF MakeGeneration, Return
<1>16. CASE FillGeneration
  BY <1>16 DEF FillGeneration
<1>17. CASE LinkTarget
  BY <1>17 DEF LinkTarget, Link, Return
<1>18. CASE PointTarget
  BY <1>18 DEF PointTarget, Point, Activated, At, Return
<1>19. CASE Restart
  BY <1>19 DEF Restart, At
<1>20. CASE LinkBack
  BY <1>20 DEF LinkBack, Link, Return
<1>21. CASE PointPreviousBack
  BY <1>21 DEF PointPreviousBack, Point, At
<1>22. CASE RestartBack
  BY <1>22 DEF RestartBack, RestartServes, Return
<1>23. CASE KeepLink
  BY <1>23 DEF KeepLink, Return
<1>24. CASE KeepPoint
  BY <1>24 DEF KeepPoint
<1>25. CASE Prune
  BY <1>25 DEF Prune, At
<1>26. CASE OrderFails
  BY <1>26 DEF OrderFails, Return
<1>27. CASE PublishFails
  BY <1>27 DEF PublishFails, Return
<1>28. CASE Refuse
  BY <1>28 DEF Refuse, Return
<1>29. CASE Kill
  BY <1>29 DEF Kill, Return
<1>30. CASE StartService
  BY <1>30 DEF StartService
<1>31. CASE UNCHANGED vars
  BY <1>31 DEF vars
<1> QED
  BY <1>1, <1>2, <1>3, <1>4, <1>5, <1>6, <1>7, <1>8, <1>9, <1>10, <1>11, <1>12, <1>13, <1>14, <1>15,
    <1>16, <1>17, <1>18, <1>19, <1>20, <1>21, <1>22, <1>23, <1>24, <1>25, <1>26, <1>27, <1>28,
    <1>29, <1>30, <1>31
  DEF Next, Proceed

\* What is reported as undone is back at the old certificate.
LEMMA ActivationUndone ==
    ASSUME CertificateInv, [Next]_vars
    PROVE  (claim' \in {"recovered", "unrecovered"} /\ claim = "none" => tls'.active = proc.old)
<1> USE DEF TypeOK, ProcOK, TlsOK, IssuerOK, Idle, ActivateSteps, CertificateInv, Commanded,
           Activating, Pointing, Pointed
<1>1. CASE StartIssue
  BY <1>1 DEF StartIssue, Begin
<1>2. CASE StartRenew
  BY <1>2 DEF StartRenew, Begin
<1>3. CASE StartEnable
  BY <1>3 DEF StartEnable, Begin
<1>4. ASSUME NEW m \in Materials, StartInstall(m)
      PROVE  (claim' \in {"recovered", "unrecovered"} /\ claim = "none" => tls'.active = proc.old)
  BY <1>4 DEF StartInstall
<1>5. ASSUME NEW m \in Materials, StartReplace(m)
      PROVE  (claim' \in {"recovered", "unrecovered"} /\ claim = "none" => tls'.active = proc.old)
  BY <1>5 DEF StartReplace
<1>6. CASE MakeHome
  BY <1>6 DEF MakeHome, Return
<1>7. CASE MarkHome
  BY <1>7 DEF MarkHome
<1>8. CASE Order
  BY <1>8 DEF Order
<1>9. CASE TakeMaterial
  BY <1>9 DEF TakeMaterial
<1>10. CASE Publish
  BY <1>10 DEF Publish, Return
<1>11. CASE EnterProgram
  BY <1>11 DEF EnterProgram
<1>12. CASE CopyProgram
  BY <1>12 DEF CopyProgram
<1>13. CASE StartTimer
  BY <1>13 DEF StartTimer, Return
<1>14. CASE Compare
  BY <1>14 DEF Compare, At
<1>15. CASE MakeGeneration
  BY <1>15 DEF MakeGeneration, Return
<1>16. CASE FillGeneration
  BY <1>16 DEF FillGeneration
<1>17. CASE LinkTarget
  BY <1>17 DEF LinkTarget, Link, Return
<1>18. CASE PointTarget
  BY <1>18 DEF PointTarget, Point, Activated, Return
<1>19. CASE Restart
  BY <1>19 DEF Restart
<1>20. CASE LinkBack
  BY <1>20 DEF LinkBack, Link, Return
<1>21. CASE PointPreviousBack
  BY <1>21 DEF PointPreviousBack, Point
<1>22. CASE RestartBack
  BY <1>22 DEF RestartBack, At
<1>23. CASE KeepLink
  BY <1>23 DEF KeepLink, Return
<1>24. CASE KeepPoint
  BY <1>24 DEF KeepPoint
<1>25. CASE Prune
  BY <1>25 DEF Prune, Activated, Return
<1>26. CASE OrderFails
  BY <1>26 DEF OrderFails, Return
<1>27. CASE PublishFails
  BY <1>27 DEF PublishFails, Return
<1>28. CASE Refuse
  BY <1>28 DEF Refuse, Return
<1>29. CASE Kill
  BY <1>29 DEF Kill, Return
<1>30. CASE StartService
  BY <1>30 DEF StartService
<1>31. CASE UNCHANGED vars
  BY <1>31 DEF vars
<1> QED
  BY <1>1, <1>2, <1>3, <1>4, <1>5, <1>6, <1>7, <1>8, <1>9, <1>10, <1>11, <1>12, <1>13, <1>14, <1>15,
    <1>16, <1>17, <1>18, <1>19, <1>20, <1>21, <1>22, <1>23, <1>24, <1>25, <1>26, <1>27, <1>28,
    <1>29, <1>30, <1>31
  DEF Next, Proceed

LEMMA CertificateInit == Init => CertificateInv
BY DEF Init, CertificateInv, TypeOK, ProcOK, TlsOK, IssuerOK, Idle, Steps, ActivateSteps, Claims,
      Some, Commanded, Activating, Verified, PointersWhole, OutcomeServed

LEMMA CertificateStep == CertificateInv /\ [Next]_vars => CertificateInv'
BY CertificatesTyped, CertificatesCommanded, CertificatesActivating, CertificatesPointed,
  CertificatesVerified, CertificatesReported
DEF CertificateInv
-----------------------------------------------------------------------------
(* The installation of an application.                                     *)

\* The command is beyond step s.
Past(s) == \E i \in 1..Len(Install!Plan) : i < installer.at /\ Install!Plan[i] = s

Application == site.app \in {"matrix", "nextcloud"}

\* A command is at a step of its plan.
InstallTyped == Install!TypeOK /\ installer.at <= Len(Install!Plan)

\* What is being written is partial, and the credentials that are written were drawn.
InstallWriting ==
    installer.busy =>
        /\ \A f \in Install!Files : Install!At(f) => disk[f] = "partial"
        /\ Install!At("secrets") => installer.secret \in Secrets

\* The database is asked for, or there is something of it.
Committed == "postgres" \in units.asked \/ units.enabled \/ database # None

\* The credentials on the disk are those the command uses, and they are there before anything
\* is made of them.
InstallCredentials ==
    /\ Past("secrets") => disk["secrets"] \in Secrets /\ installer.secret = disk["secrets"]
    /\ site.app = "matrix" /\ Past("configuration") => disk["configuration"] \in Secrets
    /\ site.app = "matrix" /\ disk["configuration"] \in Secrets =>
           disk["configuration"] = disk["secrets"]
    /\ Application /\ Committed =>
           disk["secrets"] \in Secrets /\ (site.app = "matrix" => disk["configuration"] \in Secrets)
    /\ ~Application => "postgres" \notin units.asked /\ database = None
    /\ database \in Secrets => disk["secrets"] = database

\* The identity is taken from the first configuration before that goes.
InstallIdentified ==
    /\ bootstrap.running => bootstrap.config = "partial"
    /\ disk["identity"] = "partial" => bootstrap.config = "whole"
    /\ disk["identity"] = "whole" => bootstrap.config # "partial"
    /\ bootstrap.used => bootstrap.config = "whole" \/ disk["identity"] = "whole"
    /\ Past("identity") => disk["identity"] = "whole"
    /\ Past("freeze") => disk["identity"] = "whole" /\ bootstrap.config = "absent"

\* The proxy of the files is asked for, or runs, once everything else is as it has to be.
InstallPrepared ==
    /\ Past("demote") => "demoted" \in settled
    /\ Past("controls") => "controls" \in settled
    /\ site.app = "nextcloud" /\ ("proxy" \in units.asked \union units.up \/ units.enabled) =>
           /\ settled = {"demoted", "controls"}
           /\ disk["identity"] = "whole" /\ bootstrap.config = "absent"
    /\ "proxy" \in units.up => fence

InstallInv ==
    InstallTyped /\ InstallWriting /\ InstallCredentials /\ InstallIdentified /\ InstallPrepared


\* A portable site's node records its identity before the installer's own steps.
Shift == IF site.portable /\ site.app # "frontend" THEN 1 ELSE 0

\* The installer's steps in the plan.
LEMMA PlanSteps ==
    ASSUME Install!TypeOK
    PROVE  LET steps == Install!Installer(site.app) IN
           /\ Len(Install!Plan) = Len(steps) + Shift
           /\ \A i \in 1..Len(steps) : Install!Plan[i + Shift] = steps[i]
           /\ Shift = 1 => Install!Plan[1] = "network"
<1> DEFINE steps == Install!Installer(site.app)
<1> HIDE DEF steps
<1>2. CASE Shift = 1
  <2>1. Install!Plan = <<"network">> \o steps
    BY <1>2 DEF Shift, Install!Plan, steps
  <2> QED
    BY <1>2, <2>1 DEF steps
<1>3. CASE Shift = 0
  <2>1. Install!Plan = steps
    BY <1>3 DEF Shift, Install!Plan, steps
  <2> QED
    BY <1>3, <2>1 DEF steps
<1> QED
  BY <1>2, <1>3 DEF Shift

\* What the command is at, in terms of the installer's own steps.
LEMMA PlaceOfStep ==
    ASSUME InstallTyped, NEW s, s # "network", Install!At(s)
    PROVE  LET steps == Install!Installer(site.app) IN
           \E i \in 1..Len(steps) :
               /\ installer.at = i + Shift /\ steps[i] = s
               /\ \A j \in 1..(i - 1) : Past(steps[j])
<1> DEFINE steps == Install!Installer(site.app)
<1>1. /\ Len(Install!Plan) = Len(steps) + Shift
      /\ \A i \in 1..Len(steps) : Install!Plan[i + Shift] = steps[i]
      /\ Shift = 1 => Install!Plan[1] = "network"
  BY PlanSteps DEF InstallTyped
<1>2. installer.at \in Nat /\ installer.at > 0 /\ installer.at <= Len(Install!Plan)
      /\ Install!Plan[installer.at] = s
  BY DEF InstallTyped, Install!TypeOK, Install!At, Install!Running
<1>3. Len(steps) \in Nat /\ Shift \in {0, 1}
  BY DEF Shift
<1> HIDE DEF steps
<1> DEFINE i == installer.at - Shift
<1>4. i \in 1..Len(steps)
  BY <1>1, <1>2, <1>3
<1>5. steps[i] = s /\ installer.at = i + Shift
  BY <1>1, <1>2, <1>3, <1>4
<1>6. ASSUME NEW j \in 1..(i - 1)
      PROVE  Past(steps[j])
  <2>1. j + Shift \in 1..Len(Install!Plan) /\ j + Shift < installer.at
        /\ Install!Plan[j + Shift] = steps[j]
    BY <1>1, <1>2, <1>3
  <2> QED
    BY <2>1 DEF Past
<1> QED
  BY <1>4, <1>5, <1>6 DEF steps

\* What is behind the chat's installer at a step.
LEMMA MatrixOrder ==
    ASSUME InstallTyped, site.app = "matrix"
    PROVE  /\ Install!At("configuration") => Past("secrets")
           /\ Install!At("enable") \/ Install!At("proxy") => Past("secrets") /\ Past("configuration")
           /\ ~Install!At("database") /\ ~Install!At("application") /\ ~Install!At("freeze")
           /\ Install!At("secrets") => installer.at < Len(Install!Plan)
<1> DEFINE steps == Install!Installer(site.app)
<1>1. Len(steps) = 13
      /\ steps[1] = "base" /\ steps[2] = "owner" /\ steps[3] = "folders" /\ steps[4] = "runtime"
      /\ steps[5] = "secrets" /\ steps[6] = "data" /\ steps[7] = "configuration" /\ steps[8] = "tls"
      /\ steps[9] = "program" /\ steps[10] = "services" /\ steps[11] = "fence"
      /\ steps[12] = "enable" /\ steps[13] = "proxy"
  BY DEF Install!Installer, Install!MatrixSteps
<1>2. Len(Install!Plan) = Len(steps) + Shift
  BY PlanSteps DEF InstallTyped
<1> HIDE DEF steps
<1>3. ASSUME NEW s \in {"configuration", "enable", "proxy", "database", "application", "freeze", "secrets"},
             Install!At(s)
      PROVE  \E i \in 1..13 :
                 /\ installer.at = i + Shift /\ steps[i] = s
                 /\ \A j \in 1..(i - 1) : Past(steps[j])
  <2>2. \E i \in 1..Len(steps) :
            /\ installer.at = i + Shift /\ steps[i] = s
            /\ \A j \in 1..(i - 1) : Past(steps[j])
    BY <1>3, PlaceOfStep DEF steps
  <2> QED
    BY <1>1, <2>2
<1>4. Install!At("configuration") => Past("secrets")
  BY <1>1, <1>3
<1>5. Install!At("enable") \/ Install!At("proxy") => Past("secrets") /\ Past("configuration")
  BY <1>1, <1>3
<1>6. ~Install!At("database") /\ ~Install!At("application") /\ ~Install!At("freeze")
  BY <1>1, <1>3
<1>7. Install!At("secrets") => installer.at < Len(Install!Plan)
  BY <1>1, <1>2, <1>3 DEF Shift
<1> QED
  BY <1>4, <1>5, <1>6, <1>7

\* What is behind the files' installer at a step.
LEMMA NextcloudOrder ==
    ASSUME InstallTyped, site.app = "nextcloud"
    PROVE  /\ \A s \in {"database", "application", "enable", "proxy"} :
                  Install!At(s) => Past("secrets")
           /\ \A s \in {"freeze", "enable", "proxy"} : Install!At(s) => Past("identity")
           /\ \A s \in {"enable", "proxy"} :
                  Install!At(s) => Past("freeze") /\ Past("demote") /\ Past("controls")
           /\ Install!At("secrets") => installer.at < Len(Install!Plan)
<1> DEFINE steps == Install!Installer(site.app)
<1>1. Len(steps) = 23
      /\ steps[1] = "base" /\ steps[2] = "owner" /\ steps[3] = "folders" /\ steps[4] = "runtime"
      /\ steps[5] = "secrets" /\ steps[6] = "data" /\ steps[7] = "configuration"
      /\ steps[8] = "program" /\ steps[9] = "services" /\ steps[10] = "fence"
      /\ steps[11] = "database" /\ steps[12] = "seeded" /\ steps[13] = "install"
      /\ steps[14] = "identity" /\ steps[15] = "application-config" /\ steps[16] = "freeze"
      /\ steps[17] = "demote" /\ steps[18] = "tls" /\ steps[19] = "controls"
      /\ steps[20] = "application" /\ steps[21] = "verify" /\ steps[22] = "enable"
      /\ steps[23] = "proxy"
  BY DEF Install!Installer, Install!NextcloudSteps
<1>2. Len(Install!Plan) = Len(steps) + Shift
  BY PlanSteps DEF InstallTyped
<1> HIDE DEF steps
<1>3. ASSUME NEW s \in {"database", "application", "enable", "proxy", "freeze", "secrets"}, Install!At(s)
      PROVE  \E i \in 1..23 :
                 /\ installer.at = i + Shift /\ steps[i] = s
                 /\ \A j \in 1..(i - 1) : Past(steps[j])
  <2>2. \E i \in 1..Len(steps) :
            /\ installer.at = i + Shift /\ steps[i] = s
            /\ \A j \in 1..(i - 1) : Past(steps[j])
    BY <1>3, PlaceOfStep DEF steps
  <2> QED
    BY <1>1, <2>2
<1>4. \A i \in 1..23 :
          /\ steps[i] \in {"database", "application", "enable", "proxy"} => i > 5
          /\ steps[i] \in {"freeze", "enable", "proxy"} => i > 14
          /\ steps[i] \in {"enable", "proxy"} => i > 19
          /\ steps[i] = "secrets" => i < 23
  BY <1>1
<1>5. \A s \in {"database", "application", "enable", "proxy"} : Install!At(s) => Past("secrets")
  BY <1>1, <1>3
<1>6. \A s \in {"freeze", "enable", "proxy"} : Install!At(s) => Past("identity")
  BY <1>1, <1>3
<1>7. \A s \in {"enable", "proxy"} : Install!At(s) => Past("freeze") /\ Past("demote") /\ Past("controls")
  <2>1. ASSUME NEW s \in {"enable", "proxy"}, Install!At(s)
        PROVE  Past("freeze") /\ Past("demote") /\ Past("controls")
    <3>1. PICK i \in 1..23 : steps[i] = s /\ \A j \in 1..(i - 1) : Past(steps[j])
      BY <1>3, <2>1
    <3>2. i > 19
      BY <1>4, <3>1
    <3>3. Past(steps[16]) /\ Past(steps[17]) /\ Past(steps[19])
      BY <3>1, <3>2
    <3> QED
      BY <1>1, <3>3
  <2> QED
    BY <2>1
<1>8. Install!At("secrets") => installer.at < Len(Install!Plan)
  BY <1>1, <1>2, <1>3 DEF Shift
<1> QED
  BY <1>5, <1>6, <1>7, <1>8

\* The frontend and the gateway have neither credentials nor a database.
LEMMA OtherOrder ==
    ASSUME InstallTyped, ~Application
    PROVE  \A s \in {"secrets", "database", "application", "identity", "freeze"} : ~Install!At(s)
<1> DEFINE steps == Install!Installer(site.app)
<1> SUFFICES ASSUME NEW s \in {"secrets", "database", "application", "identity", "freeze"}, Install!At(s)
             PROVE  FALSE
  OBVIOUS
<1>1. \A i \in 1..Len(steps) : steps[i] # s
  <2>1. CASE site.app = "frontend"
    BY <2>1 DEF Install!Installer, Install!FrontendSteps
  <2>2. CASE site.app = "gateway"
    BY <2>2 DEF Install!Installer, Install!GatewaySteps
  <2> QED
    BY <2>1, <2>2 DEF InstallTyped, Install!TypeOK, Application
<1> HIDE DEF steps
<1> QED
  BY <1>1, PlaceOfStep DEF steps


\* Moves of the command: to its next step, to the beginning or the end, or none.
LEMMA Continued ==
    ASSUME InstallTyped, site' = site, Install!Continue \/ Install!Refuse, NEW s, Install!At(s)
    PROVE  /\ installer' \in [at : Nat, busy : BOOLEAN, secret : Secrets \union {None}]
           /\ installer'.at <= Len(Install!Plan)' /\ ~installer'.busy /\ done' \in BOOLEAN
           /\ \A t : Past(t)' => (Past(t) \/ t = s) /\ installer'.secret = installer.secret
<1>1. Install!Plan' = Install!Plan
  BY DEF Install!Plan
<1>2. Len(Install!Plan) \in Nat /\ installer.at \in Nat /\ installer.at <= Len(Install!Plan)
  <2> QED
    BY DEF InstallTyped, Install!TypeOK
<1>3. CASE Install!Continue /\ installer.at = Len(Install!Plan)
  <2>1. installer' = [at |-> 0, busy |-> FALSE, secret |-> None] /\ done' = TRUE
    BY <1>3 DEF Install!Continue, Install!Idle
  <2>2. \A t : ~Past(t)'
    BY <2>1 DEF Past
  <2> QED
    BY <2>1, <2>2
<1>4. CASE Install!Continue /\ installer.at # Len(Install!Plan)
  <2>1. installer' = [at |-> installer.at + 1, busy |-> FALSE, secret |-> installer.secret] /\ done' = done
    BY <1>4 DEF Install!Continue, InstallTyped, Install!TypeOK
  <2>2. \A t : Past(t)' => Past(t) \/ t = s
    BY <1>1, <1>2, <2>1 DEF Past, Install!At
  <2>3. installer'.at <= Len(Install!Plan)' /\ installer'.at \in Nat
    BY <1>1, <1>2, <1>4, <2>1
  <2>4. installer.secret \in Secrets \union {None} /\ done \in BOOLEAN
    BY DEF InstallTyped, Install!TypeOK
  <2> QED
    BY <2>1, <2>2, <2>3, <2>4
<1>5. CASE Install!Refuse
  <2>1. installer' = [at |-> 0, busy |-> FALSE, secret |-> None] /\ done' = done
    BY <1>5 DEF Install!Refuse, Install!Idle
  <2>2. \A t : ~Past(t)'
    BY <2>1 DEF Past
  <2> QED
    BY <2>1, <2>2 DEF InstallTyped, Install!TypeOK
<1> QED
  BY <1>3, <1>4, <1>5

LEMMA PlanNotEmpty ==
    ASSUME InstallTyped, site' = site
    PROVE  Install!Plan' = Install!Plan /\ Len(Install!Plan) \in Nat /\ Len(Install!Plan) >= 1
<1>1. Len(Install!Installer(site.app)) \in Nat /\ Len(Install!Installer(site.app)) >= 1
  BY DEF InstallTyped, Install!TypeOK, Install!Installer, Install!MatrixSteps,
        Install!NextcloudSteps, Install!FrontendSteps, Install!GatewaySteps
<1>2. Install!Plan' = Install!Plan
  BY DEF Install!Plan
<1> QED
  BY <1>1, <1>2, PlanSteps DEF InstallTyped, Shift

LEMMA Restarted ==
    ASSUME installer'.at \in {0, 1}
    PROVE  \A t : ~Past(t)'
BY DEF Past

LEMMA Unmoved ==
    ASSUME site' = site, installer'.at = installer.at
    PROVE  /\ Install!Plan' = Install!Plan
           /\ \A t : (Past(t)' <=> Past(t)) /\ (Install!At(t)' <=> Install!At(t))
<1>1. Install!Plan' = Install!Plan
  BY DEF Install!Plan
<1> QED
  BY <1>1 DEF Past, Install!At, Install!Running

\* A command begins with its first step.
LEMMA StartInstallStep ==
    ASSUME InstallInv, Install!StartInstall
    PROVE  InstallInv'
<1>1. InstallTyped /\ InstallWriting /\ InstallCredentials /\ InstallIdentified /\ InstallPrepared
  BY DEF InstallInv
<1>2. UNCHANGED <<site, disk, database, bootstrap, settled, fence, units, cuts, done>>
  BY DEF Install!StartInstall, Install!Data, Install!Kernel
<1>3. installer' = [at |-> 1, busy |-> FALSE, secret |-> None]
  BY DEF Install!StartInstall, Install!Idle
<1>4. Install!Plan' = Install!Plan /\ Len(Install!Plan) \in Nat /\ Len(Install!Plan) >= 1
  BY <1>1, <1>2, PlanNotEmpty
<1>5. \A t : ~Past(t)'
  BY <1>3, Restarted
<1>6. InstallTyped'
  BY <1>1, <1>2, <1>3, <1>4 DEF InstallTyped, Install!TypeOK
<1>7. InstallWriting'
  BY <1>3 DEF InstallWriting
<1>8. InstallCredentials'
  BY <1>1, <1>2, <1>5 DEF InstallCredentials, Committed, Application
<1>9. InstallIdentified'
  BY <1>1, <1>2, <1>5 DEF InstallIdentified
<1>10. InstallPrepared'
  BY <1>1, <1>2, <1>5 DEF InstallPrepared
<1> QED
  BY <1>6, <1>7, <1>8, <1>9, <1>10 DEF InstallInv

\* A file that is as it should be is kept.
LEMMA KeepStep ==
    ASSUME InstallInv, Install!Keep
    PROVE  InstallInv'
<1>1. InstallTyped /\ InstallWriting /\ InstallCredentials /\ InstallIdentified /\ InstallPrepared
  BY DEF InstallInv
<1>2. UNCHANGED <<site, disk, database, bootstrap, settled, fence, units, cuts>>
  BY DEF Install!Keep, Install!Data, Install!Kernel
<1>3. PICK f \in Install!Files \ {"secrets"} : Install!At(f) /\ (Install!Kept(f) \/ Install!Skipped(f))
  BY DEF Install!Keep
<1>4. Install!Continue
  BY DEF Install!Keep
<1>5. f \notin {"freeze", "demote", "controls", "install", "fence", "secrets"}
  BY DEF Install!Files
<1>6. f = "identity" => disk["identity"] = "whole"
  BY <1>3 DEF Install!Kept, Install!Skipped, Install!Content
<1>7. site.app = "matrix" /\ f = "configuration" => disk["configuration"] \in Secrets
  BY <1>1, <1>3, MatrixOrder DEF Install!Kept, Install!Skipped, Install!Content, InstallCredentials
<1>8. /\ installer' \in [at : Nat, busy : BOOLEAN, secret : Secrets \union {None}]
      /\ installer'.at <= Len(Install!Plan)' /\ ~installer'.busy /\ done' \in BOOLEAN
      /\ \A t : Past(t)' => (Past(t) \/ t = f) /\ installer'.secret = installer.secret
  BY <1>1, <1>2, <1>3, <1>4, Continued
<1>9. InstallTyped'
  BY <1>1, <1>2, <1>8 DEF InstallTyped, Install!TypeOK
<1>10. InstallWriting'
  BY <1>8 DEF InstallWriting
<1>11. InstallCredentials'
  BY <1>1, <1>2, <1>7, <1>8 DEF InstallCredentials, Committed, Application
<1>12. InstallIdentified'
  BY <1>1, <1>2, <1>5, <1>6, <1>8 DEF InstallIdentified
<1>13. InstallPrepared'
  BY <1>1, <1>2, <1>5, <1>8 DEF InstallPrepared
<1> QED
  BY <1>9, <1>10, <1>11, <1>12, <1>13 DEF InstallInv

\* A file with other content is refused.
LEMMA RefuseFileStep ==
    ASSUME InstallInv, Install!RefuseFile
    PROVE  InstallInv'
<1>1. InstallTyped /\ InstallWriting /\ InstallCredentials /\ InstallIdentified /\ InstallPrepared
  BY DEF InstallInv
<1>2. UNCHANGED <<site, disk, database, bootstrap, settled, fence, units, cuts, done>>
  BY DEF Install!RefuseFile, Install!Data, Install!Kernel, Install!Refuse
<1>3. installer' = [at |-> 0, busy |-> FALSE, secret |-> None]
  BY DEF Install!RefuseFile, Install!Refuse, Install!Idle
<1>5. \A t : ~Past(t)'
  BY <1>3, Restarted
<1>6. InstallTyped'
  BY <1>1, <1>2, <1>3 DEF InstallTyped, Install!TypeOK
<1>7. InstallWriting'
  BY <1>3 DEF InstallWriting
<1>8. InstallCredentials'
  BY <1>1, <1>2, <1>5 DEF InstallCredentials, Committed, Application
<1>9. InstallIdentified'
  BY <1>1, <1>2, <1>5 DEF InstallIdentified
<1>10. InstallPrepared'
  BY <1>1, <1>2, <1>5 DEF InstallPrepared
<1> QED
  BY <1>6, <1>7, <1>8, <1>9, <1>10 DEF InstallInv

\* The firewall table is created.
LEMMA CreateFenceStep ==
    ASSUME InstallInv, Install!CreateFence
    PROVE  InstallInv'
<1>1. InstallTyped /\ InstallWriting /\ InstallCredentials /\ InstallIdentified /\ InstallPrepared
  BY DEF InstallInv
<1>2. UNCHANGED <<site, disk, database, bootstrap, settled, units, cuts>>
  BY DEF Install!CreateFence, Install!Data
<1>3. Install!At("fence") /\ Install!Continue /\ fence' = TRUE
  BY DEF Install!CreateFence
<1>4. /\ installer' \in [at : Nat, busy : BOOLEAN, secret : Secrets \union {None}]
      /\ installer'.at <= Len(Install!Plan)' /\ ~installer'.busy /\ done' \in BOOLEAN
      /\ \A t : Past(t)' => (Past(t) \/ t = "fence") /\ installer'.secret = installer.secret
  BY <1>1, <1>2, <1>3, Continued
<1>5. InstallTyped'
  BY <1>1, <1>2, <1>3, <1>4 DEF InstallTyped, Install!TypeOK
<1>6. InstallWriting'
  BY <1>4 DEF InstallWriting
<1>7. InstallCredentials'
  BY <1>1, <1>2, <1>4 DEF InstallCredentials, Committed, Application
<1>8. InstallIdentified'
  BY <1>1, <1>2, <1>4 DEF InstallIdentified
<1>9. InstallPrepared'
  BY <1>1, <1>2, <1>3, <1>4 DEF InstallPrepared
<1> QED
  BY <1>5, <1>6, <1>7, <1>8, <1>9 DEF InstallInv

\* A document of the gateway is written beside and renamed.
LEMMA WriteAtomicStep ==
    ASSUME InstallInv, Install!WriteAtomic
    PROVE  InstallInv'
<1>1. InstallTyped /\ InstallWriting /\ InstallCredentials /\ InstallIdentified /\ InstallPrepared
  BY DEF InstallInv
<1>2. UNCHANGED <<site, database, bootstrap, settled, fence, units, cuts>>
  BY DEF Install!WriteAtomic, Install!Data, Install!Kernel
<1>3. PICK f \in Install!Files : Install!At(f) /\ Install!Atomic(f) /\ disk[f] = "absent" /\ disk' = [disk EXCEPT ![f] = "whole"]
  BY DEF Install!WriteAtomic
<1>4. Install!Continue
  BY DEF Install!WriteAtomic
<1>5. site.app = "gateway" /\ f \in {"configuration", "data"}
  BY <1>3 DEF Install!Atomic
<1>6. \A g \in Install!Files : disk'[g] = IF g = f THEN "whole" ELSE disk[g]
  BY <1>1, <1>3 DEF InstallTyped, Install!TypeOK
<1>7. disk' \in [Install!Files -> {"absent", "partial", "whole"} \union Secrets]
  BY <1>1, <1>3 DEF InstallTyped, Install!TypeOK
<1>8. {"secrets", "identity"} \subseteq Install!Files
  BY DEF Install!Files
<1>9. /\ installer' \in [at : Nat, busy : BOOLEAN, secret : Secrets \union {None}]
      /\ installer'.at <= Len(Install!Plan)' /\ ~installer'.busy /\ done' \in BOOLEAN
      /\ \A t : Past(t)' => (Past(t) \/ t = f) /\ installer'.secret = installer.secret
  BY <1>1, <1>2, <1>3, <1>4, Continued
<1>10. InstallTyped'
  BY <1>1, <1>2, <1>7, <1>9 DEF InstallTyped, Install!TypeOK
<1>11. InstallWriting'
  BY <1>9 DEF InstallWriting
<1>12. InstallCredentials'
  BY <1>1, <1>2, <1>5, <1>6, <1>8, <1>9 DEF InstallCredentials, Application
<1>13. InstallIdentified'
  BY <1>1, <1>2, <1>5, <1>6, <1>8, <1>9 DEF InstallIdentified
<1>14. InstallPrepared'
  BY <1>1, <1>2, <1>5, <1>9 DEF InstallPrepared
<1> QED
  BY <1>10, <1>11, <1>12, <1>13, <1>14 DEF InstallInv

\* A file that is absent is created.
LEMMA BeginWriteStep ==
    ASSUME InstallInv, Install!BeginWrite
    PROVE  InstallInv'
<1>1. InstallTyped /\ InstallWriting /\ InstallCredentials /\ InstallIdentified /\ InstallPrepared
  BY DEF InstallInv
<1>2. UNCHANGED <<site, database, bootstrap, settled, fence, units, cuts, done>>
  BY DEF Install!BeginWrite, Install!Data, Install!Kernel
<1>3. PICK f \in Install!Files \ {"secrets"} : /\ Install!At(f) /\ disk[f] = "absent" /\ Install!Obtainable(f)
            /\ disk' = [disk EXCEPT ![f] = "partial"]
  BY DEF Install!BeginWrite
<1>4. installer' = [at |-> installer.at, busy |-> TRUE, secret |-> installer.secret]
  BY <1>1 DEF Install!BeginWrite, InstallTyped, Install!TypeOK
<1>5. \A g \in Install!Files : disk'[g] = IF g = f THEN "partial" ELSE disk[g]
  BY <1>1, <1>3 DEF InstallTyped, Install!TypeOK
<1>6. disk' \in [Install!Files -> {"absent", "partial", "whole"} \union Secrets]
  BY <1>1, <1>3 DEF InstallTyped, Install!TypeOK
<1>7. {"secrets", "identity", "configuration"} \subseteq Install!Files
  BY DEF Install!Files
<1>8. f = "identity" => bootstrap.config = "whole"
  BY <1>3 DEF Install!Obtainable
<1>9. \A g : Install!At(g) => g = f
  BY <1>3 DEF Install!At
<1>10. {"absent", "partial", "whole", "initialising", "torn", None} \intersect Secrets = {}
  BY SecretsAssumption
<1>11. Install!Plan' = Install!Plan /\ \A t : (Past(t)' <=> Past(t)) /\ (Install!At(t)' <=> Install!At(t))
  BY <1>2, <1>4, Unmoved
<1>12. InstallTyped'
  BY <1>1, <1>2, <1>4, <1>6, <1>11 DEF InstallTyped, Install!TypeOK
<1>13. InstallWriting'
  BY <1>5, <1>9, <1>11 DEF InstallWriting
<1>14. InstallCredentials'
  BY <1>1, <1>2, <1>3, <1>4, <1>10, <1>11 DEF InstallCredentials, Committed, Application
<1>15. InstallIdentified'
  BY <1>1, <1>2, <1>3, <1>8, <1>11 DEF InstallIdentified
<1>16. InstallPrepared'
  BY <1>1, <1>2, <1>5, <1>7, <1>8, <1>11 DEF InstallPrepared
<1> QED
  BY <1>12, <1>13, <1>14, <1>15, <1>16 DEF InstallInv

\* What was begun is written.
LEMMA EndWriteStep ==
    ASSUME InstallInv, Install!EndWrite
    PROVE  InstallInv'
<1>1. InstallTyped /\ InstallWriting /\ InstallCredentials /\ InstallIdentified /\ InstallPrepared
  BY DEF InstallInv
<1>2. UNCHANGED <<site, database, bootstrap, settled, fence, units, cuts>>
  BY DEF Install!EndWrite, Install!Data, Install!Kernel
<1>3. PICK f \in Install!Files : Install!At(f) /\ disk' = [disk EXCEPT ![f] = Install!Content(f)]
  BY DEF Install!EndWrite
<1>4. Install!Continue /\ installer.busy
  BY DEF Install!EndWrite
<1>5. disk[f] = "partial"
  BY <1>1, <1>3, <1>4 DEF InstallWriting
<1>6. f = "secrets" => Install!Content(f) = installer.secret /\ installer.secret \in Secrets
  BY <1>1, <1>3, <1>4 DEF Install!Content, InstallWriting
<1>7. f = "configuration" /\ site.app = "matrix" =>
          /\ Install!Content(f) = installer.secret
          /\ installer.secret = disk["secrets"] /\ disk["secrets"] \in Secrets
  BY <1>1, <1>3, MatrixOrder DEF Install!Content, InstallCredentials
<1>8. f # "secrets" /\ (f # "configuration" \/ site.app # "matrix") => Install!Content(f) = "whole"
  BY DEF Install!Content
<1>9. \A g \in Install!Files : disk'[g] = IF g = f THEN Install!Content(f) ELSE disk[g]
  BY <1>1, <1>3 DEF InstallTyped, Install!TypeOK
<1>10. disk' \in [Install!Files -> {"absent", "partial", "whole"} \union Secrets]
  BY <1>1, <1>3, <1>6, <1>7, <1>8 DEF InstallTyped, Install!TypeOK
<1>11. {"secrets", "identity", "configuration"} \subseteq Install!Files /\ f \notin {"freeze", "demote", "controls", "install", "fence"}
  BY DEF Install!Files
<1>12. {"absent", "partial", "whole", "initialising", "torn", None} \intersect Secrets = {}
  BY SecretsAssumption
<1>13. /\ installer' \in [at : Nat, busy : BOOLEAN, secret : Secrets \union {None}]
       /\ installer'.at <= Len(Install!Plan)' /\ ~installer'.busy /\ done' \in BOOLEAN
       /\ \A t : Past(t)' => (Past(t) \/ t = f) /\ installer'.secret = installer.secret
  BY <1>1, <1>2, <1>3, <1>4, Continued
<1>14. InstallTyped'
  BY <1>1, <1>2, <1>10, <1>13 DEF InstallTyped, Install!TypeOK
<1>15. InstallWriting'
  BY <1>13 DEF InstallWriting
<1>16. InstallCredentials'
  BY <1>1, <1>2, <1>5, <1>6, <1>7, <1>9, <1>11, <1>12, <1>13
  DEF InstallCredentials, Committed, Application
<1>17. InstallIdentified'
  BY <1>1, <1>2, <1>5, <1>8, <1>9, <1>11, <1>13 DEF InstallIdentified
<1>18. InstallPrepared'
  BY <1>1, <1>2, <1>8, <1>9, <1>11, <1>13 DEF InstallPrepared
<1> QED
  BY <1>14, <1>15, <1>16, <1>17, <1>18 DEF InstallInv

\* The saved credentials are read.
LEMMA ReadSecretsKept ==
    ASSUME InstallInv, Install!At("secrets"), ~installer.busy, disk["secrets"] \in Secrets,
           installer' = [installer EXCEPT !.at = @ + 1, !.secret = disk["secrets"]],
           UNCHANGED <<site, disk, database, bootstrap, settled, fence, units, cuts, done>>
    PROVE  InstallInv'
<1>1. InstallTyped /\ InstallWriting /\ InstallCredentials /\ InstallIdentified /\ InstallPrepared
  BY DEF InstallInv
<1>3. installer' = [at |-> installer.at + 1, busy |-> FALSE, secret |-> disk["secrets"]]
  BY <1>1 DEF InstallTyped, Install!TypeOK
<1>4. installer.at \in Nat /\ installer.at + 1 \in Nat /\ disk["secrets"] \in Secrets \union {None}
  BY <1>1 DEF InstallTyped, Install!TypeOK
<1>5. installer' \in [at : Nat, busy : BOOLEAN, secret : Secrets \union {None}]
  BY ONLY <1>3, <1>4
<1>6. installer.at < Len(Install!Plan)
  BY <1>1, MatrixOrder, NextcloudOrder, OtherOrder DEF Application
<1>7. Install!Plan' = Install!Plan /\ Len(Install!Plan) \in Nat
  BY <1>1, PlanNotEmpty
<1>8. \A t : Past(t)' => Past(t) \/ t = "secrets"
  BY <1>1, <1>7 DEF Past, Install!At, InstallTyped, Install!TypeOK
<1>9. InstallTyped'
  BY <1>1, <1>5, <1>6, <1>7 DEF InstallTyped, Install!TypeOK
<1>10. InstallWriting'
  BY DEF InstallWriting
<1>11. InstallCredentials'
  BY <1>1, <1>8 DEF InstallCredentials, Committed, Application
<1>12. InstallIdentified'
  BY <1>1, <1>8 DEF InstallIdentified
<1>13. InstallPrepared'
  BY <1>1, <1>8 DEF InstallPrepared
<1> QED
  BY <1>9, <1>10, <1>11, <1>12, <1>13 DEF InstallInv

\* Partial credentials, or none beside a database, are refused.
LEMMA ReadSecretsRefused ==
    ASSUME InstallInv, installer' = Install!Idle,
           UNCHANGED <<site, disk, database, bootstrap, settled, fence, units, cuts, done>>
    PROVE  InstallInv'
<1>1. InstallTyped /\ InstallWriting /\ InstallCredentials /\ InstallIdentified /\ InstallPrepared
  BY DEF InstallInv
<1>3. installer' = [at |-> 0, busy |-> FALSE, secret |-> None]
  BY DEF Install!Idle
<1>5. \A t : ~Past(t)'
  BY <1>3, Restarted
<1>6. InstallTyped'
  BY <1>1, <1>3 DEF InstallTyped, Install!TypeOK
<1>7. InstallWriting'
  BY <1>3 DEF InstallWriting
<1>8. InstallCredentials'
  BY <1>1, <1>5 DEF InstallCredentials, Committed, Application
<1>9. InstallIdentified'
  BY <1>1, <1>5 DEF InstallIdentified
<1>10. InstallPrepared'
  BY <1>1, <1>5 DEF InstallPrepared
<1> QED
  BY <1>6, <1>7, <1>8, <1>9, <1>10 DEF InstallInv

\* New credentials are drawn.
LEMMA ReadSecretsDrawn ==
    ASSUME InstallInv, Install!At("secrets"), disk["secrets"] = "absent", NEW s \in Secrets,
           installer' = [installer EXCEPT !.busy = TRUE, !.secret = s],
           disk' = [disk EXCEPT !["secrets"] = "partial"],
           UNCHANGED <<site, database, bootstrap, settled, fence, units, cuts, done>>
    PROVE  InstallInv'
<1>1. InstallTyped /\ InstallWriting /\ InstallCredentials /\ InstallIdentified /\ InstallPrepared
  BY DEF InstallInv
<1>4. installer' \in [at : Nat, busy : BOOLEAN, secret : Secrets \union {None}]
  BY <1>1 DEF InstallTyped, Install!TypeOK
<1>6. disk' \in [Install!Files -> {"absent", "partial", "whole"} \union Secrets]
  BY <1>1 DEF InstallTyped, Install!TypeOK
<1>7. {"secrets", "identity", "configuration"} \subseteq Install!Files
  BY DEF Install!Files
<1>8. \A g : Install!At(g) => g = "secrets"
  BY DEF Install!At
<1>9. {"absent", "partial", "whole", "initialising", "torn", None} \intersect Secrets = {}
  BY SecretsAssumption
<1>12. Install!Plan' = Install!Plan /\ \A t : (Past(t)' <=> Past(t)) /\ (Install!At(t)' <=> Install!At(t))
  BY Unmoved
<1>13. InstallTyped'
  BY <1>1, <1>4, <1>7, <1>12 DEF InstallTyped, Install!TypeOK
<1>14. InstallWriting'
  BY <1>6, <1>8, <1>12 DEF InstallWriting
<1>15. InstallCredentials'
  BY <1>1, <1>9, <1>12 DEF InstallCredentials, Committed, Application
<1>16. InstallIdentified'
  BY <1>1, <1>12 DEF InstallIdentified
<1>17. InstallPrepared'
  BY <1>1, <1>12 DEF InstallPrepared
<1> QED
  BY <1>13, <1>14, <1>15, <1>16, <1>17 DEF InstallInv

LEMMA ReadSecretsStep ==
    ASSUME InstallInv, Install!ReadSecrets
    PROVE  InstallInv'
<1>1. UNCHANGED <<site, database, bootstrap, settled, fence, units, cuts>> /\ Install!At("secrets") /\ ~installer.busy
  BY DEF Install!ReadSecrets, Install!Data, Install!Kernel
<1>2. CASE /\ disk["secrets"] \in Secrets
           /\ installer' = [installer EXCEPT !.at = @ + 1, !.secret = disk["secrets"]]
           /\ UNCHANGED <<disk, done>>
  BY <1>1, <1>2, ReadSecretsKept
<1>3. CASE Install!Refuse /\ UNCHANGED disk
  BY <1>1, <1>3, ReadSecretsRefused DEF Install!Refuse
<1>4. CASE /\ Install!Drawable
           /\ \E s \in Secrets : installer' = [installer EXCEPT !.busy = TRUE, !.secret = s]
           /\ disk' = [disk EXCEPT !["secrets"] = "partial"]
           /\ UNCHANGED done
  <2>1. PICK s \in Secrets : installer' = [installer EXCEPT !.busy = TRUE, !.secret = s]
    BY <1>4
  <2> QED
    BY <1>1, <1>4, ReadSecretsDrawn DEF Install!Drawable
<1> QED
  BY <1>2, <1>3, <1>4 DEF Install!ReadSecrets

\* The application begins to configure itself.
LEMMA BeginInstallStep ==
    ASSUME InstallInv, Install!BeginInstall
    PROVE  InstallInv'
<1>1. InstallTyped /\ InstallWriting /\ InstallCredentials /\ InstallIdentified /\ InstallPrepared
  BY DEF InstallInv
<1>2. UNCHANGED <<site, disk, database, settled, fence, units, cuts, done>>
  BY DEF Install!BeginInstall, Install!Kernel
<1>3. /\ Install!At("install") /\ disk["identity"] # "whole" /\ bootstrap.config = "absent"
      /\ bootstrap' = [config |-> "partial", running |-> TRUE, used |-> bootstrap.used]
  BY DEF Install!BeginInstall
<1>4. installer' = [at |-> installer.at, busy |-> TRUE, secret |-> installer.secret]
  BY <1>1 DEF Install!BeginInstall, InstallTyped, Install!TypeOK
<1>5. \A g : Install!At(g) => g = "install"
  BY <1>3 DEF Install!At
<1>6. "install" \notin Install!Files
  BY DEF Install!Files
<1>7. Install!Plan' = Install!Plan /\ \A t : (Past(t)' <=> Past(t)) /\ (Install!At(t)' <=> Install!At(t))
  BY <1>2, <1>4, Unmoved
<1>8. InstallTyped'
  BY <1>1, <1>2, <1>3, <1>4, <1>7 DEF InstallTyped, Install!TypeOK
<1>9. InstallWriting'
  BY <1>5, <1>6, <1>7 DEF InstallWriting
<1>10. InstallCredentials'
  BY <1>1, <1>2, <1>4, <1>7 DEF InstallCredentials, Committed, Application
<1>11. InstallIdentified'
  BY <1>1, <1>2, <1>3, <1>7 DEF InstallIdentified
<1>12. InstallPrepared'
  BY <1>1, <1>2, <1>3, <1>7 DEF InstallPrepared
<1> QED
  BY <1>8, <1>9, <1>10, <1>11, <1>12 DEF InstallInv

\* The configuration has ended, or was there already.
LEMMA InstalledStep ==
    ASSUME InstallInv, Install!Installed
    PROVE  InstallInv'
<1>1. InstallTyped /\ InstallWriting /\ InstallCredentials /\ InstallIdentified /\ InstallPrepared
  BY DEF InstallInv
<1>2. UNCHANGED <<site, disk, database, bootstrap, settled, fence, units, cuts>>
  BY DEF Install!Installed, Install!Data, Install!Kernel
<1>3. Install!At("install") /\ (Install!Refuse \/ Install!Continue)
  BY DEF Install!Installed
<1>4. /\ installer' \in [at : Nat, busy : BOOLEAN, secret : Secrets \union {None}]
      /\ installer'.at <= Len(Install!Plan)' /\ ~installer'.busy /\ done' \in BOOLEAN
      /\ \A t : Past(t)' => (Past(t) \/ t = "install") /\ installer'.secret = installer.secret
  BY <1>1, <1>2, <1>3, Continued
<1>5. InstallTyped'
  BY <1>1, <1>2, <1>4 DEF InstallTyped, Install!TypeOK
<1>6. InstallWriting'
  BY <1>4 DEF InstallWriting
<1>7. InstallCredentials'
  BY <1>1, <1>2, <1>4 DEF InstallCredentials, Committed, Application
<1>8. InstallIdentified'
  BY <1>1, <1>2, <1>4 DEF InstallIdentified
<1>9. InstallPrepared'
  BY <1>1, <1>2, <1>4 DEF InstallPrepared
<1> QED
  BY <1>5, <1>6, <1>7, <1>8, <1>9 DEF InstallInv

\* The first configuration goes once the identity is saved.
LEMMA FreezeStep ==
    ASSUME InstallInv, Install!Freeze
    PROVE  InstallInv'
<1>1. InstallTyped /\ InstallWriting /\ InstallCredentials /\ InstallIdentified /\ InstallPrepared
  BY DEF InstallInv
<1>2. UNCHANGED <<site, disk, database, settled, fence, units, cuts>>
  BY DEF Install!Freeze, Install!Kernel
<1>3. Install!At("freeze") /\ Install!Continue
  BY DEF Install!Freeze
<1>4. bootstrap' = [config |-> "absent", running |-> bootstrap.running, used |-> bootstrap.used]
  BY <1>1 DEF Install!Freeze, InstallTyped, Install!TypeOK
<1>5. site.app = "nextcloud"
  BY <1>1, <1>3, MatrixOrder, OtherOrder DEF Application
<1>6. disk["identity"] = "whole" /\ ~bootstrap.running
  BY <1>1, <1>3, <1>5, NextcloudOrder DEF InstallIdentified
<1>7. /\ installer' \in [at : Nat, busy : BOOLEAN, secret : Secrets \union {None}]
      /\ installer'.at <= Len(Install!Plan)' /\ ~installer'.busy /\ done' \in BOOLEAN
      /\ \A t : Past(t)' => (Past(t) \/ t = "freeze") /\ installer'.secret = installer.secret
  BY <1>1, <1>2, <1>3, Continued
<1>8. InstallTyped'
  BY <1>1, <1>2, <1>4, <1>7 DEF InstallTyped, Install!TypeOK
<1>9. InstallWriting'
  BY <1>7 DEF InstallWriting
<1>10. InstallCredentials'
  BY <1>1, <1>2, <1>7 DEF InstallCredentials, Committed, Application
<1>11. InstallIdentified'
  BY <1>2, <1>4, <1>6 DEF InstallIdentified
<1>12. InstallPrepared'
  BY <1>1, <1>2, <1>4, <1>7 DEF InstallPrepared
<1> QED
  BY <1>8, <1>9, <1>10, <1>11, <1>12 DEF InstallInv

\* The database account is demoted.
LEMMA DemoteStep ==
    ASSUME InstallInv, Install!Demote
    PROVE  InstallInv'
<1>1. InstallTyped /\ InstallWriting /\ InstallCredentials /\ InstallIdentified /\ InstallPrepared
  BY DEF InstallInv
<1>2. UNCHANGED <<site, disk, database, bootstrap, fence, units, cuts>>
  BY DEF Install!Demote, Install!Kernel, Install!Change
<1>3. Install!At("demote") /\ Install!Continue /\ settled' = settled \union {"demoted"}
  BY DEF Install!Demote, Install!Change
<1>4. /\ installer' \in [at : Nat, busy : BOOLEAN, secret : Secrets \union {None}]
      /\ installer'.at <= Len(Install!Plan)' /\ ~installer'.busy /\ done' \in BOOLEAN
      /\ \A t : Past(t)' => (Past(t) \/ t = "demote") /\ installer'.secret = installer.secret
  BY <1>1, <1>2, <1>3, Continued
<1>5. InstallTyped'
  BY <1>1, <1>2, <1>3, <1>4 DEF InstallTyped, Install!TypeOK
<1>6. InstallWriting'
  BY <1>4 DEF InstallWriting
<1>7. InstallCredentials'
  BY <1>1, <1>2, <1>4 DEF InstallCredentials, Committed, Application
<1>8. InstallIdentified'
  BY <1>1, <1>2, <1>4 DEF InstallIdentified
<1>9. InstallPrepared'
  BY <1>1, <1>2, <1>3, <1>4 DEF InstallPrepared
<1> QED
  BY <1>5, <1>6, <1>7, <1>8, <1>9 DEF InstallInv

\* Sharing is shut.
LEMMA ControlsStep ==
    ASSUME InstallInv, Install!Controls
    PROVE  InstallInv'
<1>1. InstallTyped /\ InstallWriting /\ InstallCredentials /\ InstallIdentified /\ InstallPrepared
  BY DEF InstallInv
<1>2. UNCHANGED <<site, disk, database, bootstrap, fence, units, cuts>>
  BY DEF Install!Controls, Install!Kernel, Install!Change
<1>3. Install!At("controls") /\ Install!Continue /\ settled' = settled \union {"controls"}
  BY DEF Install!Controls, Install!Change
<1>4. /\ installer' \in [at : Nat, busy : BOOLEAN, secret : Secrets \union {None}]
      /\ installer'.at <= Len(Install!Plan)' /\ ~installer'.busy /\ done' \in BOOLEAN
      /\ \A t : Past(t)' => (Past(t) \/ t = "controls") /\ installer'.secret = installer.secret
  BY <1>1, <1>2, <1>3, Continued
<1>5. InstallTyped'
  BY <1>1, <1>2, <1>3, <1>4 DEF InstallTyped, Install!TypeOK
<1>6. InstallWriting'
  BY <1>4 DEF InstallWriting
<1>7. InstallCredentials'
  BY <1>1, <1>2, <1>4 DEF InstallCredentials, Committed, Application
<1>8. InstallIdentified'
  BY <1>1, <1>2, <1>4 DEF InstallIdentified
<1>9. InstallPrepared'
  BY <1>1, <1>2, <1>3, <1>4 DEF InstallPrepared
<1> QED
  BY <1>5, <1>6, <1>7, <1>8, <1>9 DEF InstallInv

\* The controls are verified.
LEMMA VerifyStep ==
    ASSUME InstallInv, Install!Verify
    PROVE  InstallInv'
<1>1. InstallTyped /\ InstallWriting /\ InstallCredentials /\ InstallIdentified /\ InstallPrepared
  BY DEF InstallInv
<1>2. UNCHANGED <<site, disk, database, bootstrap, settled, fence, units, cuts>>
  BY DEF Install!Verify, Install!Data, Install!Kernel
<1>3. Install!At("verify") /\ (Install!Continue \/ Install!Refuse)
  BY DEF Install!Verify
<1>4. /\ installer' \in [at : Nat, busy : BOOLEAN, secret : Secrets \union {None}]
      /\ installer'.at <= Len(Install!Plan)' /\ ~installer'.busy /\ done' \in BOOLEAN
      /\ \A t : Past(t)' => (Past(t) \/ t = "verify") /\ installer'.secret = installer.secret
  BY <1>1, <1>2, <1>3, Continued
<1>5. InstallTyped'
  BY <1>1, <1>2, <1>4 DEF InstallTyped, Install!TypeOK
<1>6. InstallWriting'
  BY <1>4 DEF InstallWriting
<1>7. InstallCredentials'
  BY <1>1, <1>2, <1>4 DEF InstallCredentials, Committed, Application
<1>8. InstallIdentified'
  BY <1>1, <1>2, <1>4 DEF InstallIdentified
<1>9. InstallPrepared'
  BY <1>1, <1>2, <1>4 DEF InstallPrepared
<1> QED
  BY <1>5, <1>6, <1>7, <1>8, <1>9 DEF InstallInv

\* The database never becomes ready.
LEMMA WaitFailsStep ==
    ASSUME InstallInv, Install!WaitFails
    PROVE  InstallInv'
<1>1. InstallTyped /\ InstallWriting /\ InstallCredentials /\ InstallIdentified /\ InstallPrepared
  BY DEF InstallInv
<1>2. UNCHANGED <<site, disk, database, bootstrap, settled, fence, units, cuts, done>>
  BY DEF Install!WaitFails, Install!Data, Install!Kernel, Install!Refuse
<1>3. installer' = [at |-> 0, busy |-> FALSE, secret |-> None]
  BY DEF Install!WaitFails, Install!Refuse, Install!Idle
<1>5. \A t : ~Past(t)'
  BY <1>3, Restarted
<1>6. InstallTyped'
  BY <1>1, <1>2, <1>3 DEF InstallTyped, Install!TypeOK
<1>7. InstallWriting'
  BY <1>3 DEF InstallWriting
<1>8. InstallCredentials'
  BY <1>1, <1>2, <1>5 DEF InstallCredentials, Committed, Application
<1>9. InstallIdentified'
  BY <1>1, <1>2, <1>5 DEF InstallIdentified
<1>10. InstallPrepared'
  BY <1>1, <1>2, <1>5 DEF InstallPrepared
<1> QED
  BY <1>6, <1>7, <1>8, <1>9, <1>10 DEF InstallInv

\* What was started is ready.
LEMMA WaitedStep ==
    ASSUME InstallInv, Install!Waited
    PROVE  InstallInv'
<1>1. InstallTyped /\ InstallWriting /\ InstallCredentials /\ InstallIdentified /\ InstallPrepared
  BY DEF InstallInv
<1>2. UNCHANGED <<site, disk, database, bootstrap, settled, fence, units, cuts>>
  BY DEF Install!Waited, Install!Data, Install!Kernel
<1>3. PICK s \in {"database", "application", "proxy"} : Install!At(s)
  BY DEF Install!Waited
<1>4. Install!Continue
  BY DEF Install!Waited
<1>5. /\ installer' \in [at : Nat, busy : BOOLEAN, secret : Secrets \union {None}]
      /\ installer'.at <= Len(Install!Plan)' /\ ~installer'.busy /\ done' \in BOOLEAN
      /\ \A t : Past(t)' => (Past(t) \/ t = s) /\ installer'.secret = installer.secret
  BY <1>1, <1>2, <1>3, <1>4, Continued
<1>6. InstallTyped'
  BY <1>1, <1>2, <1>5 DEF InstallTyped, Install!TypeOK
<1>7. InstallWriting'
  BY <1>5 DEF InstallWriting
<1>8. InstallCredentials'
  BY <1>1, <1>2, <1>5 DEF InstallCredentials, Committed, Application
<1>9. InstallIdentified'
  BY <1>1, <1>2, <1>5 DEF InstallIdentified
<1>10. InstallPrepared'
  BY <1>1, <1>2, <1>5 DEF InstallPrepared
<1> QED
  BY <1>6, <1>7, <1>8, <1>9, <1>10 DEF InstallInv

\* The units are enabled, and those of the files are started.
LEMMA EnableStep ==
    ASSUME InstallInv, Install!Enable
    PROVE  InstallInv'
<1>1. InstallTyped /\ InstallWriting /\ InstallCredentials /\ InstallIdentified /\ InstallPrepared
  BY DEF InstallInv
<1>2. UNCHANGED <<site, disk, database, bootstrap, settled, fence, cuts>>
  BY DEF Install!Enable, Install!Data
<1>3. Install!At("enable") /\ Install!Continue
  BY DEF Install!Enable
<1>4. /\ units'.enabled /\ units'.up = units.up /\ units' \in [asked : SUBSET Install!Units, up : SUBSET Install!Units, enabled : BOOLEAN]
      /\ ~Application => units'.asked = units.asked \union {"proxy"}
  BY <1>1
  DEF Install!Enable, Install!Pulled, Install!Requires, Install!Units, Application, InstallTyped,
     Install!TypeOK
<1>5. /\ Application => Past("secrets")
      /\ site.app = "matrix" => Past("configuration")
      /\ site.app = "nextcloud" => Past("identity") /\ Past("freeze") /\ Past("demote") /\ Past("controls")
  BY <1>1, <1>3, MatrixOrder, NextcloudOrder DEF Application
<1>6. settled \subseteq {"demoted", "controls"}
  BY <1>1 DEF InstallTyped, Install!TypeOK
<1>7. site.app = "nextcloud" =>
          settled = {"demoted", "controls"} /\ disk["identity"] = "whole" /\ bootstrap.config = "absent"
  BY <1>1, <1>5, <1>6 DEF InstallPrepared, InstallIdentified
<1>8. /\ installer' \in [at : Nat, busy : BOOLEAN, secret : Secrets \union {None}]
      /\ installer'.at <= Len(Install!Plan)' /\ ~installer'.busy /\ done' \in BOOLEAN
      /\ \A t : Past(t)' => (Past(t) \/ t = "enable") /\ installer'.secret = installer.secret
  BY <1>1, <1>2, <1>3, Continued
<1>9. InstallTyped'
  BY <1>1, <1>2, <1>4, <1>8 DEF InstallTyped, Install!TypeOK
<1>10. InstallWriting'
  BY <1>8 DEF InstallWriting
<1>11. InstallCredentials'
  BY <1>1, <1>2, <1>4, <1>5, <1>8 DEF InstallCredentials, Application
<1>12. InstallIdentified'
  BY <1>1, <1>2, <1>8 DEF InstallIdentified
<1>13. InstallPrepared'
  BY <1>1, <1>2, <1>4, <1>7, <1>8 DEF InstallPrepared
<1> QED
  BY <1>9, <1>10, <1>11, <1>12, <1>13 DEF InstallInv

\* Units are started.
LEMMA AskStep ==
    ASSUME InstallInv, Install!Ask
    PROVE  InstallInv'
<1>1. InstallTyped /\ InstallWriting /\ InstallCredentials /\ InstallIdentified /\ InstallPrepared
  BY DEF InstallInv
<1>2. UNCHANGED <<site, disk, database, bootstrap, settled, fence, installer, cuts, done>>
  BY DEF Install!Ask, Install!Data
<1>3. PICK s \in {"database", "application", "proxy"} :
               /\ Install!At(s)
               /\ units' = [units EXCEPT !.asked = @ \union Install!Pulled(IF s = "database" THEN "postgres" ELSE s)]
  BY DEF Install!Ask
<1>4. /\ units'.enabled = units.enabled /\ units'.up = units.up /\ units' \in [asked : SUBSET Install!Units, up : SUBSET Install!Units, enabled : BOOLEAN]
      /\ ~Application /\ s = "proxy" => units'.asked = units.asked \union {"proxy"}
      /\ s # "proxy" => ("proxy" \in units'.asked <=> "proxy" \in units.asked)
  BY <1>1, <1>3
  DEF Install!Pulled, Install!Requires, Install!Units, Application, InstallTyped, Install!TypeOK
<1>5. /\ Application => Past("secrets")
      /\ site.app = "matrix" => Past("configuration")
      /\ site.app = "nextcloud" /\ s = "proxy" => Past("identity") /\ Past("freeze") /\ Past("demote") /\ Past("controls")
      /\ ~Application => s = "proxy"
  BY <1>1, <1>3, MatrixOrder, NextcloudOrder, OtherOrder DEF Application
<1>6. settled \subseteq {"demoted", "controls"}
  BY <1>1 DEF InstallTyped, Install!TypeOK
<1>7. site.app = "nextcloud" /\ s = "proxy" =>
          settled = {"demoted", "controls"} /\ disk["identity"] = "whole" /\ bootstrap.config = "absent"
  BY <1>1, <1>5, <1>6 DEF InstallPrepared, InstallIdentified
<1>8. Install!Plan' = Install!Plan /\ \A t : (Past(t)' <=> Past(t)) /\ (Install!At(t)' <=> Install!At(t))
  BY <1>2, Unmoved
<1>9. InstallTyped'
  BY <1>1, <1>2, <1>4, <1>8 DEF InstallTyped, Install!TypeOK
<1>10. InstallWriting'
  BY <1>1, <1>2, <1>8 DEF InstallWriting
<1>11. InstallCredentials'
  BY <1>1, <1>2, <1>4, <1>5, <1>8 DEF InstallCredentials, Application
<1>12. InstallIdentified'
  BY <1>1, <1>2, <1>8 DEF InstallIdentified
<1>13. InstallPrepared'
  BY <1>1, <1>2, <1>4, <1>7, <1>8 DEF InstallPrepared
<1> QED
  BY <1>9, <1>10, <1>11, <1>12, <1>13 DEF InstallInv

\* systemd starts a unit that is asked for.
LEMMA UnitStartsStep ==
    ASSUME InstallInv, NEW u \in Install!Units, Install!UnitStarts(u)
    PROVE  InstallInv'
<1>1. InstallTyped /\ InstallWriting /\ InstallCredentials /\ InstallIdentified /\ InstallPrepared
  BY DEF InstallInv
<1>2. UNCHANGED <<site, disk, database, bootstrap, installer, cuts, done>>
  BY DEF Install!UnitStarts
<1>3. units' = [asked |-> units.asked, up |-> units.up \union {u}, enabled |-> units.enabled] /\ u \in units.asked
  BY <1>1 DEF Install!UnitStarts, Install!Startable, InstallTyped, Install!TypeOK
<1>4. units' \in [asked : SUBSET Install!Units, up : SUBSET Install!Units, enabled : BOOLEAN]
  BY <1>1, <1>3 DEF InstallTyped, Install!TypeOK
<1>5. fence' \in BOOLEAN /\ (fence \/ u = "proxy" => fence')
  BY Zenon DEF Install!UnitStarts
<1>6. settled' \subseteq {"demoted", "controls"} /\ settled \subseteq settled'
  BY <1>1 DEF Install!UnitStarts, InstallTyped, Install!TypeOK
<1>7. Install!Plan' = Install!Plan /\ \A t : (Past(t)' <=> Past(t)) /\ (Install!At(t)' <=> Install!At(t))
  BY <1>2, Unmoved
<1>8. InstallTyped'
  BY <1>1, <1>2, <1>4, <1>5, <1>6, <1>7 DEF InstallTyped, Install!TypeOK
<1>9. InstallWriting'
  BY <1>1, <1>2, <1>7 DEF InstallWriting
<1>10. InstallCredentials'
  BY <1>1, <1>2, <1>3, <1>7 DEF InstallCredentials, Committed, Application
<1>11. InstallIdentified'
  BY <1>1, <1>2, <1>7 DEF InstallIdentified
<1>12. InstallPrepared'
  BY <1>1, <1>2, <1>3, <1>5, <1>6, <1>7 DEF InstallPrepared
<1> QED
  BY <1>8, <1>9, <1>10, <1>11, <1>12 DEF InstallInv

\* An empty database is initialised.
LEMMA InitialiseDatabaseStep ==
    ASSUME InstallInv, Install!InitialiseDatabase
    PROVE  InstallInv'
<1>1. InstallTyped /\ InstallWriting /\ InstallCredentials /\ InstallIdentified /\ InstallPrepared
  BY DEF InstallInv
<1>2. UNCHANGED <<site, disk, bootstrap, settled, fence, units, installer, cuts, done>>
  BY DEF Install!InitialiseDatabase, Install!Kernel
<1>3. database' = "initialising" /\ "postgres" \in units.asked
  BY DEF Install!InitialiseDatabase
<1>4. {"absent", "partial", "whole", "initialising", "torn", None} \intersect Secrets = {}
  BY SecretsAssumption
<1>5. Install!Plan' = Install!Plan /\ \A t : (Past(t)' <=> Past(t)) /\ (Install!At(t)' <=> Install!At(t))
  BY <1>2, Unmoved
<1>6. InstallTyped'
  BY <1>1, <1>2, <1>3, <1>5 DEF InstallTyped, Install!TypeOK
<1>7. InstallWriting'
  BY <1>1, <1>2, <1>5 DEF InstallWriting
<1>8. InstallCredentials'
  BY <1>1, <1>2, <1>3, <1>4, <1>5 DEF InstallCredentials, Committed, Application
<1>9. InstallIdentified'
  BY <1>1, <1>2, <1>5 DEF InstallIdentified
<1>10. InstallPrepared'
  BY <1>1, <1>2, <1>5 DEF InstallPrepared
<1> QED
  BY <1>6, <1>7, <1>8, <1>9, <1>10 DEF InstallInv

\* The database has the credential on the disk.
LEMMA DatabaseInitialisedStep ==
    ASSUME InstallInv, Install!DatabaseInitialised
    PROVE  InstallInv'
<1>1. InstallTyped /\ InstallWriting /\ InstallCredentials /\ InstallIdentified /\ InstallPrepared
  BY DEF InstallInv
<1>2. UNCHANGED <<site, disk, bootstrap, settled, fence, units, installer, cuts, done>>
  BY DEF Install!DatabaseInitialised, Install!Kernel
<1>3. /\ database = "initialising" /\ database # None
      /\ database' = IF site.app = "matrix" THEN disk["configuration"] ELSE disk["secrets"]
  BY DatabaseAssumption DEF Install!DatabaseInitialised
<1>4. database' \in Secrets /\ database' = disk["secrets"] /\ Application
  BY <1>1, <1>3 DEF InstallCredentials, Committed
<1>6. Install!Plan' = Install!Plan /\ \A t : (Past(t)' <=> Past(t)) /\ (Install!At(t)' <=> Install!At(t))
  BY <1>2, Unmoved
<1>7. InstallTyped'
  BY <1>1, <1>2, <1>4, <1>6 DEF InstallTyped, Install!TypeOK
<1>8. InstallWriting'
  BY <1>1, <1>2, <1>6 DEF InstallWriting
<1>9. InstallCredentials'
  BY <1>1, <1>2, <1>3, <1>6 DEF InstallCredentials, Committed, Application
<1>10. InstallIdentified'
  BY <1>1, <1>2, <1>6 DEF InstallIdentified
<1>11. InstallPrepared'
  BY <1>1, <1>2, <1>6 DEF InstallPrepared
<1> QED
  BY <1>7, <1>8, <1>9, <1>10, <1>11 DEF InstallInv

\* The application has configured itself.
LEMMA InstallEndsStep ==
    ASSUME InstallInv, Install!InstallEnds
    PROVE  InstallInv'
<1>1. InstallTyped /\ InstallWriting /\ InstallCredentials /\ InstallIdentified /\ InstallPrepared
  BY DEF InstallInv
<1>2. UNCHANGED <<site, disk, database, settled, fence, units, installer, cuts, done>>
  BY DEF Install!InstallEnds, Install!Kernel
<1>3. bootstrap.running /\ bootstrap' = [config |-> "whole", running |-> FALSE, used |-> TRUE]
  BY DEF Install!InstallEnds
<1>4. bootstrap.config = "partial"
  BY <1>1, <1>3 DEF InstallIdentified
<1>5. Install!Plan' = Install!Plan /\ \A t : (Past(t)' <=> Past(t)) /\ (Install!At(t)' <=> Install!At(t))
  BY <1>2, Unmoved
<1>6. InstallTyped'
  BY <1>1, <1>2, <1>3, <1>5 DEF InstallTyped, Install!TypeOK
<1>7. InstallWriting'
  BY <1>1, <1>2, <1>5 DEF InstallWriting
<1>8. InstallCredentials'
  BY <1>1, <1>2, <1>5 DEF InstallCredentials, Committed, Application
<1>9. InstallIdentified'
  BY <1>1, <1>3, <1>5 DEF InstallIdentified
<1>10. InstallPrepared'
  BY <1>1, <1>2, <1>4, <1>5 DEF InstallPrepared
<1> QED
  BY <1>6, <1>7, <1>8, <1>9, <1>10 DEF InstallInv

\* The command ends where it is.
LEMMA CutStep ==
    ASSUME InstallInv, Install!Cut
    PROVE  InstallInv'
<1>1. InstallTyped /\ InstallWriting /\ InstallCredentials /\ InstallIdentified /\ InstallPrepared
  BY DEF InstallInv
<1>2. UNCHANGED <<site, disk, database, bootstrap, settled, fence, units, done>>
  BY DEF Install!Cut, Install!Data, Install!Kernel
<1>3. installer' = [at |-> 0, busy |-> FALSE, secret |-> None]
  BY DEF Install!Cut, Install!Idle
<1>5. cuts' \in 0..MaxCuts
  BY <1>1, BoundsAssumption DEF Install!Cut, Install!Bounded, InstallTyped, Install!TypeOK
<1>6. \A t : ~Past(t)'
  BY <1>3, Restarted
<1>7. InstallTyped'
  BY <1>1, <1>2, <1>3, <1>5 DEF InstallTyped, Install!TypeOK
<1>8. InstallWriting'
  BY <1>3 DEF InstallWriting
<1>9. InstallCredentials'
  BY <1>1, <1>2, <1>6 DEF InstallCredentials, Committed, Application
<1>10. InstallIdentified'
  BY <1>1, <1>2, <1>6 DEF InstallIdentified
<1>11. InstallPrepared'
  BY <1>1, <1>2, <1>6 DEF InstallPrepared
<1> QED
  BY <1>7, <1>8, <1>9, <1>10, <1>11 DEF InstallInv

\* A container ends.
LEMMA UnitCrashesStep ==
    ASSUME InstallInv, Install!UnitCrashes
    PROVE  InstallInv'
<1>1. InstallTyped /\ InstallWriting /\ InstallCredentials /\ InstallIdentified /\ InstallPrepared
  BY DEF InstallInv
<1>2. UNCHANGED <<site, disk, database, settled, fence, installer, done>>
  BY DEF Install!UnitCrashes
<1>3. PICK u \in units.up : /\ units' = [units EXCEPT !.up = @ \ {u}]
            /\ bootstrap' = [bootstrap EXCEPT !.running = @ /\ u # "postgres"]
  BY DEF Install!UnitCrashes
<1>4. units' = [asked |-> units.asked, up |-> units.up \ {u}, enabled |-> units.enabled]
  BY <1>1, <1>3 DEF InstallTyped, Install!TypeOK
<1>5. units' \in [asked : SUBSET Install!Units, up : SUBSET Install!Units, enabled : BOOLEAN]
  BY <1>1, <1>4 DEF InstallTyped, Install!TypeOK
<1>6. /\ bootstrap'.config = bootstrap.config /\ bootstrap'.used = bootstrap.used
  BY <1>3
<1>7. bootstrap'.running \in BOOLEAN /\ (bootstrap'.running => bootstrap.running)
  BY <1>1, <1>3 DEF InstallTyped, Install!TypeOK
<1>8. bootstrap' \in [config : {"absent", "partial", "whole"}, running : BOOLEAN, used : BOOLEAN]
  BY <1>1, <1>3 DEF InstallTyped, Install!TypeOK
<1>9. cuts' \in 0..MaxCuts
  BY <1>1, BoundsAssumption DEF Install!UnitCrashes, Install!Bounded, InstallTyped, Install!TypeOK
<1>10. Install!Plan' = Install!Plan /\ \A t : (Past(t)' <=> Past(t)) /\ (Install!At(t)' <=> Install!At(t))
  BY <1>2, Unmoved
<1>11. InstallTyped'
  BY <1>1, <1>2, <1>5, <1>8, <1>9, <1>10 DEF InstallTyped, Install!TypeOK
<1>12. InstallWriting'
  BY <1>1, <1>2, <1>10 DEF InstallWriting
<1>13. InstallCredentials'
  BY <1>1, <1>2, <1>4, <1>10 DEF InstallCredentials, Committed, Application
<1>14. InstallIdentified'
  BY <1>1, <1>2, <1>6, <1>7, <1>10 DEF InstallIdentified
<1>15. InstallPrepared'
  BY <1>1, <1>2, <1>4, <1>6, <1>10 DEF InstallPrepared
<1> QED
  BY <1>11, <1>12, <1>13, <1>14, <1>15 DEF InstallInv

\* The machine restarts with what is enabled.
LEMMA PowerCutStep ==
    ASSUME InstallInv, Install!PowerCut
    PROVE  InstallInv'
<1>1. InstallTyped /\ InstallWriting /\ InstallCredentials /\ InstallIdentified /\ InstallPrepared
  BY DEF InstallInv
<1>2. UNCHANGED <<site, disk, settled, done>>
  BY DEF Install!PowerCut
<1>3. installer' = [at |-> 0, busy |-> FALSE, secret |-> None]
  BY DEF Install!PowerCut, Install!Idle
<1>5. cuts' \in 0..MaxCuts
  BY <1>1, BoundsAssumption DEF Install!PowerCut, Install!Bounded, InstallTyped, Install!TypeOK
<1>6. fence' = FALSE /\ database' \in {database, "torn"} /\ (database' # database => database = "initialising")
  BY DEF Install!PowerCut
<1>7. (database' = None <=> database = None) /\ (database' \in Secrets => database' = database)
      /\ database' \in {None, "initialising", "torn"} \union Secrets
  BY <1>1, <1>6, DatabaseAssumption, SecretsAssumption DEF InstallTyped, Install!TypeOK
<1>8. bootstrap' = [config |-> bootstrap.config, running |-> FALSE, used |-> bootstrap.used]
  BY <1>1 DEF Install!PowerCut, InstallTyped, Install!TypeOK
<1>9. bootstrap' \in [config : {"absent", "partial", "whole"}, running : BOOLEAN, used : BOOLEAN]
  BY <1>1, <1>8 DEF InstallTyped, Install!TypeOK
<1>10. /\ units'.enabled = units.enabled /\ units'.up = {}
       /\ ~units.enabled => units'.asked = {}
       /\ ~Application => units'.asked \subseteq {"proxy"}
  BY <1>1
  DEF Install!PowerCut, Install!Pulled, Install!Requires, Application, InstallTyped, Install!TypeOK
<1>12. units' \in [asked : SUBSET Install!Units, up : SUBSET Install!Units, enabled : BOOLEAN]
  BY <1>1
  DEF Install!PowerCut, Install!Pulled, Install!Requires, Install!Units, InstallTyped,
     Install!TypeOK
<1>14. \A t : ~Past(t)'
  BY <1>3, Restarted
<1>15. InstallTyped'
  <2>1. installer' \in [at : Nat, busy : BOOLEAN, secret : Secrets \union {None}] /\ installer'.at = 0
    BY <1>3
  <2>2. installer'.at <= Len(Install!Plan)'
    BY <2>1
  <2>3. /\ site' \in [app : {"matrix", "nextcloud", "frontend", "gateway"}, portable : BOOLEAN]
        /\ disk' \in [Install!Files -> {"absent", "partial", "whole"} \union Secrets]
        /\ settled' \subseteq {"demoted", "controls"} /\ done' \in BOOLEAN
    BY <1>1, <1>2 DEF InstallTyped, Install!TypeOK
  <2>4. fence' \in BOOLEAN
    BY <1>6
  <2>5. Install!TypeOK'
    BY ONLY <1>5, <1>7, <1>9, <1>12, <2>1, <2>3, <2>4 DEF Install!TypeOK
  <2> QED
    BY ONLY <2>2, <2>5 DEF InstallTyped
<1>16. InstallWriting'
  BY <1>3 DEF InstallWriting
<1>17. InstallCredentials'
  BY <1>1, <1>2, <1>7, <1>10, <1>14 DEF InstallCredentials, Committed, Application
<1>18. InstallIdentified'
  BY <1>1, <1>2, <1>8, <1>14 DEF InstallIdentified
<1>19. InstallPrepared'
  BY <1>1, <1>2, <1>8, <1>10, <1>14 DEF InstallPrepared
<1> QED
  BY <1>15, <1>16, <1>17, <1>18, <1>19 DEF InstallInv

LEMMA InstallInit == Install!Init => InstallInv
<1> SUFFICES ASSUME Install!Init
             PROVE  InstallInv
  OBVIOUS
<1>0. site \in [app : {"matrix", "nextcloud", "frontend", "gateway"}, portable : BOOLEAN]
  <2>1. CASE site \in [app : {"matrix", "nextcloud"}, portable : BOOLEAN]
    BY <2>1
  <2>2. CASE site = [app |-> "frontend", portable |-> TRUE]
    BY <2>2
  <2>3. CASE site = [app |-> "gateway", portable |-> FALSE]
    BY <2>3
  <2> QED
    BY <2>2, <2>3 DEF Install!Init
<1>1. /\ disk = [f \in Install!Files |-> "absent"] /\ database = None
      /\ bootstrap = [config |-> "absent", running |-> FALSE, used |-> FALSE]
      /\ settled = {} /\ fence = FALSE
      /\ units = [asked |-> {}, up |-> {}, enabled |-> FALSE]
      /\ installer = [at |-> 0, busy |-> FALSE, secret |-> None]
      /\ cuts = 0 /\ done = FALSE
  BY DEF Install!Init, Install!Idle
<1>2. Install!TypeOK
  <2>2. cuts \in 0..MaxCuts
    BY <1>1, BoundsAssumption
  <2> QED
    BY <1>0, <1>1, <2>2 DEF Install!TypeOK
<1>4. \A t : ~Past(t)
  BY <1>1 DEF Past
<1>5. {"secrets", "configuration", "identity"} \subseteq Install!Files
  BY DEF Install!Files
<1> QED
  BY <1>1, <1>2, <1>4, <1>5, SecretsAssumption
  DEF InstallInv, InstallTyped, InstallWriting, InstallCredentials, InstallIdentified,
     InstallPrepared, Committed

LEMMA InstallStep == InstallInv /\ [Install!Next]_installVars => InstallInv'
<1> SUFFICES ASSUME InstallInv, [Install!Next]_installVars
             PROVE  InstallInv'
  OBVIOUS
<1>1. CASE UNCHANGED installVars
  <2>1. Install!Plan' = Install!Plan /\ \A t : (Past(t)' <=> Past(t)) /\ (Install!At(t)' <=> Install!At(t))
    BY <1>1, Unmoved DEF installVars
  <2> QED
    BY <1>1, <2>1
    DEF InstallInv, InstallTyped, InstallWriting, InstallCredentials, InstallIdentified,
       InstallPrepared, Application, Committed, Install!TypeOK, installVars
<1>2. CASE Install!Next
  BY <1>2, StartInstallStep, WriteAtomicStep, BeginWriteStep, EndWriteStep, KeepStep,
    RefuseFileStep, ReadSecretsStep, CreateFenceStep, BeginInstallStep, InstalledStep, FreezeStep,
    DemoteStep, ControlsStep, VerifyStep, EnableStep, AskStep, WaitedStep, WaitFailsStep,
    UnitStartsStep, InitialiseDatabaseStep, DatabaseInitialisedStep, InstallEndsStep, CutStep,
    UnitCrashesStep, PowerCutStep
  DEF Install!Next, Install!Command, Install!Systemd
<1> QED
  BY <1>1, <1>2
-----------------------------------------------------------------------------
(* The frontend of a portable site.                                        *)

\* What a renewal relies on at its step: a generation that is whole, and the link.
FrontendLinked ==
    /\ active # None => generation[active] = "whole"
    /\ renewal.pc # "idle" => renewal.new \in SiteMaterials
    /\ renewal.pc \in {"look", "switch", "restart", "start"} => generation[renewal.new] = "whole"
    /\ renewal.pc \in {"restart", "start"} => active = renewal.new
    /\ renewal.pc \in {"rollback", "restart-old"} => renewal.old # None
    /\ renewal.pc = "restart-old" => active = renewal.old
    /\ renewal.pc = "switch" => renewal.old = active
    /\ renewal.old # None => generation[renewal.old] = "whole"
    /\ installed => active # None

\* What the frontend has come up with: what it serves, the active generation before the link
\* is switched, and afterwards the one to go back to.
FrontendProven ==
    /\ serving # None => serving \in proven
    /\ ~torn /\ renewal.pc \in {"idle", "fill", "filling", "look", "switch"} =>
           serving \in {None, active} /\ (installed => active \in proven)
    /\ ~torn /\ installed /\ renewal.pc \in {"restart", "start"} /\ renewal.old = None =>
           active \in proven
    /\ ~torn /\ installed /\ renewal.old # None => renewal.old \in proven

FrontendInv == Frontend!TypeOK /\ FrontendLinked /\ FrontendProven


\* The variables of the frontend keep their types.
LEMMA FrontendTyped ==
    ASSUME Frontend!TypeOK, FrontendLinked, [Frontend!Next]_frontendVars
    PROVE  Frontend!TypeOK'
<1> USE DEF Frontend!TypeOK, FrontendLinked
<1>1. ASSUME NEW m \in SiteMaterials, NEW r \in BOOLEAN, Frontend!StartCommand(m, r)
      PROVE  Frontend!TypeOK'
  BY <1>1 DEF Frontend!StartCommand, Frontend!Links
<1>2. CASE Frontend!Fill
  <2>1. renewal.pc = "fill" /\ UNCHANGED <<active, serving, proven, torn, frontendMarker, installed, mishaps>>
    BY <1>2 DEF Frontend!Fill, Frontend!Record
  <2>2. \/ generation' = [generation EXCEPT ![renewal.new] = "partial"]
        \/ generation' = generation
    BY <1>2 DEF Frontend!Fill
  <2>3. generation' \in [SiteMaterials -> {"absent", "partial", "whole"}]
    BY <2>2
  <2>4. \/ renewal' = [renewal EXCEPT !.pc = "filling"]
        \/ renewal' = [renewal EXCEPT !.pc = "look"]
        \/ renewal' = Frontend!Idle
    BY <1>2 DEF Frontend!Fill, Frontend!Go
  <2>5. CASE renewal' = [renewal EXCEPT !.pc = "filling"]
    BY <2>1, <2>3, <2>5
  <2>6. CASE renewal' = [renewal EXCEPT !.pc = "look"]
    BY <2>1, <2>3, <2>6
  <2>7. CASE renewal' = Frontend!Idle
    BY <2>1, <2>3, <2>7 DEF Frontend!Idle
  <2> QED
    BY <2>4, <2>5, <2>6, <2>7
<1>3. CASE Frontend!Filled
  BY <1>3 DEF Frontend!Filled, Frontend!Go, Frontend!Record
<1>4. CASE Frontend!Look
  <2>1. renewal.pc = "look" /\ UNCHANGED <<generation, active, serving, proven, torn>>
        /\ UNCHANGED <<frontendMarker, installed, mishaps>>
    BY <1>4 DEF Frontend!Look, Frontend!Links, Frontend!Record
  <2>2. \/ active = renewal.new /\ renewal' = [renewal EXCEPT !.pc = "restart"]
        \/ active = renewal.new /\ renewal' = [renewal EXCEPT !.pc = "start"]
        \/ renewal' = [renewal EXCEPT !.pc = "switch", !.old = active]
        \/ renewal' = Frontend!Idle
    BY <1>4 DEF Frontend!Look, Frontend!Go
  <2>3. CASE active = renewal.new /\ renewal' = [renewal EXCEPT !.pc = "restart"]
    BY <2>1, <2>3
  <2>4. CASE active = renewal.new /\ renewal' = [renewal EXCEPT !.pc = "start"]
    BY <2>1, <2>4
  <2>5. CASE renewal' = [renewal EXCEPT !.pc = "switch", !.old = active]
    BY <2>1, <2>5
  <2>6. CASE renewal' = Frontend!Idle
    BY <2>1, <2>6 DEF Frontend!Idle
  <2> QED
    BY <2>2, <2>3, <2>4, <2>5, <2>6
<1>5. CASE Frontend!Switch
  BY <1>5 DEF Frontend!Switch, Frontend!Go, Frontend!Record
<1>6. CASE Frontend!RestartWorks
  BY <1>6 DEF Frontend!RestartWorks, Frontend!ComesUp, Frontend!Idle, Frontend!Links
<1>7. CASE Frontend!StartKeeps
  BY <1>7 DEF Frontend!StartKeeps, Frontend!Idle, Frontend!Links
<1>8. CASE Frontend!RestartFails
  <2>1. serving' = None /\ UNCHANGED <<generation, active, proven, torn, frontendMarker, installed>>
    BY <1>8 DEF Frontend!RestartFails, Frontend!Links, Frontend!Record
  <2>2. mishaps' \in 0..MaxFaults
    BY BoundsAssumption, <1>8 DEF Frontend!RestartFails, Frontend!Fault
  <2>3. renewal' = [renewal EXCEPT !.pc = "rollback"] \/ renewal' = Frontend!Idle
    BY <1>8 DEF Frontend!RestartFails, Frontend!Go
  <2>4. CASE renewal' = [renewal EXCEPT !.pc = "rollback"]
    BY <2>1, <2>2, <2>4
  <2>5. CASE renewal' = Frontend!Idle
    BY <2>1, <2>2, <2>5 DEF Frontend!Idle
  <2> QED
    BY <2>3, <2>4, <2>5
<1>9. CASE Frontend!Rollback
  BY <1>9 DEF Frontend!Rollback, Frontend!LinkBack, Frontend!Go, Frontend!Record
<1>10. CASE Frontend!RestartOld
  BY BoundsAssumption, <1>10
  DEF Frontend!RestartOld, Frontend!Fault, Frontend!ComesUp, Frontend!Idle, Frontend!Links
<1>11. CASE Frontend!Kill
  BY BoundsAssumption, <1>11 DEF Frontend!Kill, Frontend!Fault, Frontend!Idle, Frontend!Links
<1>12. CASE Frontend!Boot
  BY BoundsAssumption, <1>12 DEF Frontend!Boot, Frontend!Fault, Frontend!Idle, Frontend!Links
<1>13. CASE Frontend!Systemd
  BY <1>13 DEF Frontend!Systemd, Frontend!ComesUp, Frontend!Links
<1>14. CASE UNCHANGED frontendVars
  BY <1>14 DEF frontendVars
<1> QED
  BY <1>1, <1>2, <1>3, <1>4, <1>5, <1>6, <1>7, <1>8, <1>9, <1>10, <1>11, <1>12, <1>13, <1>14
  DEF Frontend!Next, Frontend!Step

\* A renewal switches to and from whole generations.
LEMMA FrontendStaysLinked ==
    ASSUME Frontend!TypeOK, FrontendLinked, [Frontend!Next]_frontendVars
    PROVE  FrontendLinked'
<1> USE DEF Frontend!TypeOK, FrontendLinked
<1>1. ASSUME NEW m \in SiteMaterials, NEW r \in BOOLEAN, Frontend!StartCommand(m, r)
      PROVE  FrontendLinked'
  BY <1>1 DEF Frontend!StartCommand, Frontend!Links
<1>2. CASE Frontend!Fill
  BY <1>2 DEF Frontend!Fill, Frontend!Accepts, Frontend!Go, Frontend!Idle, Frontend!Record
<1>3. CASE Frontend!Filled
  BY <1>3 DEF Frontend!Filled, Frontend!Go, Frontend!Record
<1>4. CASE Frontend!Look
  <2>1. renewal.pc = "look" /\ UNCHANGED <<generation, active, serving, proven, torn>>
        /\ UNCHANGED <<frontendMarker, installed, mishaps>>
    BY <1>4 DEF Frontend!Look, Frontend!Links, Frontend!Record
  <2>2. \/ active = renewal.new /\ renewal' = [renewal EXCEPT !.pc = "restart"]
        \/ active = renewal.new /\ renewal' = [renewal EXCEPT !.pc = "start"]
        \/ renewal' = [renewal EXCEPT !.pc = "switch", !.old = active]
        \/ renewal' = Frontend!Idle
    BY <1>4 DEF Frontend!Look, Frontend!Go
  <2>3. CASE active = renewal.new /\ renewal' = [renewal EXCEPT !.pc = "restart"]
    BY <2>1, <2>3
  <2>4. CASE active = renewal.new /\ renewal' = [renewal EXCEPT !.pc = "start"]
    BY <2>1, <2>4
  <2>5. CASE renewal' = [renewal EXCEPT !.pc = "switch", !.old = active]
    BY <2>1, <2>5
  <2>6. CASE renewal' = Frontend!Idle
    BY <2>1, <2>6 DEF Frontend!Idle
  <2> QED
    BY <2>2, <2>3, <2>4, <2>5, <2>6
<1>5. CASE Frontend!Switch
  BY SiteMaterialsAssumption, <1>5 DEF Frontend!Switch, Frontend!Go
<1>6. CASE Frontend!RestartWorks
  BY SiteMaterialsAssumption, <1>6 DEF Frontend!RestartWorks, Frontend!Idle, Frontend!Links
<1>7. CASE Frontend!StartKeeps
  BY SiteMaterialsAssumption, <1>7 DEF Frontend!StartKeeps, Frontend!Idle, Frontend!Links
<1>8. CASE Frontend!RestartFails
  BY <1>8 DEF Frontend!RestartFails, Frontend!Go, Frontend!Idle, Frontend!Links, Frontend!Record
<1>9. CASE Frontend!Rollback
  BY <1>9 DEF Frontend!Rollback, Frontend!LinkBack, Frontend!Go
<1>10. CASE Frontend!RestartOld
  BY <1>10 DEF Frontend!RestartOld, Frontend!Idle, Frontend!Links
<1>11. CASE Frontend!Kill
  BY <1>11 DEF Frontend!Kill, Frontend!Idle, Frontend!Links
<1>12. CASE Frontend!Boot
  BY <1>12 DEF Frontend!Boot, Frontend!Idle, Frontend!Links
<1>13. CASE Frontend!Systemd
  BY <1>13 DEF Frontend!Systemd, Frontend!Links
<1>14. CASE UNCHANGED frontendVars
  BY <1>14 DEF frontendVars
<1> QED
  BY <1>1, <1>2, <1>3, <1>4, <1>5, <1>6, <1>7, <1>8, <1>9, <1>10, <1>11, <1>12, <1>13, <1>14
  DEF Frontend!Next, Frontend!Step

\* What a failed renewal goes back to is proven.
LEMMA FrontendStaysProven ==
    ASSUME Frontend!TypeOK, FrontendLinked, FrontendProven, [Frontend!Next]_frontendVars
    PROVE  FrontendProven'
<1> USE DEF Frontend!TypeOK, FrontendLinked, FrontendProven
<1>1. ASSUME NEW m \in SiteMaterials, NEW r \in BOOLEAN, Frontend!StartCommand(m, r)
      PROVE  FrontendProven'
  BY <1>1 DEF Frontend!StartCommand, Frontend!Links
<1>2. CASE Frontend!Fill
  BY <1>2 DEF Frontend!Fill, Frontend!Go, Frontend!Idle, Frontend!Record
<1>3. CASE Frontend!Filled
  BY <1>3 DEF Frontend!Filled, Frontend!Go, Frontend!Record
<1>4. CASE Frontend!Look
  <2>1. renewal.pc = "look" /\ UNCHANGED <<generation, active, serving, proven, torn>>
        /\ UNCHANGED <<frontendMarker, installed, mishaps>>
    BY <1>4 DEF Frontend!Look, Frontend!Links, Frontend!Record
  <2>2. \/ active = renewal.new /\ renewal' = [renewal EXCEPT !.pc = "restart"]
        \/ active = renewal.new /\ renewal' = [renewal EXCEPT !.pc = "start"]
        \/ renewal' = [renewal EXCEPT !.pc = "switch", !.old = active]
        \/ renewal' = Frontend!Idle
    BY <1>4 DEF Frontend!Look, Frontend!Go
  <2>3. CASE active = renewal.new /\ renewal' = [renewal EXCEPT !.pc = "restart"]
    BY <2>1, <2>3
  <2>4. CASE active = renewal.new /\ renewal' = [renewal EXCEPT !.pc = "start"]
    BY <2>1, <2>4
  <2>5. CASE renewal' = [renewal EXCEPT !.pc = "switch", !.old = active]
    BY <2>1, <2>5
  <2>6. CASE renewal' = Frontend!Idle
    BY <2>1, <2>6 DEF Frontend!Idle
  <2> QED
    BY <2>2, <2>3, <2>4, <2>5, <2>6
<1>5. CASE Frontend!Switch
  BY <1>5 DEF Frontend!Switch, Frontend!Go, Frontend!Record
<1>6. CASE Frontend!RestartWorks
  BY <1>6 DEF Frontend!RestartWorks, Frontend!ComesUp, Frontend!Idle, Frontend!Links
<1>7. CASE Frontend!StartKeeps
  BY SiteMaterialsAssumption, <1>7 DEF Frontend!StartKeeps, Frontend!Idle, Frontend!Links
<1>8. CASE Frontend!RestartFails
  BY <1>8 DEF Frontend!RestartFails, Frontend!Go, Frontend!Idle, Frontend!Links, Frontend!Record
<1>9. CASE Frontend!Rollback
  BY <1>9 DEF Frontend!Rollback, Frontend!Go, Frontend!Record
<1>10. CASE Frontend!RestartOld
  BY <1>10 DEF Frontend!RestartOld, Frontend!ComesUp, Frontend!Idle, Frontend!Links
<1>11. CASE Frontend!Kill
  BY <1>11 DEF Frontend!Kill
<1>12. CASE Frontend!Boot
  BY <1>12 DEF Frontend!Boot, Frontend!Idle, Frontend!Links
<1>13. CASE Frontend!Systemd
  BY <1>13 DEF Frontend!Systemd, Frontend!ComesUp, Frontend!Links
<1>14. CASE UNCHANGED frontendVars
  BY <1>14 DEF frontendVars
<1> QED
  BY <1>1, <1>2, <1>3, <1>4, <1>5, <1>6, <1>7, <1>8, <1>9, <1>10, <1>11, <1>12, <1>13, <1>14
  DEF Frontend!Next, Frontend!Step

LEMMA FrontendInit == Frontend!Init => FrontendInv
<1> SUFFICES ASSUME Frontend!Init
             PROVE  FrontendInv
  OBVIOUS
<1>1. renewal = [pc |-> "idle", renew |-> FALSE, new |-> None, old |-> None]
  BY DEF Frontend!Init, Frontend!Idle
<1>2. 0 \in 0..MaxFaults
  BY BoundsAssumption
<1>3. Frontend!TypeOK
  <2>1. generation \in [SiteMaterials -> {"absent", "partial", "whole"}]
    BY DEF Frontend!Init
  <2>2. torn = FALSE /\ frontendMarker = FALSE /\ installed = FALSE /\ mishaps = 0 /\ proven = {}
        /\ active = None /\ serving = None
    BY DEF Frontend!Init
  <2> QED
    BY <1>1, <1>2, <2>1, <2>2 DEF Frontend!TypeOK
<1>4. FrontendLinked /\ FrontendProven
  BY <1>1 DEF Frontend!Init, FrontendLinked, FrontendProven
<1> QED
  BY <1>3, <1>4 DEF FrontendInv

LEMMA FrontendStep == FrontendInv /\ [Frontend!Next]_frontendVars => FrontendInv'
BY FrontendTyped, FrontendStaysLinked, FrontendStaysProven DEF FrontendInv
-----------------------------------------------------------------------------
(* The enrollment.                                                         *)

\* Between the two reads of a command the client changes only where the answer does not
\* depend on it, and a registration is asked for only when it takes no client away.
ReadsAgree ==
    /\ client.url => client.backend = "NeedsLogin"
    /\ command.pc = "preferences" /\ command.read.backend \in {"absent", "Running"} =>
           client.backend = command.read.backend /\ client.identity = command.read.identity
    /\ command.pc = "up" => client.controller # "other"

EnrollmentInv == Enrollment!TypeOK /\ ReadsAgree


\* The variables of the enrollment keep their types.
LEMMA EnrollmentTyped ==
    ASSUME Enrollment!TypeOK, [Enrollment!Next]_enrollmentVars
    PROVE  Enrollment!TypeOK'
<1> USE DEF Enrollment!TypeOK, Enrollment!Backends, Enrollment!Reads
<1>1. ASSUME NEW op \in {"apply", "enroll", "status"}, Enrollment!Begin(op)
      PROVE  Enrollment!TypeOK'
  <2>1. command' = [op |-> op, pc |-> "owner", phase |-> "check", read |-> Enrollment!Unread, code |-> "ok"]
    BY <1>1 DEF Enrollment!Begin, Enrollment!Idle
  <2>2. Enrollment!Unread \in Enrollment!Reads
    BY DEF Enrollment!Unread
  <2> HIDE DEF Enrollment!Reads
  <2> QED
    BY <1>1, <2>1, <2>2 DEF Enrollment!Begin
<1>2. CASE Enrollment!CheckOwner
  <2>1. UNCHANGED <<marker, client, faults>>
    BY <1>2 DEF Enrollment!CheckOwner
  <2>2. \/ command' = [command EXCEPT !.pc = "status", !.phase = "check"] /\ result' = result
        \/ command' = [command EXCEPT !.pc = "record"] /\ result' = result
        \/ command' = Enrollment!Idle /\ result' \in {"blocked", "failed"}
    BY <1>2 DEF Enrollment!CheckOwner, Enrollment!Go, Enrollment!Look, Enrollment!Return
  <2>3. CASE command' = [command EXCEPT !.pc = "status", !.phase = "check"] /\ result' = result
    <3>1. command' = [op |-> command.op, pc |-> "status", phase |-> "check",
                      read |-> command.read, code |-> command.code]
      BY <2>3
    <3> QED
      BY <2>1, <2>3, <3>1
  <2>4. CASE command' = [command EXCEPT !.pc = "record"] /\ result' = result
    <3> QED
      BY <2>1, <2>4
  <2>5. CASE command' = Enrollment!Idle /\ result' \in {"blocked", "failed"}
    BY <2>1, <2>5 DEF Enrollment!Idle, Enrollment!Unread
  <2> QED
    BY <2>2, <2>3, <2>4, <2>5
<1>3. CASE Enrollment!ReadStatus
  <2>1. command' = [op |-> command.op, pc |-> "preferences", phase |-> command.phase,
                    read |-> [backend |-> client.backend, url |-> client.url, identity |-> client.identity],
                    code |-> command.code]
    BY <1>3 DEF Enrollment!ReadStatus
  <2>2. [backend |-> client.backend, url |-> client.url, identity |-> client.identity] \in Enrollment!Reads
    OBVIOUS
  <2> HIDE DEF Enrollment!Reads
  <2> QED
    BY <1>3, <2>1, <2>2 DEF Enrollment!ReadStatus
<1>4. CASE Enrollment!ReadPreferences
  <2>1. UNCHANGED <<marker, client, faults>>
    BY <1>4 DEF Enrollment!ReadPreferences
  <2>2. \/ command' = [command EXCEPT !.pc = "record"] /\ result' = result
        \/ command' = [command EXCEPT !.pc = "status", !.phase = "before"] /\ result' = result
        \/ command' = [command EXCEPT !.pc = "up"] /\ result' = result /\ Enrollment!Inspected(command.read, client.controller) # "mismatch"
        \/ command' = Enrollment!Idle /\ result' \in {"blocked", Enrollment!Inspected(command.read, client.controller)} /\ result' # "mismatch"
    BY <1>4 DEF Enrollment!ReadPreferences, Enrollment!Go, Enrollment!Look, Enrollment!Return
  <2>3. CASE command' = [command EXCEPT !.pc = "record"] /\ result' = result
    <3> QED
      BY <2>1, <2>3
  <2>4. CASE command' = [command EXCEPT !.pc = "status", !.phase = "before"] /\ result' = result
    <3>1. command' = [op |-> command.op, pc |-> "status", phase |-> "before",
                      read |-> command.read, code |-> command.code]
      BY <2>4
    <3> QED
      BY <2>1, <2>4, <3>1
  <2>5. CASE command' = [command EXCEPT !.pc = "up"] /\ result' = result /\ Enrollment!Inspected(command.read, client.controller) # "mismatch"
    <3> QED
      BY <2>1, <2>5
  <2>6. CASE command' = Enrollment!Idle /\ result' \in {"blocked", Enrollment!Inspected(command.read, client.controller)} /\ result' # "mismatch"
    BY <2>1, <2>6 DEF Enrollment!Idle, Enrollment!Unread, Enrollment!Inspected
  <2> QED
    BY <2>2, <2>3, <2>4, <2>5, <2>6
<1>5. CASE Enrollment!RecordOwnership
  <2>1. UNCHANGED <<client, faults>> /\ marker' \in {marker, "ours"}
    BY <1>5 DEF Enrollment!RecordOwnership, Enrollment!RecordFirst
  <2>2. \/ command' = [command EXCEPT !.pc = "install"] /\ result' = result
        \/ command' = Enrollment!Idle /\ result' = "failed"
    BY <1>5 DEF Enrollment!RecordOwnership, Enrollment!Go, Enrollment!Return
  <2>3. CASE command' = [command EXCEPT !.pc = "install"] /\ result' = result
    <3> QED
      BY <2>1, <2>3
  <2>4. CASE command' = Enrollment!Idle /\ result' = "failed"
    BY <2>1, <2>4 DEF Enrollment!Idle, Enrollment!Unread
  <2> QED
    BY <2>2, <2>3, <2>4
<1>6. CASE Enrollment!InstallClient
  BY <1>6 DEF Enrollment!InstallClient, Enrollment!Return, Enrollment!Idle, Enrollment!Unread
<1>7. CASE Enrollment!Up
  BY <1>7 DEF Enrollment!Up, Enrollment!Go
<1>8. CASE Enrollment!UpEnds
  <2>1. PICK code \in {"ok", "bad"} :
               command' = [command EXCEPT !.pc = "status", !.phase = "after", !.code = code]
    BY <1>8 DEF Enrollment!UpEnds
  <2>2. faults' \in 0..MaxFaults /\ UNCHANGED <<marker, client, result>>
    BY <1>8, BoundsAssumption DEF Enrollment!UpEnds, Enrollment!Fault
  <2>3. command' = [op |-> command.op, pc |-> "status", phase |-> "after", read |-> command.read,
                    code |-> code]
    BY <2>1
  <2> QED
    BY <2>2, <2>3
<1>9. CASE Enrollment!Register
  <2>1. client' = [backend |-> client.backend, controller |-> client.controller,
                   identity |-> client.identity, url |-> TRUE]
    BY <1>9 DEF Enrollment!Register
  <2>2. client' \in [backend : Enrollment!Backends, controller : {"default", "ours", "other"},
                   identity : {"asked", "other"}, url : BOOLEAN]
    BY <2>1
  <2> QED
    BY <1>9, <2>2 DEF Enrollment!Register
<1>10. CASE Enrollment!Approve
  <2>1. PICK i \in {"asked", "other"}, b \in {"NeedsMachineAuth", "Running"} :
               client' = [client EXCEPT !.url = FALSE, !.identity = i, !.backend = b]
    BY <1>10 DEF Enrollment!Approve
  <2>2. client' = [backend |-> b, controller |-> client.controller, identity |-> i, url |-> FALSE]
    BY <2>1
  <2>3. client' \in [backend : Enrollment!Backends, controller : {"default", "ours", "other"},
                   identity : {"asked", "other"}, url : BOOLEAN]
    BY <2>2
  <2> QED
    BY <1>10, <2>3 DEF Enrollment!Approve
<1>11. CASE Enrollment!Authorize
  BY <1>11 DEF Enrollment!Authorize
<1>12. CASE Enrollment!Interrupt
  BY BoundsAssumption, <1>12
  DEF Enrollment!Interrupt, Enrollment!Fault, Enrollment!Return, Enrollment!Idle, Enrollment!Unread
<1>13. CASE Enrollment!KeyExpires
  BY BoundsAssumption, <1>13 DEF Enrollment!KeyExpires, Enrollment!Fault
<1>14. CASE Enrollment!Reboot
  <2>1. client' = [backend |-> client.backend, controller |-> client.controller,
                   identity |-> client.identity, url |-> FALSE]
    BY <1>14 DEF Enrollment!Reboot
  <2>2. faults' \in 0..MaxFaults /\ UNCHANGED <<marker, result>> /\ command' = Enrollment!Idle
    BY <1>14, BoundsAssumption DEF Enrollment!Reboot, Enrollment!Fault
  <2> QED
    BY <2>1, <2>2 DEF Enrollment!Idle, Enrollment!Unread
<1>15. CASE Enrollment!Kill
  BY BoundsAssumption, <1>15
  DEF Enrollment!Kill, Enrollment!Fault, Enrollment!Return, Enrollment!Idle, Enrollment!Unread
<1>16. CASE UNCHANGED enrollmentVars
  BY <1>16 DEF enrollmentVars
<1> QED
  BY <1>1, <1>2, <1>3, <1>4, <1>5, <1>6, <1>7, <1>8, <1>9, <1>10, <1>11, <1>12, <1>13, <1>14, <1>15,
    <1>16
  DEF Enrollment!Next, Enrollment!Step

\* The reads of a command stay good for what it does from them.
LEMMA EnrollmentAgrees ==
    ASSUME Enrollment!TypeOK, ReadsAgree, [Enrollment!Next]_enrollmentVars
    PROVE  ReadsAgree'
<1> USE DEF Enrollment!TypeOK, Enrollment!Backends, Enrollment!Reads, ReadsAgree
<1>1. ASSUME NEW op \in {"apply", "enroll", "status"}, Enrollment!Begin(op)
      PROVE  ReadsAgree'
  BY <1>1 DEF Enrollment!Begin
<1>2. CASE Enrollment!CheckOwner
  <2>1. UNCHANGED <<marker, client, faults>>
    BY <1>2 DEF Enrollment!CheckOwner
  <2>2. \/ command' = [command EXCEPT !.pc = "status", !.phase = "check"] /\ result' = result
        \/ command' = [command EXCEPT !.pc = "record"] /\ result' = result
        \/ command' = Enrollment!Idle /\ result' \in {"blocked", "failed"}
    BY <1>2 DEF Enrollment!CheckOwner, Enrollment!Go, Enrollment!Look, Enrollment!Return
  <2>3. CASE command' = [command EXCEPT !.pc = "status", !.phase = "check"] /\ result' = result
    <3>1. command' = [op |-> command.op, pc |-> "status", phase |-> "check",
                      read |-> command.read, code |-> command.code]
      BY <2>3
    <3> QED
      BY <2>1, <3>1
  <2>4. CASE command' = [command EXCEPT !.pc = "record"] /\ result' = result
    <3>1. command' = [op |-> command.op, pc |-> "record", phase |-> command.phase,
                      read |-> command.read, code |-> command.code]
      BY <2>4
    <3> QED
      BY <2>1, <3>1
  <2>5. CASE command' = Enrollment!Idle /\ result' \in {"blocked", "failed"}
    BY <2>1, <2>5 DEF Enrollment!Idle
  <2> QED
    BY <2>2, <2>3, <2>4, <2>5
<1>3. CASE Enrollment!ReadStatus
  BY <1>3 DEF Enrollment!ReadStatus
<1>4. CASE Enrollment!ReadPreferences
  <2>1. UNCHANGED <<marker, client, faults>>
    BY <1>4 DEF Enrollment!ReadPreferences
  <2>2. \/ command' = [command EXCEPT !.pc = "record"] /\ result' = result
        \/ command' = [command EXCEPT !.pc = "status", !.phase = "before"] /\ result' = result
        \/ command' = [command EXCEPT !.pc = "up"] /\ result' = result /\ Enrollment!Inspected(command.read, client.controller) # "mismatch"
        \/ command' = Enrollment!Idle /\ result' \in {"blocked", Enrollment!Inspected(command.read, client.controller)} /\ result' # "mismatch"
    BY <1>4 DEF Enrollment!ReadPreferences, Enrollment!Go, Enrollment!Look, Enrollment!Return
  <2>3. CASE command' = [command EXCEPT !.pc = "record"] /\ result' = result
    <3>1. command' = [op |-> command.op, pc |-> "record", phase |-> command.phase,
                      read |-> command.read, code |-> command.code]
      BY <2>3
    <3> QED
      BY <2>1, <3>1
  <2>4. CASE command' = [command EXCEPT !.pc = "status", !.phase = "before"] /\ result' = result
    <3>1. command' = [op |-> command.op, pc |-> "status", phase |-> "before",
                      read |-> command.read, code |-> command.code]
      BY <2>4
    <3> QED
      BY <2>1, <3>1
  <2>5. CASE command' = [command EXCEPT !.pc = "up"] /\ result' = result /\ Enrollment!Inspected(command.read, client.controller) # "mismatch"
    <3>1. command' = [op |-> command.op, pc |-> "up", phase |-> command.phase,
                      read |-> command.read, code |-> command.code]
      BY <2>5
    <3>2. ~Enrollment!Foreign(command.read, client.controller)
      BY <2>5 DEF Enrollment!Inspected
    <3>3. client.controller # "other"
      BY <3>2 DEF Enrollment!Foreign
    <3> QED
      BY <2>1, <3>1, <3>3
  <2>6. CASE command' = Enrollment!Idle /\ result' \in {"blocked", Enrollment!Inspected(command.read, client.controller)} /\ result' # "mismatch"
    BY <2>1, <2>6 DEF Enrollment!Idle
  <2> QED
    BY <2>2, <2>3, <2>4, <2>5, <2>6
<1>5. CASE Enrollment!RecordOwnership
  BY <1>5 DEF Enrollment!RecordOwnership, Enrollment!Go, Enrollment!Return, Enrollment!Idle
<1>6. CASE Enrollment!InstallClient
  BY <1>6 DEF Enrollment!InstallClient, Enrollment!Return, Enrollment!Idle
<1>7. CASE Enrollment!Up
  BY <1>7 DEF Enrollment!Up, Enrollment!Go
<1>8. CASE Enrollment!UpEnds
  BY <1>8 DEF Enrollment!UpEnds
<1>9. CASE Enrollment!Register
  BY <1>9 DEF Enrollment!Register
<1>10. CASE Enrollment!Approve
  BY <1>10 DEF Enrollment!Approve
<1>11. CASE Enrollment!Authorize
  BY <1>11 DEF Enrollment!Authorize
<1>12. CASE Enrollment!Interrupt
  BY <1>12 DEF Enrollment!Interrupt, Enrollment!Return, Enrollment!Idle
<1>13. CASE Enrollment!KeyExpires
  BY <1>13 DEF Enrollment!KeyExpires, Enrollment!At
<1>14. CASE Enrollment!Reboot
  BY <1>14 DEF Enrollment!Reboot, Enrollment!Idle
<1>15. CASE Enrollment!Kill
  BY <1>15 DEF Enrollment!Kill, Enrollment!Return, Enrollment!Idle
<1>16. CASE UNCHANGED enrollmentVars
  BY <1>16 DEF enrollmentVars
<1> QED
  BY <1>1, <1>2, <1>3, <1>4, <1>5, <1>6, <1>7, <1>8, <1>9, <1>10, <1>11, <1>12, <1>13, <1>14, <1>15,
    <1>16
  DEF Enrollment!Next, Enrollment!Step

\* What is told is right, and no client is taken away.
LEMMA EnrollmentTells ==
    ASSUME Enrollment!TypeOK, ReadsAgree, [Enrollment!Next]_enrollmentVars
    PROVE  Enrollment!RightlyTold
<1> USE DEF Enrollment!TypeOK, Enrollment!Backends, Enrollment!Reads, ReadsAgree,
           Enrollment!RightlyTold
<1>1. ASSUME NEW op \in {"apply", "enroll", "status"}, Enrollment!Begin(op)
      PROVE  Enrollment!RightlyTold
  BY <1>1 DEF Enrollment!Begin
<1>2. CASE Enrollment!CheckOwner
  BY <1>2 DEF Enrollment!CheckOwner, Enrollment!Return
<1>3. CASE Enrollment!ReadStatus
  BY <1>3 DEF Enrollment!ReadStatus
<1>4. CASE Enrollment!ReadPreferences
  BY <1>4
  DEF Enrollment!ReadPreferences, Enrollment!At, Enrollment!Return, Enrollment!Inspected,
     Enrollment!Foreign, Enrollment!Misnamed
<1>5. CASE Enrollment!RecordOwnership
  BY <1>5 DEF Enrollment!RecordOwnership, Enrollment!Return
<1>6. CASE Enrollment!InstallClient
  BY <1>6 DEF Enrollment!InstallClient, Enrollment!Return
<1>7. CASE Enrollment!Up
  BY <1>7 DEF Enrollment!Up, Enrollment!At
<1>8. CASE Enrollment!UpEnds
  BY <1>8 DEF Enrollment!UpEnds
<1>9. CASE Enrollment!Register
  BY <1>9 DEF Enrollment!Register
<1>10. CASE Enrollment!Approve
  BY <1>10 DEF Enrollment!Approve
<1>11. CASE Enrollment!Authorize
  BY <1>11 DEF Enrollment!Authorize
<1>12. CASE Enrollment!Interrupt
  BY <1>12 DEF Enrollment!Interrupt, Enrollment!Return
<1>13. CASE Enrollment!KeyExpires
  BY <1>13 DEF Enrollment!KeyExpires
<1>14. CASE Enrollment!Reboot
  BY <1>14 DEF Enrollment!Reboot
<1>15. CASE Enrollment!Kill
  BY <1>15 DEF Enrollment!Kill, Enrollment!Return
<1>16. CASE UNCHANGED enrollmentVars
  BY <1>16 DEF enrollmentVars
<1> QED
  BY <1>1, <1>2, <1>3, <1>4, <1>5, <1>6, <1>7, <1>8, <1>9, <1>10, <1>11, <1>12, <1>13, <1>14, <1>15,
    <1>16
  DEF Enrollment!Next, Enrollment!Step

LEMMA EnrollmentInit == Enrollment!Init => EnrollmentInv
<1> SUFFICES ASSUME Enrollment!Init
             PROVE  EnrollmentInv
  OBVIOUS
<1> USE DEF Enrollment!Backends, Enrollment!Reads
<1>1. command = Enrollment!Idle /\ result = "none" /\ faults = 0 /\ faults \in 0..MaxFaults
  BY BoundsAssumption DEF Enrollment!Init
<1>2. marker \in {"none", "ours", "other"}
  BY DEF Enrollment!Init
<1>3. client.url = FALSE
      /\ client \in [backend : Enrollment!Backends, controller : {"default", "ours", "other"},
                       identity : {"asked", "other"}, url : BOOLEAN]
  <2>1. CASE client = Enrollment!Uninstalled
    BY <2>1 DEF Enrollment!Uninstalled
  <2>2. CASE \E b \in Enrollment!Backends, c \in {"ours", "other"}, i \in {"asked", "other"} :
                 client = [backend |-> b, controller |-> c, identity |-> i, url |-> FALSE]
    BY <2>2
  <2> QED
    BY <2>1, <2>2 DEF Enrollment!Init
<1> QED
  BY <1>1, <1>2, <1>3
  DEF EnrollmentInv, Enrollment!TypeOK, ReadsAgree, Enrollment!Idle, Enrollment!Unread

LEMMA EnrollmentStep == EnrollmentInv /\ [Enrollment!Next]_enrollmentVars => EnrollmentInv'
BY EnrollmentTyped, EnrollmentAgrees DEF EnrollmentInv
-----------------------------------------------------------------------------
(* The node.                                                               *)

NodeInv == CertificateInv /\ InstallInv /\ FrontendInv /\ EnrollmentInv

\* A component that is not explored keeps its invariant, because nothing of it changes.
LEMMA CertificateRests == CertificateInv /\ UNCHANGED vars => CertificateInv'
BY CertificateStep

LEMMA InstallRests == InstallInv /\ UNCHANGED installVars => InstallInv'
BY InstallStep

LEMMA FrontendRests == FrontendInv /\ UNCHANGED frontendVars => FrontendInv'
BY FrontendStep

LEMMA EnrollmentRests == EnrollmentInv /\ UNCHANGED enrollmentVars => EnrollmentInv'
BY EnrollmentStep

LEMMA NodeStep == NodeInv /\ [NodeNext]_nodeVars => NodeInv'
<1> SUFFICES ASSUME NodeInv, [NodeNext]_nodeVars
             PROVE  NodeInv'
  OBVIOUS
<1> USE DEF NodeInv
<1>1. CASE InCertificates(Next)
  BY <1>1, CertificateStep, InstallRests, FrontendRests, EnrollmentRests DEF InCertificates
<1>2. CASE InInstall(Install!Next)
  BY <1>2, InstallStep, CertificateRests, FrontendRests, EnrollmentRests DEF InInstall
<1>3. CASE InFrontend(Frontend!Next)
  BY <1>3, FrontendStep, CertificateRests, InstallRests, EnrollmentRests DEF InFrontend
<1>4. CASE InEnrollment(Enrollment!Next)
  BY <1>4, EnrollmentStep, CertificateRests, InstallRests, FrontendRests DEF InEnrollment
<1>5. CASE UNCHANGED nodeVars
  BY <1>5, CertificateRests, InstallRests, FrontendRests, EnrollmentRests DEF nodeVars
<1> QED
  BY <1>1, <1>2, <1>3, <1>4, <1>5 DEF NodeNext

\* The inductive invariant of the node.
THEOREM NodeInvariance == NodeSpec => []NodeInv
<1>1. NodeInit => NodeInv
  BY CertificateInit, InstallInit, FrontendInit, EnrollmentInit DEF NodeInit, NodeInv
<1> QED
  BY <1>1, NodeStep, PTL DEF NodeSpec

\* Every variable of the four components keeps its type.
THEOREM NodeTyped == NodeSpec => []NodeTypeOK
<1>1. NodeInv => NodeTypeOK
  BY DEF NodeInv, CertificateInv, InstallInv, InstallTyped, FrontendInv, EnrollmentInv, NodeTypeOK
<1> QED
  BY <1>1, NodeInvariance, PTL

\* Neither link of a service names a certificate that is not whole, what is reported as served is
\* served, and a frontend whose last command was not killed rests on material it has come up
\* with: at every instant, whatever fails and whatever is killed.
THEOREM CertificatesAreWhole == NodeSpec => []CertificatesWhole
<1>1. NodeInv => Frontend!ActiveWhole /\ Frontend!RestsOnProven
  BY DEF NodeInv, FrontendInv, FrontendLinked, FrontendProven, Frontend!ActiveWhole,
        Frontend!RestsOnProven
<1>2. NodeInv => CertificatesWhole
  BY <1>1 DEF NodeInv, CertificateInv, CertificatesWhole
<1> QED
  BY <1>2, NodeInvariance, PTL

\* However an installation is cut and repeated, the credentials on the disk open the database,
\* an application that configured itself has its identity, and nothing is served unprepared.
THEOREM InstallationIsSound == NodeSpec => []InstallSound
<1>1. NodeInv => Install!DataUsable
  <2>1. NodeInv => (database \in Secrets => disk["secrets"] = database)
    BY DEF NodeInv, InstallInv, InstallCredentials
  <2>2. NodeInv => (database \in Secrets /\ site.app = "matrix" => disk["configuration"] = database)
    BY SecretsAssumption DEF NodeInv, InstallInv, InstallCredentials, Committed
  <2>3. NodeInv => (bootstrap.used => bootstrap.config = "whole" \/ disk["identity"] = "whole")
    BY DEF NodeInv, InstallInv, InstallIdentified
  <2> QED
    BY <2>1, <2>2, <2>3 DEF Install!DataUsable
<1>2. NodeInv => Install!ServedPrepared
  BY DEF NodeInv, InstallInv, InstallPrepared, Install!ServedPrepared
<1> QED
  BY <1>1, <1>2, NodeInvariance, PTL DEF InstallSound

\* An activation that is undone leaves the link at the certificate it replaced.
THEOREM FailureReturns == NodeSpec => FailureKeepsOld
<1>1. NodeInv /\ [NodeNext]_nodeVars =>
          [claim' \in {"recovered", "unrecovered"} /\ claim = "none" => tls'.active = proc.old]_vars
  <2> SUFFICES ASSUME NodeInv, [NodeNext]_nodeVars, claim' \in {"recovered", "unrecovered"}, claim = "none"
               PROVE  tls'.active = proc.old
    BY DEF vars
  <2>1. [Next]_vars
    BY DEF NodeNext, nodeVars, InCertificates, InInstall, InFrontend, InEnrollment
  <2> QED
    BY <2>1, ActivationUndone DEF NodeInv
<1> QED
  BY <1>1, NodeInvariance, PTL DEF NodeSpec, FailureKeepsOld

\* What a command of the enrollment reports or does from its two reads is right for the client
\* as it is by then.
THEOREM EnrollmentIsAsAsked == NodeSpec => EnrolledAsAsked
<1>1. NodeInv /\ [NodeNext]_nodeVars => [Enrollment!RightlyTold]_enrollmentVars
  <2> SUFFICES ASSUME NodeInv, [NodeNext]_nodeVars
               PROVE  Enrollment!RightlyTold \/ UNCHANGED enrollmentVars
    OBVIOUS
  <2>1. [Enrollment!Next]_enrollmentVars
    BY DEF NodeNext, nodeVars, InCertificates, InInstall, InFrontend, InEnrollment
  <2> QED
    BY <2>1, EnrollmentTells DEF NodeInv, EnrollmentInv
<1> QED
  BY <1>1, NodeInvariance, PTL DEF NodeSpec, EnrolledAsAsked
=============================================================================
