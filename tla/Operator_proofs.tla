-------------------------- MODULE Operator_proofs --------------------------
(***************************************************************************)
(* Proofs about what operators do by themselves: agreements between        *)
(* institutions, a service's connector, and the restoration of a lost      *)
(* node, for any number of institutions, agreements, documents and         *)
(* snapshots.                                                              *)
(***************************************************************************)
EXTENDS Operator, TLAPS

-----------------------------------------------------------------------------
(* Approvals, for any number of institutions and agreements and any clocks. *)

\* An identifier names one offer, made between two institutions.
OffersDistinct ==
    /\ \A o, p \in offers : o.id = p.id => o = p
    /\ \A o \in offers : o.from # o.to
    /\ \A i \in Institutions : i \notin ws[i].peers

\* Whatever is held anywhere, or exported, is of an offer that was made, and its
\* recipient holds it.
RecipientHolds ==
    /\ \A i \in Institutions : \A a \in ws[i].held : a.offer \in offers /\ a \in ws[a.offer.to].held
    /\ \A a \in made : a.offer \in offers /\ a \in ws[a.offer.to].held

\* One workspace has one version of an agreement.
HeldDistinct ==
    \A i \in Institutions : \A a, b \in ws[i].held : a.offer.id = b.offer.id => a = b

ApprovalsInv == ApprovalsTypeOK /\ OffersDistinct /\ RecipientHolds /\ HeldDistinct

\* The peer of a party is the other one.
LEMMA PeerOfRecipient ==
    ASSUME NEW o \in Offers, o.from # o.to
    PROVE  Peer(o.to, o) = o.from
<1>1. \E p \in Institutions : Parties(o) = {o.to, p}
  BY DEF Parties, Offers
<1>2. Parties(o) = {o.to, Peer(o.to, o)}
  BY <1>1 DEF Peer
<1> QED BY <1>2 DEF Parties

LEMMA ApprovalsInitInv == ApprovalsInit => ApprovalsInv
  BY MaxTimeAssumption
  DEF ApprovalsInit, ApprovalsInv, ApprovalsTypeOK, OffersDistinct, RecipientHolds, HeldDistinct,
     Times

\* A workspace that stores an agreement its recipient holds, or accepts now, keeps the
\* invariant.
LEMMA StoreStep ==
    ASSUME ApprovalsInv, NEW i \in Institutions, NEW a \in Agreements,
           Storable(i, a), a.offer \in offers,
           i = a.offer.to \/ a \in ws[a.offer.to].held,
           ws' = [ws EXCEPT ![i].held = @ \union {a}],
           made' \in {made, made \union {a}}, offers' = offers, now' = now
    PROVE  ApprovalsInv'
<1> USE DEF ApprovalsInv
<1>1. /\ ws' \in [Institutions -> [peers : SUBSET Institutions, held : SUBSET Agreements,
                                   revoked : SUBSET Ids]]
      /\ ws'[i].held = ws[i].held \union {a}
      /\ \A j \in Institutions : /\ ws'[j].peers = ws[j].peers
                                 /\ ws'[j].held = ws[j].held \/ j = i
  BY DEF ApprovalsTypeOK
<1>2. ApprovalsTypeOK'
  BY DEF ApprovalsTypeOK
<1>3. OffersDistinct'
  BY DEF OffersDistinct
<1>4. a.offer.to \in Institutions /\ a \in ws'[a.offer.to].held
  BY <1>1 DEF Agreements, Offers
<1>6. RecipientHolds'
  <2>1. ASSUME NEW b \in Agreements, b.offer \in offers, b \in ws[b.offer.to].held
        PROVE  b \in ws'[b.offer.to].held
    BY <2>1
  <2> QED BY <1>1, <1>4, <2>1 DEF RecipientHolds, ApprovalsTypeOK
<1>7. HeldDistinct'
  BY DEF HeldDistinct, Storable, SameBytes
<1> QED BY <1>2, <1>3, <1>6, <1>7

LEMMA ApprovalsStepInv == ApprovalsInv /\ [ApprovalsNext]_approvalVars => ApprovalsInv'
<1> SUFFICES ASSUME ApprovalsInv, [ApprovalsNext]_approvalVars PROVE ApprovalsInv'
  OBVIOUS
<1> USE DEF ApprovalsInv
<1>1. ASSUME NEW i \in Institutions, NEW p \in Institutions, Approve(i, p) PROVE ApprovalsInv'
  BY <1>1 DEF Approve, ApprovalsTypeOK, OffersDistinct, RecipientHolds, HeldDistinct
<1>2. ASSUME NEW i \in Institutions, NEW p \in Institutions, NEW id \in Ids, NEW until \in Times,
             Offer(i, p, id, until)
      PROVE  ApprovalsInv'
  <2>1. NewOffer(i, p, id, until) \in Offers /\ i # p
    BY <1>2 DEF NewOffer, Offers, Offer, ApprovalsTypeOK, OffersDistinct
  <2> QED
    BY <1>2, <2>1 DEF Offer, ApprovalsTypeOK, OffersDistinct, RecipientHolds, HeldDistinct, NewOffer
<1>3. ASSUME NEW i \in Institutions, NEW o \in offers, Accept(i, o) PROVE ApprovalsInv'
  <2>1. NewAgreement(o, now[i]) \in Agreements
    BY DEF NewAgreement, Agreements, ApprovalsTypeOK
  <2>2. NewAgreement(o, now[i]).offer = o
    BY DEF NewAgreement
  <2> QED BY <1>3, <2>1, <2>2, StoreStep DEF Accept
<1>4. ASSUME NEW i \in Institutions, NEW a \in ws[i].held, ExportAgreement(i, a) PROVE ApprovalsInv'
  BY <1>4 DEF ExportAgreement, ApprovalsTypeOK, OffersDistinct, RecipientHolds, HeldDistinct
<1>5. ASSUME NEW i \in Institutions, NEW a \in made, ImportAgreement(i, a) PROVE ApprovalsInv'
  BY <1>5, StoreStep DEF ImportAgreement, ApprovalsTypeOK, RecipientHolds
<1>6. ASSUME NEW i \in Institutions, NEW id \in Ids, Revoke(i, id) PROVE ApprovalsInv'
  BY <1>6 DEF Revoke, ApprovalsTypeOK, OffersDistinct, RecipientHolds, HeldDistinct
<1>7. ASSUME NEW i \in Institutions, Tick(i) PROVE ApprovalsInv'
  BY <1>7, MaxTimeAssumption
  DEF Tick, ApprovalsTypeOK, OffersDistinct, RecipientHolds, HeldDistinct, Times
<1>8. CASE UNCHANGED approvalVars
  BY <1>8 DEF approvalVars, ApprovalsTypeOK, OffersDistinct, RecipientHolds, HeldDistinct
<1> HIDE DEF ApprovalsInv
<1> QED BY <1>1, <1>2, <1>3, <1>4, <1>5, <1>6, <1>7, <1>8 DEF ApprovalsNext

THEOREM ApprovalsInvariant == ApprovalsSpec => []ApprovalsInv
<1> QED BY ApprovalsInitInv, ApprovalsStepInv, PTL DEF ApprovalsSpec

\* Two institutions never have two versions of one agreement, and what one of them shows
\* as mutually approved, the recipient accepted.
THEOREM TermsAgree == ApprovalsSpec => []SameTerms
<1>1. ASSUME ApprovalsInv PROVE SameTerms
  <2> USE <1>1 DEF ApprovalsInv
  <2>1. \A a \in made \union UNION {ws[i].held : i \in Institutions} :
            /\ a.offer \in offers /\ a.offer.to \in Institutions /\ a \in ws[a.offer.to].held
    BY DEF RecipientHolds, ApprovalsTypeOK, Offers
  <2>2. \A a, b \in made \union UNION {ws[i].held : i \in Institutions} :
            a.offer.id = b.offer.id => a = b
    BY <2>1 DEF OffersDistinct, HeldDistinct
  <2>3. ASSUME NEW i \in Institutions, NEW a \in ws[i].held, State(i, a) = "mutually-approved"
        PROVE  /\ a \in ws[a.offer.to].held /\ a.offer \in offers
               /\ i = a.offer.to => a.offer.from \in ws[i].peers
    <3>1. a.offer \in offers /\ a.offer \in Offers /\ a \in ws[a.offer.to].held
      BY DEF RecipientHolds, ApprovalsTypeOK
    <3>2. Peer(i, a.offer) \in ws[i].peers
      BY <2>3 DEF State
    <3> QED BY <3>1, <3>2, PeerOfRecipient DEF OffersDistinct
  <2> QED BY <2>2, <2>3 DEF SameTerms
<1> QED BY <1>1, ApprovalsInvariant, PTL

\* The workspaces, the documents and the clocks have their shape.
THEOREM ApprovalsTyped == ApprovalsSpec => []ApprovalsTypeOK
<1>1. ApprovalsInv => ApprovalsTypeOK
  BY DEF ApprovalsInv
<1> QED BY <1>1, ApprovalsInvariant, PTL

-----------------------------------------------------------------------------
(* A service's connector, for any number of documents.                      *)

\* Where a command stands says what it has recorded.
Recorded ==
    /\ transition.pc \notin {"idle", "suspend", "inner", "clear"} => transition.config \in Configs
    /\ transition.pc # "idle" => ~marker
    /\ outcome # "none" => transition.pc = "idle" /\ ~marker
    /\ transition.pc \in {"disabled", "stop", "write", "validate", "lift", "failDisabled", "failRestart"} =>
           link.pending = transition.config
    /\ transition.pc \in {"enable", "restart"} => link.pending = NoDocument
    /\ transition.pc \in {"stop", "write", "validate", "lift", "enable", "failRestart", "inner", "clear"} =>
           link.disabled
    /\ transition.pc = "restart" => ~link.disabled

\* Before the suspension is lifted, the configuration is the validated one.
Vetted ==
    /\ transition.pc \in {"lift", "enable", "restart"} =>
           link.conf = transition.config /\ transition.config \in checked
    /\ transition.pc = "validate" /\ package = "matrix" => link.conf = transition.config
    /\ transition.pc = "write" /\ package = "nextcloud" => transition.config \in checked
    /\ ~link.disabled /\ link.conf # NoDocument => link.conf \in checked

\* Replaced data is behind the suspension, or behind the marker with nothing started.
Aged == stale => link.disabled \/ (marker /\ \A u \in Units : units[u] = "down")

\* What the reports rest on.
Reported ==
    /\ transition.pc = "clear" => \A u \in Units : units[u] \notin Configs
    /\ outcome = "configured" => link.conf # NoDocument
    /\ OutcomeTrue

LinkInv == LinkTypeOK /\ Recorded /\ Vetted /\ Aged /\ LoadedWasReviewed /\ Reported

\* What a starting unit loads is a configuration that nothing holds back, or none.
LEMMA LoadedCases ==
    ASSUME NEW l, NEW m \in BOOLEAN, l.conf \in Configs \union {NoDocument}
    PROVE  /\ Loaded(l, m) \in Configs \union {"inner"}
           /\ Loaded(l, m) \in Configs =>
                  /\ Loaded(l, m) = l.conf /\ l.conf # NoDocument
                  /\ ~l.disabled /\ l.pending = NoDocument /\ ~m
  BY NoConfigAssumption DEF Loaded

LEMMA LinkInitInv == LinkInit => LinkInv
<1> SUFFICES ASSUME LinkInit PROVE LinkInv
  OBVIOUS
<1>1. /\ transition.pc = "idle" /\ transition.config = NoDocument /\ outcome = "none" /\ ~marker /\ ~stale
      /\ ~link.disabled /\ link.conf = NoDocument /\ link.pending = NoDocument
      /\ \A u \in Units : units[u] = "inner"
  BY DEF LinkInit, NoTransition
<1>2. LinkTypeOK
  BY DEF LinkInit, LinkTypeOK, NoTransition, Steps, Loads, Outcomes
<1> QED
  BY <1>1, <1>2, NoConfigAssumption
  DEF LinkInv, Recorded, Vetted, Aged, Reported, LoadedWasReviewed, OutcomeTrue

\* The steps that write the records and leave the units alone.
LEMMA RecordSteps ==
    ASSUME LinkInv, UNCHANGED package,
           \/ \E c \in Configs : AttachConnector(c)
           \/ Disable \/ WritePending \/ WriteDisabled \/ WriteConfiguration \/ Validate
           \/ LiftPending \/ LiftDisabled \/ FailPending \/ FailDisabled \/ Suspend
           \/ ClearPending \/ Kill \/ Unfence
    PROVE  LinkInv'
<1> USE NoConfigAssumption
    DEF LinkInv, LinkTypeOK, Recorded, Vetted, Aged, LoadedWasReviewed, Reported, OutcomeTrue,
        Steps, Outcomes, At, Continue, Report, NoTransition
<1>0. CASE \E c \in Configs : AttachConnector(c)
  <2> PICK c \in Configs : AttachConnector(c)
    BY <1>0
  <2> QED BY DEF AttachConnector
<1>1. CASE Disable
  BY <1>1 DEF Disable
<1>2. CASE WritePending
  BY <1>2 DEF WritePending
<1>3. CASE WriteDisabled
  BY <1>3 DEF WriteDisabled
<1>4. CASE WriteConfiguration
  BY <1>4 DEF WriteConfiguration, Order
<1>5. CASE Validate
  BY <1>5 DEF Validate, Order
<1>6. CASE LiftPending
  BY <1>6 DEF LiftPending
<1>7. CASE LiftDisabled
  BY <1>7 DEF LiftDisabled
<1>8. CASE FailPending
  BY <1>8 DEF FailPending, AfterFailure
<1>9. CASE FailDisabled
  BY <1>9 DEF FailDisabled
<1>10. CASE Suspend
  BY <1>10 DEF Suspend
<1>11. CASE ClearPending
  BY <1>11 DEF ClearPending
<1>12. CASE Kill
  BY <1>12 DEF Kill
<1>13. CASE Unfence
  BY <1>13 DEF Unfence, Units
<1> HIDE DEF LinkInv, LinkTypeOK, Recorded, Vetted, Aged, LoadedWasReviewed, Reported, OutcomeTrue,
        Steps, Outcomes, At, Continue, Report, NoTransition
<1> QED BY <1>0, <1>1, <1>2, <1>3, <1>4, <1>5, <1>6, <1>7, <1>8, <1>9, <1>10, <1>11, <1>12, <1>13

\* The steps that stop or start units.
LEMMA UnitSteps ==
    ASSUME LinkInv, UNCHANGED package,
           \/ StopUnits \/ RestartAttached \/ AttachFails \/ FailRestart \/ RestartDisabled
           \/ DisableFails \/ Fence \/ ReplaceData \/ Reboot
           \/ \E u \in Units : UnitStarts(u)
    PROVE  LinkInv'
<1> USE DEF LinkInv, At, Continue, Report, NoTransition
<1>a. /\ units \in [Units -> Loads] /\ marker \in BOOLEAN
      /\ link.conf \in Configs \union {NoDocument} /\ link'.conf = link.conf /\ link'.pending = link.pending
  BY DEF LinkTypeOK, StopUnits, RestartAttached, Restart, AttachFails, FailRestart, RestartDisabled,
        DisableFails, Fence, ReplaceData, Reboot, UnitStarts
<1>b. \A u \in Units : \/ units'[u] = units[u] \/ units'[u] = "down"
                       \/ units'[u] = Loaded(link', marker) /\ marker' = marker
  BY <1>a
  DEF StopUnits, RestartAttached, Restart, AttachFails, FailRestart, RestartDisabled, DisableFails,
     Fence, ReplaceData, Reboot, UnitStarts, Disturbed
<1>c. /\ Loaded(link', marker) \in Configs \union {"inner"}
      /\ Loaded(link', marker) \in Configs =>
             /\ Loaded(link', marker) = link.conf /\ link.conf # NoDocument
             /\ ~link'.disabled /\ link.pending = NoDocument /\ ~marker
  BY <1>a, LoadedCases
<1>d. /\ checked' = checked
      /\ link' = link \/ link'.disabled = (link.disabled \/ marker)
  BY DEF StopUnits, RestartAttached, Restart, AttachFails, FailRestart, RestartDisabled,
        DisableFails, Fence, ReplaceData, Reboot, UnitStarts, Suspended, LinkTypeOK
<1>1. LinkTypeOK'
  <2>1. units' \in [Units -> Loads]
    BY <1>a, <1>c
    DEF StopUnits, RestartAttached, Restart, AttachFails, FailRestart, RestartDisabled,
       DisableFails, Fence, ReplaceData, Reboot, UnitStarts, Disturbed, Loads
  <2>2. transition' \in [pc : Steps, config : Configs \union {NoDocument}] /\ outcome' \in Outcomes
    <3>1. CASE StopUnits
      BY <3>1 DEF StopUnits, LinkTypeOK, Steps, Order
    <3>2. CASE ~StopUnits
      BY <3>2
      DEF LinkTypeOK, RestartAttached, Restart, AttachFails, FailRestart, RestartDisabled,
         DisableFails, Fence, ReplaceData, Reboot, UnitStarts, Steps, Outcomes
    <3> QED BY <3>1, <3>2
  <2>3. link' \in [pending : Configs \union {NoDocument}, disabled : BOOLEAN, conf : Configs \union {NoDocument}]
    BY DEF LinkTypeOK, StopUnits, RestartAttached, Restart, AttachFails, FailRestart,
          RestartDisabled, DisableFails, Fence, ReplaceData, Reboot, UnitStarts, Suspended
  <2>4. marker' \in BOOLEAN /\ stale' \in BOOLEAN
    BY DEF LinkTypeOK, StopUnits, RestartAttached, Restart, AttachFails, FailRestart,
          RestartDisabled, DisableFails, Fence, ReplaceData, Reboot, UnitStarts
  <2> QED
    BY <2>1, <2>2, <2>3, <2>4, <1>d DEF LinkTypeOK
<1>2. Recorded'
  BY DEF Recorded, LinkTypeOK, StopUnits, RestartAttached, Restart, AttachFails, FailRestart,
        RestartDisabled, DisableFails, Fence, ReplaceData, Reboot, UnitStarts, Suspended, Order
<1>3. Vetted'
  BY DEF Vetted, StopUnits, RestartAttached, Restart, AttachFails, FailRestart, RestartDisabled,
        DisableFails, Fence, ReplaceData, Reboot, UnitStarts, Suspended, Order, LinkTypeOK
<1>4. Aged'
  <2>1. CASE \E u \in Units : UnitStarts(u)
    BY <2>1 DEF Aged, UnitStarts, LinkTypeOK, Suspended
  <2>2. CASE ~\E u \in Units : UnitStarts(u)
    BY <2>2
    DEF Aged, Recorded, StopUnits, RestartAttached, Restart, AttachFails, FailRestart,
       RestartDisabled, DisableFails, Fence, ReplaceData, Reboot
  <2> QED BY <2>1, <2>2
<1>5. LoadedWasReviewed'
  BY <1>b, <1>c, <1>d, NoConfigAssumption
  DEF LoadedWasReviewed, Vetted, Aged, StopUnits, RestartAttached, Restart, AttachFails,
     FailRestart, RestartDisabled, DisableFails, Fence, ReplaceData, Reboot, UnitStarts
<1>6. Reported'
  BY <1>d, NoConfigAssumption
  DEF Reported, OutcomeTrue, Recorded, Vetted, LinkTypeOK, StopUnits, RestartAttached, Restart,
     AttachFails, FailRestart, RestartDisabled, DisableFails, Fence, ReplaceData, Reboot,
     UnitStarts, Loaded
<1> QED BY <1>1, <1>2, <1>3, <1>4, <1>5, <1>6

LEMMA LinkStepInv == LinkInv /\ [LinkNext]_linkVars => LinkInv'
<1> SUFFICES ASSUME LinkInv, [LinkNext]_linkVars PROVE LinkInv'
  OBVIOUS
<1>1. CASE LinkNext
  <2> QED
    BY <1>1, RecordSteps, UnitSteps DEF LinkNext, LinkStep
<1>2. CASE UNCHANGED linkVars
  BY <1>2
  DEF linkVars, LinkInv, LinkTypeOK, Recorded, Vetted, Aged, LoadedWasReviewed, Reported,
     OutcomeTrue
<1> QED BY <1>1, <1>2

THEOREM LinkInvariant == LinkSpec => []LinkInv
<1> QED BY LinkInitInv, LinkStepInv, PTL DEF LinkSpec

\* A unit never speaks to partners by a configuration that validation did not pass, nor
\* over data that was replaced after the last review.
THEOREM ConnectorReviewed == LinkSpec => []LoadedWasReviewed
<1>1. LinkInv => LoadedWasReviewed
  BY DEF LinkInv
<1> QED BY <1>1, LinkInvariant, PTL

\* What attach and disable report of the connector is so.
THEOREM ReportsTrue == LinkSpec => []OutcomeTrue
<1>1. LinkInv => OutcomeTrue
  BY DEF LinkInv, Reported
<1> QED BY <1>1, LinkInvariant, PTL

\* The connector's records have their shape.
THEOREM LinkTyped == LinkSpec => []LinkTypeOK
<1>1. LinkInv => LinkTypeOK
  BY DEF LinkInv
<1> QED BY <1>1, LinkInvariant, PTL

-----------------------------------------------------------------------------
(* The restoration of a lost node, for any snapshots at the backup target.  *)

\* Where a session stands tells of the marker, which is of the scope the session read.
SessionMarker ==
    /\ restoring.phase = "none" <=> restoring = NoMarker
    /\ session.at = "moving" => restoring.phase = "open" /\ restoring.scope = session.seen
    /\ session.at \in {"finishing", "clearing"} => restoring.phase = "committed"
    /\ session.at \in {"finishing", "clearing"} => restoring.scope = session.seen
    /\ session.at = "clearing" => evidence.of = restoring.of /\ evidence.scope = restoring.scope

\* The network alone is restored only while no application is installed.
Alone ==
    /\ restoring.alone => ~installed
    /\ session.at = "confirm" /\ session.command = "bootstrap-apply" => ~installed

\* The scope of the backups only grows: once the application's data was restored, nothing that
\* still runs has read the smaller one.
ScopeGrows ==
    /\ session.seen = "full" \/ restoring.scope = "full" => conf = "full"
    /\ session.at # "idle" => session.seen # "none"
    /\ data # NoSnapshot =>
          /\ conf = "full" /\ identity = data
          /\ session.seen \in {"none", "full"} /\ restoring.scope \in {"none", "full"}

\* What the marker or else the evidence says of the last restoration is in place.
Placed(s, scope) == identity = s /\ (scope = "full" => data = s)
Restored ==
    /\ restoring.phase = "committed" => Placed(restoring.of, restoring.scope)
    /\ evidence # NoEvidence /\ restoring.phase # "committed" => Placed(evidence.of, evidence.scope)

ReplacementInv == ReplacementTypeOK /\ SessionMarker /\ Alone /\ ScopeGrows /\ Restored

LEMMA ReplacementInitInv == ReplacementInit => ReplacementInv
<1> SUFFICES ASSUME ReplacementInit PROVE ReplacementInv
  OBVIOUS
<1> USE DEF ReplacementInit
<1>1. ReplacementTypeOK
  BY DEF ReplacementTypeOK, Snapshots, Scopes, SessionSteps, Folders, NoSession, NoMarker,
        NoEvidence
<1>2. SessionMarker
  BY DEF SessionMarker, NoSession, NoMarker
<1>3. Alone /\ ScopeGrows
  BY DEF Alone, ScopeGrows, NoSession, NoMarker
<1>4. Restored
  BY DEF Restored, NoMarker
<1> QED
  BY <1>1, <1>2, <1>3, <1>4 DEF ReplacementInv

LEMMA ReplacementStepInv == ReplacementInv /\ [ReplacementNext]_replacementVars => ReplacementInv'
<1> SUFFICES ASSUME ReplacementInv, [ReplacementNext]_replacementVars PROVE ReplacementInv'
  OBVIOUS
<1> USE DEF ReplacementInv, ReplacementTypeOK, SessionMarker, Alone, ScopeGrows, Restored, Placed
<1> USE DEF Scopes, SessionSteps, Pending, Turn
<1>1. CASE ImportAccess
  BY <1>1 DEF ImportAccess
<1>2. CASE InstallApplication
  BY <1>2 DEF InstallApplication, LockFree, NoMarker
<1>3. CASE IncludeServices
  BY <1>3 DEF IncludeServices
<1>4. ASSUME NEW c \in Commands, NEW s \in Repository, Ask(c, s) PROVE ReplacementInv'
  BY <1>4 DEF Ask, Snapshots
<1>5. CASE Lock
  BY <1>5 DEF Lock
<1>6. CASE End \/ CutSession
  BY <1>6 DEF End, CutSession, NoSession, Snapshots
<1>7. CASE StageBootstrap \/ StageRestore
  BY <1>7 DEF StageBootstrap, StageRestore, Folders
<1>8. CASE Derive \/ ValidateSnapshot
  BY <1>8 DEF Derive, ValidateSnapshot, NoSession, Snapshots, Folders
<1>9. CASE ReviewBootstrap
  BY <1>9 DEF ReviewBootstrap, FreshPeer
<1>10. CASE PlanRestore
  BY <1>10 DEF PlanRestore
<1>11. CASE Apply
  BY <1>11 DEF Apply
<1>12. CASE Commit
  BY <1>12 DEF Commit, NoMarker
<1>13. CASE RollBack
  BY <1>13 DEF RollBack, NoMarker, NoSession, Snapshots
<1>14. CASE RecordEvidence
  BY <1>14 DEF RecordEvidence
<1>15. CASE ClearMarker
  BY <1>15 DEF ClearMarker, NoMarker, NoSession, Snapshots
<1>16. CASE Recover
  BY <1>16 DEF Recover
<1>17. CASE UNCHANGED replacementVars
  BY <1>17 DEF replacementVars
<1> QED
  BY <1>1, <1>2, <1>3, <1>4, <1>5, <1>6, <1>7, <1>8, <1>9, <1>10, <1>11, <1>12, <1>13, <1>14, <1>15,
    <1>16, <1>17
  DEF ReplacementNext

\* Every variable has its type, always.
THEOREM ReplacementTyped == ReplacementSpec => []ReplacementTypeOK
<1> QED BY ReplacementInitInv, ReplacementStepInv, PTL DEF ReplacementSpec, ReplacementInv

\* A network identity is put in place only without an application, data and identity are of one
\* snapshot, and "service-verified" is true of both.
THEOREM ReplacementsSound == ReplacementSpec => []ReplacementSound
<1>1. ReplacementInv => ReplacementSound
  BY DEF ReplacementInv, Alone, ScopeGrows, Restored, Placed, SessionMarker, ReplacementSound,
        BootstrapAlone, RestoredTogether, EvidenceTrue, Latest, Pending
<1> QED BY <1>1, ReplacementInitInv, ReplacementStepInv, PTL DEF ReplacementSpec

-----------------------------------------------------------------------------
(* The composition.                                                        *)

\* Beside the others each of these behaves as it would alone, so that what is proved of its
\* own specification holds of everything that operators do.
THEOREM TogetherAsAlone ==
    OperatorSpec => ApprovalsSpec /\ LinkSpec /\ Spec /\ PlanSpec /\ ReplacementSpec
<1>1. OperatorInit => ApprovalsInit /\ LinkInit /\ Init /\ PlanInit /\ ReplacementInit
  BY DEF OperatorInit
<1>2. [OperatorNext]_operatorVars => [ApprovalsNext]_approvalVars
  BY DEF OperatorNext, operatorVars
<1>3. [OperatorNext]_operatorVars => [LinkNext]_linkVars
  BY DEF OperatorNext, operatorVars
<1>4. [OperatorNext]_operatorVars => [Next]_vars
  BY DEF OperatorNext, operatorVars
<1>5. [OperatorNext]_operatorVars => [PlanNext]_plan
  BY DEF OperatorNext, operatorVars
<1>6. [OperatorNext]_operatorVars => [ReplacementNext]_replacementVars
  BY DEF OperatorNext, operatorVars
<1> QED BY <1>1, <1>2, <1>3, <1>4, <1>5, <1>6, PTL
        DEF OperatorSpec, ApprovalsSpec, LinkSpec, Spec, PlanSpec, ReplacementSpec
=============================================================================
