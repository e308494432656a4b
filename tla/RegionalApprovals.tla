-------------------------- MODULE RegionalApprovals --------------------------
(***************************************************************************)
(* The bilateral agreements of two institutions (scripts/regional_         *)
(* agreements.py, regional_workspace.py, regional_operations.py).          *)
(*                                                                         *)
(* Each institution has a private workspace with one identity, the peers   *)
(* it approved, the agreements it holds and the identifiers it revoked.    *)
(* Documents are signed files carried by hand: they arrive in any order,   *)
(* late, more than once or never, so the documents that exist are a set    *)
(* that only grows.  Signatures are abstracted: nobody makes a document in *)
(* another's name.  A workspace's commands exclude each other and its      *)
(* state is replaced in one rename, so a command is one step; what a crash *)
(* can separate from it is the export of the document it produced.         *)
(***************************************************************************)
EXTENDS Naturals

CONSTANTS
    Institutions,   \* the identities; a workspace keeps its own for good
    Ids,            \* agreement identifiers, each drawn once
    MaxTime         \* bound on the clocks

ASSUME MaxTimeAssumption == MaxTime \in Nat

VARIABLES
    ws,         \* the workspaces
    offers,     \* the signed offers that exist
    made,       \* the accepted agreements that were exported
    now         \* each institution's clock

approvalVars == <<ws, offers, made, now>>

Times == 0..MaxTime
Offers == [id : Ids, from : Institutions, to : Institutions, issued : Times, until : Times]
Agreements == [offer : Offers, at : Times]

ApprovalsTypeOK ==
    /\ ws \in [Institutions -> [peers : SUBSET Institutions, held : SUBSET Agreements,
                                revoked : SUBSET Ids]]
    /\ offers \subseteq Offers /\ made \subseteq Agreements /\ now \in [Institutions -> Times]

ApprovalsInit ==
    /\ ws = [i \in Institutions |-> [peers |-> {}, held |-> {}, revoked |-> {}]]
    /\ offers = {} /\ made = {} /\ now = [i \in Institutions |-> 0]

-----------------------------------------------------------------------------
(* Plausible mistakes; no specification uses them.                         *)

\* An identifier that is held has these very bytes.
AnyBytes(i, a) == TRUE
SameBytes(i, a) == \A b \in ws[i].held : b.offer.id = a.offer.id => b = a

-----------------------------------------------------------------------------

Parties(o) == {o.from, o.to}
Peer(i, o) == CHOOSE p \in Institutions : Parties(o) = {i, p}

\* A signed offer and its acceptance.
NewOffer(i, p, id, until) == [id |-> id, from |-> i, to |-> p, issued |-> now[i], until |-> until]
NewAgreement(o, t) == [offer |-> o, at |-> t]

\* _parties and the refusals of _store_agreement: i is a party, its peer is approved,
\* the agreement is not revoked here, and it is not another version of one held.
Storable(i, a) ==
    /\ i \in Parties(a.offer) /\ Peer(i, a.offer) \in ws[i].peers
    /\ a.offer.id \notin ws[i].revoked
    /\ SameBytes(i, a)

\* evaluate and status: what the workspace says of an agreement at this time.
State(i, a) ==
    CASE a.offer.id \in ws[i].revoked            -> "revoked"
      [] now[i] >= a.offer.until                    -> "expired"
      [] now[i] < a.at                              -> "not-yet-valid"
      [] Peer(i, a.offer) \notin ws[i].peers     -> "peer-not-approved"
      [] OTHER                                   -> "mutually-approved"

-----------------------------------------------------------------------------

\* The operator confirms a peer's fingerprint through an independent channel.
Approve(i, p) ==
    /\ p # i
    /\ ws' = [ws EXCEPT ![i].peers = @ \union {p}]
    /\ UNCHANGED <<offers, made, now>>

\* An offer is signed and exported; the workspace keeps nothing of it.
Offer(i, p, id, until) ==
    /\ p \in ws[i].peers
    /\ until > now[i] /\ \A o \in offers : o.id # id
    /\ offers' = offers \union {NewOffer(i, p, id, until)}
    /\ UNCHANGED <<ws, made, now>>

\* The recipient signs within the offer's lifetime and keeps the agreement, then
\* exports it; a cut, or a file that is there, loses the export.
Accept(i, o) ==
    /\ i = o.to /\ o.issued <= now[i] /\ now[i] < o.until
    /\ LET a == NewAgreement(o, now[i]) IN
       /\ Storable(i, a)
       /\ ws' = [ws EXCEPT ![i].held = @ \union {a}]
       /\ made' \in {made, made \union {a}}
    /\ UNCHANGED <<offers, now>>

\* A held agreement is exported again.
ExportAgreement(i, a) ==
    /\ a \in ws[i].held
    /\ made' = made \union {a}
    /\ UNCHANGED <<ws, offers, now>>

\* An import looks at no clock: an agreement may be late or already over.
ImportAgreement(i, a) ==
    /\ Storable(i, a)
    /\ ws' = [ws EXCEPT ![i].held = @ \union {a}]
    /\ UNCHANGED <<offers, made, now>>

\* Only an agreement that is held can be revoked; it stays in the workspace.
Revoke(i, id) ==
    /\ \E a \in ws[i].held : a.offer.id = id
    /\ ws' = [ws EXCEPT ![i].revoked = @ \union {id}]
    /\ UNCHANGED <<offers, made, now>>

\* The clocks of two institutions are not the same.
Tick(i) ==
    /\ now[i] < MaxTime
    /\ now' = [now EXCEPT ![i] = @ + 1]
    /\ UNCHANGED <<ws, offers, made>>

ApprovalsNext ==
    \/ \E i, p \in Institutions : Approve(i, p)
    \/ \E i, p \in Institutions, id \in Ids, until \in Times : Offer(i, p, id, until)
    \/ \E i \in Institutions, o \in offers : Accept(i, o)
    \/ \E i \in Institutions : \E a \in ws[i].held : ExportAgreement(i, a)
    \/ \E i \in Institutions, a \in made : ImportAgreement(i, a)
    \/ \E i \in Institutions, id \in Ids : Revoke(i, id)
    \/ \E i \in Institutions : Tick(i)

ApprovalsSpec == ApprovalsInit /\ [][ApprovalsNext]_approvalVars

-----------------------------------------------------------------------------

\* The two institutions never hold, and no file ever carries, two versions of one
\* agreement: an acceptance that is repeated after its export was lost, or after the
\* clock moved, does not make a second one.  What one shows as mutually approved, the
\* other accepted, or offered and has the very terms accepted.
SameTerms ==
    /\ \A a, b \in made \union UNION {ws[i].held : i \in Institutions} :
           a.offer.id = b.offer.id => a = b
    /\ \A i \in Institutions : \A a \in ws[i].held :
           State(i, a) = "mutually-approved" =>
               /\ a \in ws[a.offer.to].held /\ a.offer \in offers
               /\ i = a.offer.to => a.offer.from \in ws[i].peers
=============================================================================
