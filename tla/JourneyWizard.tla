--------------------------- MODULE JourneyWizard ---------------------------
(***************************************************************************)
(* The questions of a journey (scripts/product_journey.py): seven answers, *)
(* of which two are locations that have to differ.  A draft may be saved   *)
(* and resumed at any question.                                            *)
(*                                                                         *)
(* The values told apart are those that the machines of the plan depend    *)
(* on.  Writing the files is PreparedFolder's matter.                      *)
(***************************************************************************)
EXTENDS Naturals, Sequences

CONSTANTS Locations, None

VARIABLES
    given,      \* the answers
    question,   \* the question that is asked; one past the last is the review
    saved,      \* the draft on disk
    journey     \* "asking", or how the command ended

vars == <<given, question, saved, journey>>

FIELDS == <<"purpose", "institution_id", "services", "responsible_operator",
            "primary_location", "recovery_location", "network">>
Names == {FIELDS[i] : i \in DOMAIN FIELDS}

Values(f) ==
    CASE f = "purpose" -> {"personal", "institution", "regional"}
      [] f = "services" -> {"matrix", "nextcloud", "both"}
      [] f = "network" -> {"new", "existing"}
      [] f \in {"primary_location", "recovery_location"} -> Locations
      [] OTHER -> {f}
NoAnswers == [f \in Names |-> None]

Init == given = NoAnswers /\ question = 1 /\ saved = NoAnswers /\ journey = "asking"

\* validate_answers()
Valid(a, isDraft) ==
    /\ isDraft \/ \A f \in Names : a[f] # None
    /\ a["primary_location"] = None \/ a["primary_location"] # a["recovery_location"]

\* machines(): what has to be prepared where.
Selected(a) == IF a["services"] = "both" THEN {"matrix", "nextcloud"} ELSE {a["services"]}

\* A plausible mistake: the spare capacity stands beside what it replaces.
SpareBeside(a) == a["primary_location"]
Spare(a) == a["recovery_location"]

Machine(role, use, network, location) ==
    [role |-> role, use |-> use, network |-> network, location |-> location]

Machines(a) ==
    (IF a["network"] = "existing" THEN {}
     ELSE {Machine(role, "active", IF a["purpose"] = "regional" THEN "regional" ELSE "institutional",
                   None) : role \in {"controller", "relay"}})
    \union {Machine(s, "active", "institutional", a["primary_location"]) : s \in Selected(a)}
    \union {Machine(s, "replacement", "institutional", Spare(a)) : s \in Selected(a)}
    \union {Machine("applications", "backup", "institutional", a["recovery_location"])}
    \union IF a["purpose"] # "regional" THEN {}
           ELSE {Machine("gateway", "active", "regional", a["primary_location"]),
                 Machine("gateway", "backup", "regional", a["recovery_location"]),
                 Machine("gateway", "replacement", "regional", a["recovery_location"])}

Asking == journey = "asking" /\ question \in DOMAIN FIELDS
AtReview == journey = "asking" /\ question > Len(FIELDS)

\* A plausible mistake: the second location is not compared with the first.
TakesAny(f, v) == TRUE
Takes(f, v) == f = "recovery_location" => v # given["primary_location"]

Answer ==
    /\ Asking
    /\ LET f == FIELDS[question] IN
       \E v \in Values(f) : Takes(f, v) /\ given' = [given EXCEPT ![f] = v]
    /\ question' = question + 1
    /\ UNCHANGED <<saved, journey>>

Back ==
    /\ Asking /\ question > 1
    /\ question' = question - 1
    /\ UNCHANGED <<given, saved, journey>>

\* :save, at a question and at the review: what record() refuses ends the command.
SaveDraft ==
    /\ journey = "asking"
    /\ IF Valid(given, TRUE) THEN saved' = given /\ journey' = "draft"
       ELSE journey' = "refused" /\ UNCHANGED saved
    /\ UNCHANGED <<given, question>>

\* machines() checks the answers when the plan is shown and again when it is saved.
SavePlan ==
    /\ AtReview
    /\ journey' = IF Valid(given, FALSE) THEN "prepared" ELSE "refused"
    /\ UNCHANGED <<given, question, saved>>

Cancel ==
    /\ journey = "asking"
    /\ journey' = "cancelled"
    /\ UNCHANGED <<given, question, saved>>

\* rdc start, with a draft or without one
Start ==
    /\ journey # "asking"
    /\ given' \in {NoAnswers} \union (IF Valid(saved, TRUE) THEN {saved} ELSE {})
    /\ question' = 1 /\ journey' = "asking"
    /\ UNCHANGED saved

Next == Answer \/ Back \/ SaveDraft \/ SavePlan \/ Cancel \/ Start

Spec == Init /\ [][Next]_vars

-----------------------------------------------------------------------------

\* Once the review is reached the plan it shows is valid, going back and changing one
\* location leads past the question that compares it, and whatever runs at the primary
\* location has its replacement and its network's backup somewhere else.
ReviewValid ==
    AtReview =>
        /\ Valid(given, FALSE)
        /\ \A m \in Machines(given) :
               m.location = given["primary_location"] =>
                   \E r, b \in Machines(given) :
                       /\ r.role = m.role /\ r.use = "replacement" /\ b.use = "backup"
                       /\ {r.network, b.network} = {m.network}
                       /\ m.location \notin {r.location, b.location}

\* "Use :back, :save or :cancel" (product_journey.py:99): a draft can be saved at every
\* question.
SaveNeverRefused == journey # "refused"
=============================================================================
