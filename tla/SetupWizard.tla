---------------------------- MODULE SetupWizard ----------------------------
(***************************************************************************)
(* The questions that prepare a network (scripts/setup_wizard.py).  Which  *)
(* questions are asked depends on the answers given so far; the operator   *)
(* goes back, changes an answer, saves a draft and resumes it later, and   *)
(* is only at the end shown a configuration.                               *)
(*                                                                         *)
(* Questions that are always asked together are one here.  Of a value only *)
(* matters whether it is acceptable, except for the four that decide what  *)
(* is asked.  An answer that is not acceptable is asked for again.         *)
(***************************************************************************)
EXTENDS Naturals, SequencesExt

CONSTANTS MaxRelays, MaxNodes, None

VARIABLES
    answers,    \* the answers, None where there is none
    index,      \* the question that is asked; one past the last is the review
    draft,      \* the saved draft, NoAnswers where there is none
    wizard      \* "asking", or how it ended

vars == <<answers, index, draft, wizard>>

F(name) == <<name, 0>>
Fields ==
    {F(n) : n \in {"purpose", "network", "servers", "tls_mode", "acme", "certificates",
                   "relay_count", "artifact", "node_count", "node"}}
    \union {<<n, i>> : n \in {"relay", "relay-certificate"}, i \in 2..MaxRelays}
    \union {<<"node", i>> : i \in 1..MaxNodes}

\* acceptable(): the values a question takes.
Acceptable(f) ==
    CASE f = F("purpose") -> {"join", "independent"}
      [] f = F("tls_mode") -> {"supplied", "managed-acme"}
      [] f = F("relay_count") -> 1..MaxRelays
      [] f = F("node_count") -> 1..MaxNodes
      [] OTHER -> {"given"}

NoAnswers == [f \in Fields |-> None]
Given(a) == {f \in Fields : a[f] # None}
Count(a, f, default) == IF a[f] = None THEN default ELSE a[f]

\* Each further relay, and with supplied certificates its own after it.
RelayQuestions(a) ==
    LET more == Count(a, F("relay_count"), 1) - 1 IN
    IF a[F("tls_mode")] = "managed-acme" THEN [i \in 1..more |-> <<"relay", i + 1>>]
    ELSE [i \in 1..(2 * more) |->
             <<IF i % 2 = 1 THEN "relay" ELSE "relay-certificate", (i + 3) \div 2>>]

Questions(a) ==
    <<F("purpose"), F("network")>> \o
    IF a[F("purpose")] # "independent" THEN <<F("node")>>
    ELSE <<F("servers"), F("tls_mode"),
           IF a[F("tls_mode")] = "managed-acme" THEN F("acme") ELSE F("certificates"),
           F("relay_count")>>
         \o RelayQuestions(a)
         \o <<F("artifact"), F("node_count")>>
         \o [i \in 1..Count(a, F("node_count"), 0) |-> <<"node", i>>]

Asked(a) == ToSet(Questions(a))

\* The checks of a draft before it is resumed.
Resumable(a) ==
    /\ Given(a) \subseteq Asked(a)
    /\ \A f \in Given(a) : a[f] \in Acceptable(f)

Init == answers = NoAnswers /\ index = 1 /\ draft = NoAnswers /\ wizard = "asking"

-----------------------------------------------------------------------------

Question == Questions(answers)[index]
AtReview == index > Len(Questions(answers))

\* The answers to questions that are no longer asked are dropped.
Permitted(a) == [f \in Fields |-> IF f \in Asked(a) THEN a[f] ELSE None]

\* A plausible mistake: only what changes the kind of setup drops answers.
RecordForgetful(a, f, v) ==
    LET b == [a EXCEPT ![f] = v] IN
    IF f \in {F("purpose"), F("tls_mode")} THEN Permitted(b) ELSE b

Record(a, f, v) ==
    LET b == [a EXCEPT ![f] = v] IN
    IF f \in {F("purpose"), F("tls_mode"), F("node_count"), F("relay_count")}
    THEN Permitted(b) ELSE b

Answer ==
    /\ wizard = "asking" /\ ~AtReview
    /\ \E v \in Acceptable(Question) : answers' = Record(answers, Question, v)
    /\ index' = index + 1
    /\ UNCHANGED <<draft, wizard>>

\* :back, at the review as well
Back ==
    /\ wizard = "asking" /\ index > 1
    /\ index' = IF AtReview THEN Len(Questions(answers)) ELSE index - 1
    /\ UNCHANGED <<answers, draft, wizard>>

Ended(how) == wizard' = how /\ answers' = NoAnswers /\ index' = 1

\* :save, or a review that finds prerequisites missing; an earlier draft is replaced only
\* with the operator's consent.
SaveDraft ==
    /\ wizard = "asking"
    /\ draft' = answers
    /\ Ended("draft")

\* :cancel, an interrupt, or a replacement that is declined
Cancel ==
    /\ wizard = "asking"
    /\ Ended("cancelled")
    /\ UNCHANGED draft

Prepare ==
    /\ wizard = "asking" /\ AtReview
    /\ Ended("prepared")
    /\ UNCHANGED draft

Start ==
    /\ wizard # "asking"
    /\ answers' = NoAnswers /\ index' = 1 /\ wizard' = "asking"
    /\ UNCHANGED draft

Resume ==
    /\ wizard # "asking" /\ draft # NoAnswers /\ Resumable(draft)
    /\ answers' = draft /\ index' = 1 /\ wizard' = "asking"
    /\ UNCHANGED draft

Next == Answer \/ Back \/ SaveDraft \/ Cancel \/ Prepare \/ Start \/ Resume

Spec == Init /\ [][Next]_vars

-----------------------------------------------------------------------------

\* However often the operator goes back and changes what decides the questions, a draft that
\* was saved is never refused when it is resumed, and a configuration is only made from a
\* complete set of answers that are all still asked for.
DraftsResume ==
    /\ Resumable(draft)
    /\ wizard = "asking" /\ AtReview => Given(answers) = Asked(answers)
=============================================================================
