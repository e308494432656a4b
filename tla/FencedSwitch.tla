---------------------------- MODULE FencedSwitch ----------------------------
(***************************************************************************)
(* What a fenced replacement of data promises its clients, whatever the    *)
(* steps it takes.  An installation keeps its data in several directories  *)
(* (Paths).  A transaction may replace the original copy of all of them by *)
(* another one.  Clients see either nothing or exactly one copy; the       *)
(* replacement becomes the copy of record once, while nobody can see       *)
(* either; it never turns back inside that transaction; and a directory    *)
(* clients have written keeps what they wrote until a later transaction    *)
(* takes the result for its own original.                                  *)
(***************************************************************************)
CONSTANT Paths

VARIABLES
    busy,    \* a transaction is pending
    copy,    \* the copy of record: "original" or "replacement"
    shown,   \* the copies clients can reach: {} while fenced, else {copy}
    edits    \* the directories clients have written since the replacement

vars == <<busy, copy, shown, edits>>

Copies == {"original", "replacement"}

TypeOK ==
    /\ busy \in BOOLEAN
    /\ copy \in Copies
    /\ shown \in SUBSET Copies
    /\ edits \in SUBSET Paths

Init ==
    /\ busy = FALSE
    /\ copy = "original"
    /\ shown \in {{}, {"original"}}
    /\ edits = {}

\* A new transaction: whatever is there now is what it may have to give back.
Begin ==
    /\ ~busy
    /\ busy' = TRUE
    /\ copy' = "original"
    /\ edits' = {}
    /\ shown' = IF shown = {} THEN {} ELSE {"original"}

\* A power loss may bring a finished transaction back; it decides nothing anew.
Resume ==
    /\ ~busy
    /\ busy' = TRUE
    /\ shown' \in {shown, {}}
    /\ UNCHANGED <<copy, edits>>

End ==
    /\ busy
    /\ busy' = FALSE
    /\ UNCHANGED <<copy, shown, edits>>

\* The decision.  It is taken while fenced and is never taken back.
Switch ==
    /\ busy
    /\ shown = {}
    /\ copy = "original"
    /\ copy' = "replacement"
    /\ UNCHANGED <<busy, shown, edits>>

Hide ==
    /\ shown # {}
    /\ shown' = {}
    /\ UNCHANGED <<busy, copy, edits>>

Show ==
    /\ shown = {}
    /\ shown' = {copy}
    /\ UNCHANGED <<busy, copy, edits>>

Edit ==
    /\ shown = {"replacement"}
    /\ edits' \in SUBSET Paths
    /\ edits \subseteq edits'
    /\ UNCHANGED <<busy, copy, shown>>

Next == Begin \/ Resume \/ End \/ Switch \/ Hide \/ Show \/ Edit

Spec == Init /\ [][Next]_vars
=============================================================================
