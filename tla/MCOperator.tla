----------------------------- MODULE MCOperator -----------------------------
(* Model checking of Operator: two institutions with two agreements, two    *)
(* connector documents, one guest, two locations, two commands that write   *)
(* one folder.                                                              *)
EXTENDS Operator, TLC

CONSTANTS left, right, one, two, older, newer, edge, firstUpload, secondUpload, here, there

MCInstitutions == {left, right}
MCIds == {one, two}
MCConfigs == {older, newer}
MCGuests == {edge}
MCVolumes == {firstUpload, secondUpload}

\* Both ends of every private block and their neighbours outside; a first number at the
\* bounds and next to them.
MCBases == {0, 2559, 2560, 2815, 2816, 44047, 44048, 44063, 44064, 49319, 49320, 49321}
MCFirstIds == {1, 99, 100, 201, 999999994, 999999995, 999999999}

\* Two snapshots of the application and one of the network alone.
MCRepository ==
    {[package |-> "matrix", run |-> 1], [package |-> "matrix", run |-> 2],
     [package |-> "none", run |-> 1]}

MCPlaces == {here, there}
MCPreparers == {"one", "two"}
MCContents == {"first", "second"}
MCOutputSets == {{"draft.yml"}, {"journey.json", "START-HERE.md"}}

\* The institutions are alike, and so are the two documents; nothing here is a
\* liveness property.
MCSymmetry == Permutations(MCInstitutions) \union Permutations(MCConfigs)
=============================================================================
