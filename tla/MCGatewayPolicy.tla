--------------------------- MODULE MCGatewayPolicy ---------------------------
(***************************************************************************)
(* Two partners.  The early agreement is signed before the clock starts    *)
(* and expires at 3; the late one is signed at 2 and expires at 4.         *)
(***************************************************************************)
EXTENDS GatewayProperties

CONSTANTS early, late

MCAgreements == {early, late}
MCIssued == [a \in MCAgreements |-> IF a = early THEN 0 ELSE 2]
MCAccepted == [a \in MCAgreements |-> IF a = early THEN 1 ELSE 2]
MCExpires == [a \in MCAgreements |-> IF a = early THEN 3 ELSE 4]
=============================================================================
