------------------------- MODULE MCSystemRecovery -------------------------
(* Two brokers: b1 answers with a payload of two system messages, b2 with  *)
(* an empty one (RecoveryComplete then sets its timestamp to 0).           *)
EXTENDS SystemRecovery, TLC

CONSTANTS b1, b2

MCListed == {b1, b2}
MCItems == (b1 :> 2) @@ (b2 :> 0)
NoOutsiders == {}
=============================================================================
