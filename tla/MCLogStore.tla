---------------------------- MODULE MCLogStore -------------------------------
(***************************************************************************)
(* Model for LogStore: three messages, two of them in the same time       *)
(* window so that one bucket's batch and counter see two messages, and two *)
(* windows so that one bucket can exist while another is still missing;   *)
(* the code's nbTrials of 20, so that the LogStore may start after any     *)
(* number of failed connects, or never.                                    *)
(***************************************************************************)
EXTENDS LogStore, TLC

CONSTANTS m1, m2, m3, w1, w2

MCMsgs == {m1, m2, m3}
MCWindows == {w1, w2}
MCMsgWindow == (m1 :> w1) @@ (m2 :> w1) @@ (m3 :> w2)
MCNbTrials == 20

=============================================================================
