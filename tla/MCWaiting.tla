------------------------------ MODULE MCWaiting ------------------------------
(***************************************************************************)
(* Instances of Waiting for TLC.                                           *)
(***************************************************************************)
EXTENDS Waiting, TLC

CONSTANTS p, s, t

\* The receives of s sleep, those of t sleep or spin.
OneSpins == s :> {"adaptive"} @@ t :> {"adaptive", "spin"}
=============================================================================
