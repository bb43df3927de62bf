------------------------------ MODULE MCPodBus ------------------------------
(* Small instances of PodBus for TLC: l is a subscriber of the publisher's  *)
(* own process, r of another.                                               *)
EXTENDS PodBus

CONSTANTS l, r
=============================================================================
