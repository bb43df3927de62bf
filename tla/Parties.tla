------------------------------- MODULE Parties -------------------------------
(* Who publishes and looks for topics, and what topics are called. *)
CONSTANTS Procs,     \* publishers and subscribers
          Regions,   \* names of regions
          Uris,      \* URIs of topics
          NoUri      \* ""

ASSUME PartiesAssumption == NoUri \notin Uris
=============================================================================
