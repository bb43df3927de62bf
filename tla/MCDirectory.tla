----------------------------- MODULE MCDirectory -----------------------------
(* Directory for TLC: publishers p and t (of one process and one region),  *)
(* q (of another process and region), and s, who looks for topics.         *)
EXTENDS Directory, TLC

CONSTANTS p, q, t, s, r1, r2, u1, u2, u3

MCRegionOf == p :> r1 @@ q :> r2 @@ t :> r1 @@ s :> r1
MCPid == p :> 1 @@ q :> 2 @@ t :> 1 @@ s :> 3
MCHash == u1 :> 0 @@ u2 :> 0 @@ u3 :> 1 @@ NoUri :> 2

Reg(u) == [do |-> "register", uri |-> u]
Again(u) == [do |-> "refresh", uri |-> u]
DropIt == [do |-> "drop"]
FindAll == [do |-> "find", match |-> Uris \cup {NoUri}]
FindNew == [do |-> "since", match |-> Uris, time |-> 0]
Subscribe == [do |-> "subscribe"]

With(f, first, dp, dt, dq, ds) ==
  [file |-> f, first |-> first, does |-> p :> dp @@ t :> dt @@ q :> dq @@ s :> ds]
NewTables == r1 :> NoUri @@ r2 :> NoUri
OldTables == r1 :> u1 @@ r2 :> u2

\* Two publishers in one topic table; u3 is too long for the registry.
Racing == With("ready", NewTables, <<Reg(u1), Reg(u2), DropIt>>, <<Reg(u1), Reg(u3)>>, <<>>, <<>>)

\* A topic comes and goes while somebody looks for it.
Looking == With("ready", NewTables, <<Reg(u1), DropIt>>, <<>>, <<>>, <<FindAll, Subscribe>>)

\* Three in the registry at once, which has lost their topics.
Crowd == With("ready", OldTables, <<Again(u1)>>, <<>>, <<Again(u2)>>, <<FindAll>>)

\* One leaves, and another takes its place.
Leaving == With("ready", NewTables, <<Reg(u1), Reg(u2), DropIt>>, <<>>, <<Reg(u2), DropIt>>, <<>>)

\* No registry yet.
Fresh == With("absent", OldTables, <<Again(u1), Again(u1)>>, <<>>, <<>>, <<FindNew>>)

AllScripts == {Racing, Looking, Crowd, Leaving, Fresh}
LookingOnly == {Looking}
=============================================================================
