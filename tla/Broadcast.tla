------------------------------ MODULE Broadcast ------------------------------
(***************************************************************************)
(* What a PodBus promises: values 0, 1, 2 ... are appended to a log, and   *)
(* each subscriber goes through it from where it joined, one value after   *)
(* the other, without repetition.  It may be made to skip, but only when   *)
(* it is more than a ring behind, to one of two places, and what it skips  *)
(* is counted.  With room for so many values the publisher waits instead,  *)
(* as far as it knows its subscribers: those made by PodBus::subscriber    *)
(* (Local) skip nothing, until it loses track of them.                     *)
(***************************************************************************)
EXTENDS Integers

CONSTANTS Subs, Local, RingSize,
          Lossy     \* no limit to how far the publisher is ahead

VARIABLES room,     \* how far it may be ahead of a Local subscriber
          log,      \* how many values there are
          sub       \* subscribers: where they began, are, and what they got

bvars == <<room, log, sub>>

Seen(in, from, pos, got, missed) ==
  [in |-> in, from |-> from, pos |-> pos, got |-> got, missed |-> missed]
Out == Seen(FALSE, 0, 0, {}, 0)

Init ==
  /\ room \in 1 .. RingSize \cup {Lossy}
  /\ log = 0
  /\ sub = [s \in Subs |-> Out]

Publish ==
  /\ room # Lossy => \A s \in Local : sub[s].in => log < sub[s].pos + room
  /\ log' = log + 1
  /\ UNCHANGED <<room, sub>>

\* From the next value on; from another process, perhaps from the one whose
\* publish has not returned.
Join(s) ==
  /\ ~sub[s].in
  /\ \E n \in 0 .. log :
       /\ n = log \/ (n + 1 = log /\ s \notin Local)
       /\ sub' = [sub EXCEPT ![s] = Seen(TRUE, n, n, {}, 0)]
  /\ UNCHANGED <<room, log>>

Receive(s) ==
  /\ sub[s].in /\ sub[s].pos < log
  /\ sub' = [sub EXCEPT ![s].pos = @ + 1, ![s].got = @ \cup {sub[s].pos}]
  /\ UNCHANGED <<room, log>>

\* The oldest value a ring holds, or the one before while a publish has not
\* returned.
Oldest(n) == n + RingSize = log \/ n + RingSize + 1 = log

\* The value that lies in the place of the one at `pos' is `n - 1': it is left
\* out too, with all before it, whether the ring still holds them or not.
PastUsurper(s, n) == n - 1 > sub[s].pos /\ (n - 1) % RingSize = sub[s].pos % RingSize

\* A subscriber that the ring has lapped skips.
Skip(s) ==
  /\ sub[s].in /\ sub[s].pos + RingSize < log
  /\ s \in Local => room = Lossy
  /\ \E n \in sub[s].pos + 1 .. log :
       /\ Oldest(n) \/ PastUsurper(s, n)
       /\ sub' = [sub EXCEPT ![s].pos = n, ![s].missed = @ + n - sub[s].pos]
  /\ UNCHANGED <<room, log>>

Leave(s) ==
  /\ sub[s].in
  /\ sub' = [sub EXCEPT ![s] = Out]
  /\ UNCHANGED <<room, log>>

\* The record of who is subscribed is no longer right.
LoseTrack ==
  /\ room' = Lossy
  /\ UNCHANGED <<log, sub>>

Next == Publish \/ LoseTrack \/ \E s \in Subs : Join(s) \/ Receive(s) \/ Skip(s) \/ Leave(s)

Spec == Init /\ [][Next]_bvars
=============================================================================
