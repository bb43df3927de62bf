------------------------------- MODULE Channel -------------------------------
(***************************************************************************)
(* Channel: two regions, one per direction.  listen and connect each       *)
(* create their own region and register "/ch" in it (one step here: the    *)
(* table is new and its creator alone with it), then poll for the peer's   *)
(* region and topic until they can subscribe or their deadline passes.     *)
(* The files, locks and heartbeats are those of Lifecycle, in which other  *)
(* processes may use the same names.                                       *)
(*                                                                         *)
(* Messages are numbers; the ring between the two, which PubSubRing        *)
(* models, holds all MaxSend of them.                                      *)
(***************************************************************************)
EXTENDS Lifecycle

CONSTANTS Peer,     \* the other region of a channel
          MaxSend   \* bound: messages per region

ASSUME ChannelAssumption ==
  /\ Peer \in [Names -> Names]
  /\ \A n \in Names \ BusNames : Peer[n] \notin BusNames
  /\ MaxSend \in Nat

VARIABLES chan,     \* "off", "poll", or "connected"
          topics,   \* files with "/ch" registered
          sent,     \* TE_WRITE_SEQ of "/ch" in each file
          last,     \* last_seq of the endpoint's stream
          got       \* messages it has received

channelVars == <<chan, topics, sent, last, got>>
allVars == <<vars, channelVars>>

TypeOK ==
  /\ LifecycleTypeOK
  /\ chan \in [Procs -> {"off", "poll", "connected"}]
  /\ topics \in SUBSET Files
  /\ sent \in [Files -> 0 .. MaxSend]
  /\ last \in [Procs -> 0 .. MaxSend]
  /\ got \in [Procs -> SUBSET (1 .. MaxSend)]

Init ==
  /\ LifecycleInit
  /\ chan = [x \in Procs |-> "off"]
  /\ topics = {}
  /\ sent = [f \in Files |-> 0]
  /\ last = [x \in Procs |-> 0]
  /\ got = [x \in Procs |-> {}]

IsEndpoint(x) == job[x].what = "channel"

\* The steps of create, open and connect; a file made anew has no topics.
FileStep(x) ==
  /\ \/ PubStep(x)
     \/ AttachStep(x, IF IsEndpoint(x) THEN Peer[Name(x)] ELSE Name(x))
     \/ Detach(x)
  /\ topics' = topics \ {f \in Files : "len" \in wrote[f] /\ "len" \notin wrote'[f]}
  /\ sent' = [f \in Files |-> IF f \in topics' THEN sent[f] ELSE 0]
  /\ UNCHANGED <<chan, last, got>>

\* Mutant: the topic is left to be registered once the peer has been found.
RegisterCh_Later(x) ==
  /\ IsEndpoint(x) /\ pc[x] = "up" /\ chan[x] = "off"
  /\ chan' = [chan EXCEPT ![x] = "poll"]
  /\ apc' = [apc EXCEPT ![x] = "find"]
  /\ UNCHANGED <<jobs, files, history, pubVars, view, topics, sent, last, got>>

\* create has returned: register("/ch"), and wait_for_peer begins.
RegisterCh(x) ==
  /\ IsEndpoint(x) /\ pc[x] = "up" /\ chan[x] = "off"
  /\ topics' = topics \cup {map[x]}
  /\ chan' = [chan EXCEPT ![x] = "poll"]
  /\ apc' = [apc EXCEPT ![x] = "find"]
  /\ UNCHANGED <<jobs, files, history, pubVars, view, sent, last, got>>

\* Mutant: the stream starts where subscribe left it, at the latest message.
Subscribe_Latest(x) ==
  /\ chan[x] = "poll" /\ apc[x] = "ok" /\ view[x] \in topics
  /\ chan' = [chan EXCEPT ![x] = "connected"]
  /\ last' = [last EXCEPT ![x] = sent[view[x]]]
  /\ UNCHANGED <<vars, topics, sent, got>>

\* The peer's region is open and has "/ch": subscribe, from the first message.
Subscribe(x) ==
  /\ chan[x] = "poll" /\ apc[x] = "ok" /\ view[x] \in topics
  /\ chan' = [chan EXCEPT ![x] = "connected"]
  /\ last' = [last EXCEPT ![x] = 0]
  /\ UNCHANGED <<vars, topics, sent, got>>

\* connect or subscribe failed ...
AttemptFailed(x) ==
  /\ chan[x] = "poll"
  /\ apc[x] = "failed" \/ (apc[x] = "ok" /\ view[x] \notin topics)

\* ... before the deadline: sleep and try again;
PollAgain(x) ==
  /\ AttemptFailed(x)
  /\ apc' = [apc EXCEPT ![x] = "find"]
  /\ view' = [view EXCEPT ![x] = None]
  /\ UNCHANGED <<jobs, files, history, pubVars, channelVars>>

\* ... after it, or with a timeout of zero: return the error, which drops the
\* publisher.  A connected endpoint may be dropped at any time.
Close(x) ==
  /\ AttemptFailed(x) \/ chan[x] = "connected"
  /\ DropPublisher(x)
  /\ apc' = [apc EXCEPT ![x] = "none"]
  /\ view' = [view EXCEPT ![x] = None]
  /\ chan' = [chan EXCEPT ![x] = "off"]
  /\ last' = [last EXCEPT ![x] = 0]
  /\ got' = [got EXCEPT ![x] = {}]
  /\ UNCHANGED <<topics, sent>>

Send(x) ==
  /\ chan[x] = "connected" /\ pc[x] = "up"
  /\ "len" \in wrote[map[x]]
  /\ sent[map[x]] < MaxSend
  /\ sent' = [sent EXCEPT ![map[x]] = @ + 1]
  /\ UNCHANGED <<vars, chan, topics, last, got>>

\* Mutant: try_recv does not compare with the write sequence.
TryRecv_Blind(x) ==
  /\ chan[x] = "connected"
  /\ last' = [last EXCEPT ![x] = @ + 1]
  /\ got' = [got EXCEPT ![x] = @ \cup {last[x] + 1}]
  /\ UNCHANGED <<vars, chan, topics, sent>>

\* try_recv: the next message in the ring.
TryRecv(x) ==
  /\ chan[x] = "connected"
  /\ last[x] < sent[view[x]]
  /\ last' = [last EXCEPT ![x] = @ + 1]
  /\ got' = [got EXCEPT ![x] = @ \cup {last[x] + 1}]
  /\ UNCHANGED <<vars, chan, topics, sent>>

\* heartbeat; an endpoint that waits in wait_for_peer has no chance to call it.
Beat(x) ==
  /\ IsEndpoint(x) => chan[x] = "connected"
  /\ Heartbeat(x)
  /\ UNCHANGED channelVars

ProcessDies(x) ==
  /\ Die(x) \/ BusError(x)
  /\ chan' = [chan EXCEPT ![x] = "off"]
  /\ last' = [last EXCEPT ![x] = 0]
  /\ got' = [got EXCEPT ![x] = {}]
  /\ UNCHANGED <<topics, sent>>

Outside(x) ==
  /\ \/ \E j \in Jobs : OpenLockFile(x, j) \/ ConnectUnlocked(x, j) \/ NoLockFile(x, j)
     \/ Drop(x)
  /\ UNCHANGED channelVars

Stale(f) == GrowStale(f) /\ UNCHANGED channelVars

ChannelStep(x) == RegisterCh(x) \/ Subscribe(x) \/ PollAgain(x) \/ TryRecv(x)

Next ==
  \/ \E x \in Procs : \/ FileStep(x) \/ ChannelStep(x)
                      \/ Close(x) \/ Send(x) \/ Beat(x) \/ ProcessDies(x) \/ Outside(x)
  \/ \E f \in Files : Stale(f)

Spec == Init /\ [][Next]_allVars

\* A call that has begun runs on; polling and receiving endpoints keep at it.
\* Nobody has to call, send, beat or give up.
FairSpec == Spec /\ \A x \in Procs : WF_allVars(FileStep(x) \/ ChannelStep(x))

(***************************************************************************)
(* Properties                                                              *)
(***************************************************************************)
Polling(x) == pc[x] = "up" /\ chan[x] = "poll"
Connected(x) == chan[x] = "connected"

\* The regions of the peers that are up: listen or connect has registered "/ch"
\* and the channel has not been closed.
PeerRegions(x) ==
  {map[y] : y \in {y \in Procs : /\ IsEndpoint(y) /\ Name(y) = Peer[Name(x)]
                                 /\ pc[y] = "up" /\ chan[y] # "off"}}

\* x polls and its peer is up; the peer's heartbeat is fresh.
Reachable(x) == Polling(x) /\ PeerRegions(x) # {}
Fresh(x) == \A f \in PeerRegions(x) : beat[f] = "fresh"

\* Two endpoints that wait for each other meet, unless one gives up or dies, or
\* the peer's heartbeat grows stale first (wait_for_peer in both).
PeersMeet == \A x \in Procs : Reachable(x) ~> ~Reachable(x) \/ ~Fresh(x)

\* A message reaches the peer although it was sent before the peer subscribed
\* ("channel must not miss early messages"), unless one of the two ends first,
\* the sender's heartbeat is stale while the peer still polls, or the peer has
\* subscribed to the region an earlier owner of the name left behind.
SentIsReceived ==
  \A x \in Procs : \A m \in 1 .. MaxSend :
    Reachable(x) /\ (\E f \in PeerRegions(x) : sent[f] >= m) ~>
      \/ m \in got[x]
      \/ pc[x] # "up" \/ PeerRegions(x) = {}
      \/ Connected(x) /\ view[x] \notin PeerRegions(x)
      \/ Polling(x) /\ ~Fresh(x)

=============================================================================
