------------------------------ MODULE MCChannel ------------------------------
(* Channel for TLC: three processes and what they try to do. *)
EXTENDS Channel, TLC

CONSTANTS a, b, c, srv, cli, bus

Do(what, name) == [what |-> what, name |-> name]

PeerOf == srv :> cli @@ cli :> srv @@ bus :> bus

\* Both ends of a channel; the server is started again if it dies or gives up.
Meeting == a :> <<Do("channel", srv), Do("channel", srv)>> @@ b :> <<Do("channel", cli)>>
           @@ c :> <<>>

\* Publishers of one region, and a subscriber.
Region == a :> <<Do("create", srv)>> @@ b :> <<Do("create", srv), Do("open", srv)>>
          @@ c :> <<Do("connect", srv), Do("create", srv)>>

\* Publishers of one bus, and a subscriber.
Bus == a :> <<Do("create", bus)>> @@ b :> <<Do("create", bus)>>
       @@ c :> <<Do("connect", bus), Do("create", bus)>>

AllScenarios == {Meeting, Region, Bus}

=============================================================================
