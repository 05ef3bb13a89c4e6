----------------------- MODULE MCTransmissionControl -----------------------
(***************************************************************************)
(* One client and one server.  The client's task sends and disconnects;    *)
(* the server answers from its handler, and that alone.                    *)
(***************************************************************************)
EXTENDS TransmissionControlRefinement

CONSTANTS client, server

MCHosts == {client, server}
MCPayloads == {[text |-> 3, zeros |-> 0], [text |-> 3, zeros |-> 1]}
MCShortPayloads == {[text |-> 1, zeros |-> 0]}
MCHandlerActs ==
  (client :> {"accept"}) @@ (server :> {"accept", "refuse", "reply", "close"})
MCFewerActs ==
  (client :> {"accept"}) @@ (server :> {"accept", "refuse", "reply"})
MCAcceptOnly == (client :> {"accept"}) @@ (server :> {"accept"})
MCMaxSockets == (client :> 1) @@ (server :> 2)
MCMaxSends == (client :> 2) @@ (server :> 1)
=============================================================================
