------------------------------- MODULE MCCall -------------------------------
(* Calls over both transports with direct, named and ignored candidates, with *)
(* and without the end of candidates; and, over a long time, two resolvers of *)
(* one name and one of a name that is refused.                                *)
EXTENDS Call

CONSTANTS n1, n2, n3, d1, i1, name, other

MCNameOf == [r \in Resolver |-> IF r = n3 THEN other ELSE name]

Scenario(s, t, messages) == [scope |-> s, transport |-> t, script |-> messages]
MCScenarios ==
  {Scenario("call", "websocket", <<Offer, n1, End>>),
   Scenario("call", "mqtt", <<Offer, d1, i1, End>>),
   Scenario("names", "mqtt", <<>>)}
============================================================================
