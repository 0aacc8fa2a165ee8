----------------------------- MODULE PacketHubMC ------------------------------
(* Small instances of PacketHub: a request on the serial port and two queries   *)
(* from the page, shown to one browser; an MBAP request and a query, shown to   *)
(* two.                                                                         *)
EXTENDS PacketHub, TLC

CONSTANTS b1, b2, e1, e2, e3

MCKind == (e1 :> "serial") @@ (e2 :> "query") @@ (e3 :> "query")
MCKindOfTwo == (e1 :> "mbap") @@ (e2 :> "query")
=============================================================================
