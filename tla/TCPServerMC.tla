----------------------------- MODULE TCPServerMC ------------------------------
(* Small instances of TCPServer: two addresses, one meter, requests byte by     *)
(* byte.                                                                        *)
EXTENDS TCPServer

CONSTANTS a1, a2, c1

(* An MBAP request around a PDU *)
MBAP(transaction, unit, pdu) ==
  <<0, transaction, 0, 0, 0, Len(pdu) + 1, unit>> \o pdu

ReadVoltage == <<3, 0, 12, 0, 1>>
OpenRelay   == <<16, 0, 26, 0, 1, 2, 0, 0>>

(* A register read, by MBAP for the default meter and raw *)
MCRequests == {MBAP(1, 255, ReadVoltage), AppendCRC(<<1>> \o ReadVoltage)}

ASSUME MCRequestsAssumption ==
  Requests = MCRequests => Unambiguous

(* The table of commands "ready to send" over TCP to meter 1, README.md:183-189 *)
ReadmeCommands ==
  {<<1, 3, 0, 12, 0, 1, 68, 9>>, <<1, 3, 0, 13, 0, 1, 21, 201>>,
   <<1, 3, 0, 10, 0, 2, 228, 9>>, <<1, 3, 0, 8, 0, 2, 69, 201>>,
   <<1, 3, 0, 0, 0, 2, 196, 11>>,
   <<1, 16, 0, 26, 0, 1, 2, 0, 1, 103, 156>>, <<1, 16, 0, 26, 0, 1, 2, 0, 0, 166, 92>>}

(* A command of that table that is read whole and alone is answered.  It fails: *)
(* the read of the total energy has zeroes where MBAP has its protocol id, and  *)
(* the checksums printed for the relay commands are wrong.                      *)
ReadmeCommandsAreAnswered ==
  [][\A c \in Conns :
       (At(c, "serve") /\ conns[c].chunk \in ReadmeCommands /\ ~At(c, "serve")')
         => At(c, "write")']_vars
=============================================================================
