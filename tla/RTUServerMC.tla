----------------------------- MODULE RTUServerMC ------------------------------
(* Small instances of RTUServer.                                                *)
EXTENDS RTUServer

Message(bytes, noise, pause) == [bytes |-> bytes, noise |-> noise, pause |-> pause]

(* Reads the voltage of meter 1 (README.md:183) and of meter 2 *)
ReadVoltage == <<1, 3, 0, 12, 0, 1, 68, 9>>
ReadAnother == AppendCRC(<<2, 3, 0, 12, 0, 1>>)

(* Whole, with a pause after too few bytes to be looked at, with two bits       *)
(* flipped; and a stray byte.                                                   *)
MCMessages ==
  {Message(ReadVoltage, {}, 8), Message(ReadVoltage, {}, 3),
   Message(ReadVoltage, {30, 33}, 8), Message(ReadAnother, {}, 8),
   Message(<<0>>, {}, 1)}

ASSUME MCMessagesAssumption == Messages = MCMessages => Recognisable
=============================================================================
