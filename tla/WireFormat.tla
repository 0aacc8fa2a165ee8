------------------------------ MODULE WireFormat ------------------------------
(* From received bytes to the requests of Frames: the CRC-16 of an RTU frame    *)
(* (pkg/modbus/crc.go) and the places where the two decoders look for the       *)
(* fields of a request (pkg/modbus/frame.go, pkg/modbus/server_tcp.go).         *)
(*                                                                              *)
(* Received data is a sequence of bytes; the CRC register is the set of its     *)
(* bits that are 1, so that an exclusive or is a symmetric difference.          *)
EXTENDS Frames

BitsOf(b) == {i \in 0 .. 7 : (b \div 2^i) % 2 = 1}
Xor(r, s) == (r \ s) \cup (s \ r)

(* 0xA001 *)
Polynomial == {0, 13, 15}

ShiftRight(r) == {i - 1 : i \in r \ {0}}

Register == SUBSET (0 .. 15)

(* One round of the inner loop of CalculateCRC16 *)
ShiftOut ==
  [r \in Register |-> IF 0 \in r THEN Xor(ShiftRight(r), Polynomial) ELSE ShiftRight(r)]

(* Variant: one shift too few *)
BitLoopSeven(mixed) ==
  LET after[i \in 0 .. 7] == IF i = 0 THEN mixed ELSE ShiftOut[after[i - 1]]
  IN after[7]

(* The inner loop, from a register with the data mixed in *)
BitLoop(mixed) ==
  LET after[i \in 0 .. 8] == IF i = 0 THEN mixed ELSE ShiftOut[after[i - 1]]
  IN after[8]

(* One round of the outer loop, for a byte b *)
MixIn(b) == [r \in Register |-> BitLoop(Xor(r, BitsOf(b)))]

CalculateCRC16(data) ==
  LET crc[k \in 0 .. Len(data)] == IF k = 0 THEN 0 .. 15 ELSE MixIn(data[k])[crc[k - 1]]
  IN crc[Len(data)]

(* The byte whose bits are those of r below 8 *)
ByteOf(r) ==
  LET bit(i) == IF i \in r THEN 2^i ELSE 0
  IN bit(0) + bit(1) + bit(2) + bit(3) + bit(4) + bit(5) + bit(6) + bit(7)

(* The register's two bytes, low byte first *)
AppendCRC(data) ==
  LET r == CalculateCRC16(data)
  IN data \o <<ByteOf(r), ByteOf({i - 8 : i \in r})>>

CheckCRC(frame) ==
  LET n == Len(frame)
  IN /\ n >= 3
     /\ CalculateCRC16(SubSeq(frame, 1, n - 2))
          = BitsOf(frame[n - 1]) \cup {8 + i : i \in BitsOf(frame[n])}

-----------------------------------------------------------------------------

(* The bytes that have arrived with the first n of some pieces, and with all    *)
Streams(pieces) ==
  LET stream[n \in 0 .. Len(pieces)] ==
        IF n = 0 THEN << >> ELSE stream[n - 1] \o pieces[n]
  IN stream

Stream(pieces) == Streams(pieces)[Len(pieces)]

(* A byte that was not received is not looked at either: the length tests of    *)
(* Frames come first.                                                           *)
ByteAt(b, i) == IF i \in 1 .. Len(b) THEN b[i] ELSE 0
BigEndian(b, i) == 256 * ByteAt(b, i) + ByteAt(b, i + 1)

(* The request whose function code is byte p + 1 *)
RequestAt(b, p, unit, size, intact) ==
  LET byteCount == ByteAt(b, p + 6)
  IN [unit |-> unit, fc |-> ByteAt(b, p + 1), start |-> BigEndian(b, p + 2),
      count |-> BigEndian(b, p + 4), byteCount |-> byteCount, size |-> size,
      words |-> [k \in 1 .. byteCount \div 2 |-> BigEndian(b, p + 5 + 2 * k)],
      intact |-> intact]

(* An RTU frame whose checksum has been checked, an MBAP frame whose declared   *)
(* length has not.                                                              *)
RTURequest(b)  == RequestAt(b, 1, b[1], Len(b) - 4, TRUE)
MBAPRequest(b) == RequestAt(b, 7, b[7], Len(b) - 8, BigEndian(b, 5) + 6 <= Len(b))

-----------------------------------------------------------------------------
(* The answer to received bytes when the meters in units are installed.  The    *)
(* state of a meter decides nothing but the data in the answer, so each stands  *)
(* here as it was made.                                                         *)

LowestUnit(units) == CHOOSE u \in units : \A other \in units : u <= other

(* The id of the meter that serves unit, or 0; fallback: the ids that mean the  *)
(* default meter                                                                *)
Serving(units, unit, fallback) ==
  IF unit \in units THEN unit ELSE IF unit \in fallback THEN LowestUnit(units) ELSE 0

(* ProcessRTUFrame *)
RTUAnswer(units, b) ==
  LET q  == RTURequest(b)
      id == Serving(units, q.unit, {0})
  IN IF Len(b) < 4 \/ ~CheckCRC(b) \/ id = 0 THEN NoReply
     ELSE ProcessRTUFrameSingle(NewMeter(id, FALSE), q)

(* processMBAPFrame: a bare header panics before the meter is looked up *)
MBAPAnswer(units, b) ==
  LET q  == MBAPRequest(b)
      id == Serving(units, q.unit, {0, 255})
  IN IF q.intact /\ q.size < 0 THEN Panic
     ELSE IF id = 0 THEN NoReply
     ELSE ProcessMBAPFrame(NewMeter(id, FALSE), q)

(* A connection takes what it read for MBAP by its length and two zero bytes *)
IsMBAP(b) == Len(b) >= 7 /\ BigEndian(b, 3) = 0
=============================================================================
