-------------------------------- MODULE Frames --------------------------------
(* Modbus requests and the two decoders that answer them: RTU frames            *)
(* (pkg/modbus/frame.go) and MBAP frames (pkg/modbus/server_tcp.go), each with  *)
(* its own length checks; and the frames the built-in reader makes              *)
(* (pkg/modbus/client.go).                                                      *)
(*                                                                              *)
(* A request is a record of what the decoders look at.  size is the number of   *)
(* bytes after the function code (and before an RTU checksum): len - 4 in RTU,  *)
(* len - 8 in MBAP, so that the length tests of both are about the same number; *)
(* -1 is a bare MBAP header.  intact says that the checksum matches (RTU) or    *)
(* that the declared length fits what was received (MBAP).  words are the       *)
(* byteCount data bytes of a write, two by two.                                 *)
EXTENDS Registers

FuncReadHoldingRegisters   == 3
FuncWriteSingleRegister    == 6
FuncWriteMultipleRegisters == 16

Request ==
  {q \in [unit : Byte, fc : Byte, start : Word, count : Word, byteCount : Byte,
          size : Int, words : Seq(Word), intact : BOOLEAN] :
     Len(q.words) = q.byteCount \div 2}

-----------------------------------------------------------------------------

ReadReply(s, q) ==
  IF q.size < 4 THEN Exception(ExpIllegalDataValue)
  ELSE ReadHoldingRegisters(s, q.start, q.count)

(* The data is sliced out between two byte indices; the upper one,              *)
(* first + byteCount, is computed in a byte.                                    *)
SliceWraps(first, byteCount) == first + byteCount > 255

RTUWriteReply(q) ==
  IF \/ q.size < 5
     \/ q.size < 5 + q.byteCount
     \/ q.byteCount # (2 * q.count) % WordSize
  THEN Exception(ExpIllegalDataValue)
  ELSE IF SliceWraps(7, q.byteCount) THEN Panic
  ELSE WriteMultipleRegisters(q.start, q.count, q.byteCount)

(* Variant: the byte count is not held against what was received *)
MBAPWriteReplyUnchecked(q) ==
  IF SliceWraps(13, q.byteCount) THEN Panic
  ELSE WriteMultipleRegisters(q.start, q.count, q.byteCount)

MBAPWriteReply(q) ==
  IF q.size < 5 \/ q.size < 5 + q.byteCount THEN Exception(ExpIllegalDataValue)
  ELSE IF SliceWraps(13, q.byteCount) THEN Panic
  ELSE WriteMultipleRegisters(q.start, q.count, q.byteCount)

(* ProcessRTUFrameSingle after the station and checksum tests *)
RTUReply(s, q) ==
  CASE q.fc = FuncReadHoldingRegisters   -> ReadReply(s, q)
    [] q.fc = FuncWriteMultipleRegisters -> RTUWriteReply(q)
    [] OTHER                             -> Exception(ExpIllegalFunction)

(* processMBAPFrame after the length test and the look-up of the unit *)
MBAPReply(s, q) ==
  CASE q.fc = FuncReadHoldingRegisters   -> ReadReply(s, q)
    [] q.fc = FuncWriteMultipleRegisters -> MBAPWriteReply(q)
    [] OTHER                             -> Exception(ExpIllegalFunction)

(* The station test of an RTU frame, against the meter's own address *)
Addresses(q, station) == q.unit = station \/ q.unit = 0

(* A bare MBAP header (size -1) has no function code to read *)
ProcessRTUFrameSingle(s, q) ==
  IF Addresses(q, s.station) /\ q.intact THEN RTUReply(s, q) ELSE NoReply

ProcessMBAPFrame(s, q) ==
  IF ~q.intact THEN NoReply
  ELSE IF q.size < 0 THEN Panic
  ELSE MBAPReply(s, q)

(* The meter once the request is answered *)
After(s, q, reply) ==
  IF reply.kind = "ack" THEN Written(s, q.start, q.words) ELSE s

-----------------------------------------------------------------------------
(* The built-in reader's frames *)

BuildReadHoldingRequest(unit, start, count) ==
  [unit |-> unit, fc |-> FuncReadHoldingRegisters, start |-> start, count |-> count,
   byteCount |-> 0, size |-> 4, words |-> << >>, intact |-> TRUE]

BuildWriteMultipleRequest(unit, start, words) ==
  [unit |-> unit, fc |-> FuncWriteMultipleRegisters, start |-> start,
   count |-> Len(words) % WordSize, byteCount |-> (2 * Len(words)) % 256,
   size |-> 5 + 2 * Len(words), words |-> words, intact |-> TRUE]

(* The reader's presets (handleQuery) *)
Preset(name, unit) ==
  CASE name = "voltage"       -> BuildReadHoldingRequest(unit, RegVoltage, 1)
    [] name = "current"       -> BuildReadHoldingRequest(unit, RegCurrent, 1)
    [] name = "power_factor"  -> BuildReadHoldingRequest(unit, RegPowerFactor, 1)
    [] name = "frequency"     -> BuildReadHoldingRequest(unit, RegFrequency, 1)
    [] name = "power_all"     -> BuildReadHoldingRequest(unit, RegVoltage, 6)
    [] name = "energy"        -> BuildReadHoldingRequest(unit, RegTotalEnergyHigh, 2)
    [] name = "export_energy" -> BuildReadHoldingRequest(unit, RegExportEnergyHigh, 2)
    [] name = "import_energy" -> BuildReadHoldingRequest(unit, RegImportEnergyHigh, 2)
    [] name = "energy_all"    -> BuildReadHoldingRequest(unit, RegTotalEnergyHigh, 12)
    [] name = "relay_on"      -> BuildWriteMultipleRequest(unit, RegRelay, <<1>>)
    [] name = "relay_off"     -> BuildWriteMultipleRequest(unit, RegRelay, <<0>>)
    [] name = "reset_energy"  -> BuildWriteMultipleRequest(unit, RegTotalEnergyHigh, <<0, 0>>)
    [] name = "address_baud"  -> BuildReadHoldingRequest(unit, RegAddressBaud, 1)

(* What the reader shows of the registers it has read (parseDDS238Values), by   *)
(* the address the value starts at.  An energy needs both its words.            *)
EnergyRegisters == {RegTotalEnergyHigh, RegExportEnergyHigh, RegImportEnergyHigh}
ShownRegisters  ==
  EnergyRegisters \cup (RegVoltage .. RegFrequency) \cup {RegAddressBaud, RegRelay}

BaudRateFromCode(code) ==
  CASE code = 2 -> 4800 [] code = 3 -> 2400 [] code = 4 -> 1200 [] OTHER -> 9600

(* Variant: power is read as unsigned *)
Unsigned(w) == w

Signed(w) == IF w > 32767 THEN w - WordSize ELSE w

Decode(a, w, next) ==
  CASE a \in EnergyRegisters -> WordSize * w + next
    [] a = RegActivePower    -> Signed(w)
    [] a = RegAddressBaud    -> <<w \div 256, BaudRateFromCode(w % 256)>>
    [] a = RegRelay          -> w # 0
    [] OTHER                 -> w

ParseDDS238Values(start, regs) ==
  LET last     == start + Len(regs) - 1
      shown    == {a \in ShownRegisters :
                     a \in start .. (IF a \in EnergyRegisters THEN last - 1 ELSE last)}
      at(a)    == regs[a - start + 1]
  IN [a \in shown |-> Decode(a, at(a), IF a < last THEN at(a + 1) ELSE 0)]
=============================================================================
