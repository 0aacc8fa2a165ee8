------------------------------ MODULE Registers ------------------------------
(* One simulated DDS238 meter as pure operators (pkg/meter/registers.go,        *)
(* pkg/meter/simulation.go): its state record, its 16-bit register table, the   *)
(* two register functions, the simulation step and the dashboard's update.      *)
(*                                                                              *)
(* "Variant:" marks a definition with a plausible mistake, kept next to the one  *)
(* it varies to see that a check notices it; no other definition uses it.       *)
(*                                                                              *)
(* Physical quantities are integers in the unit of their register: energy in    *)
(* 1/100 kWh, voltage in 1/10 V, current in 1/100 A, power in W, power factor   *)
(* in 1/1000, frequency in 1/100 Hz.  A meter's name is kept only as far as     *)
(* code branches on it: whether it is one of the two solar names.               *)
EXTENDS Integers, Sequences

WordSize == 65536
ByteSize == 256
Word     == 0 .. WordSize - 1
Byte     == 0 .. ByteSize - 1

ExpIllegalFunction    == 1
ExpIllegalDataAddress == 2
ExpIllegalDataValue   == 3

RegTotalEnergyHigh  == 0
RegTotalEnergyLow   == 1
RegExportEnergyHigh == 8
RegExportEnergyLow  == 9
RegImportEnergyHigh == 10
RegImportEnergyLow  == 11
RegVoltage          == 12
RegCurrent          == 13
RegActivePower      == 14
RegReactivePower    == 15
RegPowerFactor      == 16
RegFrequency        == 17
RegAddressBaud      == 21
RegRelay            == 26
MaxRegisterAddress  == 26

Energy  == [total : Nat, export : Nat, import : Nat]
Reading == [voltage : Int, current : Int, activePower : Int,
            reactivePower : Nat, powerFactor : Int, frequency : Int]
Target  == [voltage : Int, current : Int, powerFactor : Int, frequency : Int]

Meter == [solar : BOOLEAN, energy : Energy, reading : Reading, target : Target,
          station : Byte \ {0}, baud : 1 .. 4,
          relay : BOOLEAN, noise : BOOLEAN, dynamic : BOOLEAN]

Erased == [total |-> 0, export |-> 0, import |-> 0]

(* NewNamedRegisterManager: address 0 is taken as 1 *)
NewMeter(id, solar) ==
  [solar   |-> solar,
   energy  |-> [total |-> 12456, export |-> 0, import |-> 12456],
   reading |-> [voltage |-> 2304, current |-> 525, activePower |-> 1209,
                reactivePower |-> 115, powerFactor |-> 995, frequency |-> 5002],
   target  |-> [voltage |-> 2300, current |-> 525, powerFactor |-> 995,
                frequency |-> 5000],
   station |-> IF id = 0 THEN 1 ELSE id,
   baud    |-> 1,
   relay   |-> TRUE, noise |-> TRUE, dynamic |-> TRUE]

(* Variant: the preset starts from meter #1 *)
SolarMeterAtOne(id) == [NewMeter(1, TRUE) EXCEPT !.reading.activePower = -3480]

(* AddMeter's preset for a meter with a solar name *)
SolarMeter(id) ==
  [NewMeter(id, TRUE) EXCEPT
     !.energy  = [total |-> 46235, export |-> 45025, import |-> 1210],
     !.reading = [@ EXCEPT !.voltage = 2320, !.current = 1500, !.activePower = -3480],
     !.target  = [@ EXCEPT !.voltage = 2320, !.current = 1500]]

-----------------------------------------------------------------------------
(* The register table *)

High(n) == (n \div WordSize) % WordSize
Low(n)  == n % WordSize

Table(s) ==
  [a \in 0 .. MaxRegisterAddress |->
     CASE a = RegTotalEnergyHigh  -> High(s.energy.total)
       [] a = RegTotalEnergyLow   -> Low(s.energy.total)
       [] a = RegExportEnergyHigh -> High(s.energy.export)
       [] a = RegExportEnergyLow  -> Low(s.energy.export)
       [] a = RegImportEnergyHigh -> High(s.energy.import)
       [] a = RegImportEnergyLow  -> Low(s.energy.import)
       [] a = RegVoltage          -> Low(s.reading.voltage)
       [] a = RegCurrent          -> Low(s.reading.current)
       [] a = RegActivePower      -> Low(s.reading.activePower)
       [] a = RegReactivePower    -> Low(s.reading.reactivePower)
       [] a = RegPowerFactor      -> Low(s.reading.powerFactor)
       [] a = RegFrequency        -> Low(s.reading.frequency)
       [] a = RegAddressBaud      -> 256 * s.station + s.baud
       [] a = RegRelay            -> IF s.relay THEN 1 ELSE 0
       [] OTHER                   -> 0]

-----------------------------------------------------------------------------
(* What a request gets back.  "panic" is a Go run-time panic.                   *)

Reply == [kind : {"none", "data", "ack", "exception", "panic"},
          code : 0 .. 3, data : Seq(Word)]

NoReply         == [kind |-> "none",      code |-> 0,    data |-> << >>]
Ack             == [kind |-> "ack",       code |-> 0,    data |-> << >>]
Panic           == [kind |-> "panic",     code |-> 0,    data |-> << >>]
Exception(code) == [kind |-> "exception", code |-> code, data |-> << >>]
Data(regs)      == [kind |-> "data",      code |-> 0,    data |-> regs]

(* endAddr := startAddr + count - 1, in uint16 *)
EndAddr(start, count) == (start + count - 1) % WordSize

(* A range that wraps past 0xFFFF passes the end check; its first register is   *)
(* then no index of the table.                                                  *)
ReadHoldingRegisters(s, start, count) ==
  IF count \notin 1 .. 125 THEN Exception(ExpIllegalDataValue)
  ELSE IF EndAddr(start, count) > MaxRegisterAddress THEN Exception(ExpIllegalDataAddress)
  ELSE IF start > MaxRegisterAddress THEN Panic
  ELSE Data([i \in 1 .. count |-> Table(s)[start + i - 1]])

(* bytes is len(data) *)
WriteMultipleRegisters(start, count, bytes) ==
  IF count \notin 1 .. 123 \/ bytes # 2 * count THEN Exception(ExpIllegalDataValue)
  ELSE IF EndAddr(start, count) > MaxRegisterAddress THEN Exception(ExpIllegalDataAddress)
  ELSE Ack

(* The range of a write, which may wrap past 0xFFFF, reaches register a *)
Covers(start, words, a) == (a - start) % WordSize < Len(words)

(* Variant: the low word is not looked at *)
ErasesEnergyByHigh(start, words) ==
  start = RegTotalEnergyHigh /\ Len(words) >= 2 /\ words[1] = 0

ErasesEnergy(start, words) ==
  start = RegTotalEnergyHigh /\ Len(words) >= 2 /\ words[1] = 0 /\ words[2] = 0

(* The address and the baud code are each stored only when legal *)
LegalStation(a) == a \in 1 .. 247

(* Variant: one code too many *)
LegalBaudOffByOne(b) == b \in 1 .. 5

LegalBaud(b) == b \in 1 .. 4

(* Variant: a relay command toggles *)
WriteWordToggling(s, start, words, i) ==
  IF (start + i - 1) % WordSize = RegRelay THEN [s EXCEPT !.relay = ~@] ELSE s

(* One round of the loop of WriteMultipleRegisters: the i-th word, whose        *)
(* register's number is computed in uint16.                                     *)
WriteWord(s, start, words, i) ==
  LET addr == (start + i - 1) % WordSize
      val  == words[i]
  IN CASE addr \in {RegTotalEnergyHigh, RegTotalEnergyLow} ->
            [s EXCEPT !.energy = IF ErasesEnergy(start, words) THEN Erased ELSE @]
       [] addr = RegAddressBaud ->
            [s EXCEPT !.station = IF LegalStation(val \div 256) THEN val \div 256 ELSE @,
                      !.baud    = IF LegalBaud(val % 256) THEN val % 256 ELSE @]
       [] addr = RegRelay -> [s EXCEPT !.relay = (val # 0)]
       [] OTHER -> s

Written(s, start, words) ==
  LET after[i \in 0 .. Len(words)] ==
        IF i = 0 THEN s ELSE WriteWord(after[i - 1], start, words, i)
  IN after[Len(words)]

-----------------------------------------------------------------------------
(* The simulation step (stepMeter).  d is the noise drawn for this step and the *)
(* reactive power that follows from it, gain the energy of the interval.        *)

Deviation == [voltage : Int, current : Int, powerFactor : Int, frequency : Int,
              reactive : Nat]

Larger(x, y)     == IF x < y THEN y ELSE x
Smaller(x, y)    == IF x < y THEN x ELSE y
AbsoluteOf(x)    == IF x < 0 THEN -x ELSE x

(* math.Round(V * I * PF), from tenths of volts, hundredths of amperes and      *)
(* thousandths: rounded half away from zero, without leaving 32 bits.           *)
Watts(v, i, pf) ==
  LET va  == AbsoluteOf(v * i)
      abs == AbsoluteOf(pf)
      p   == ((va \div 1000) * abs + ((va % 1000) * abs + 500000) \div 1000) \div 1000
  IN IF (v * i < 0) # (pf < 0) THEN -p ELSE p

Measured(s, d) ==
  LET t     == s.target
      loud  == s.noise /\ t.current > 5
      v     == IF s.noise THEN t.voltage + d.voltage ELSE t.voltage
      i     == IF loud THEN Larger(0, t.current + d.current) ELSE t.current
      pf    == IF loud THEN Larger(100, Smaller(1000, t.powerFactor + d.powerFactor))
               ELSE t.powerFactor
      watts == Watts(v, i, pf)
  IN [voltage       |-> v,
      current       |-> i,
      powerFactor   |-> pf,
      frequency     |-> IF s.noise THEN t.frequency + d.frequency ELSE t.frequency,
      activePower   |-> IF s.solar THEN -watts ELSE watts,
      reactivePower |-> IF v * i > 1000 * AbsoluteOf(watts) THEN d.reactive ELSE 0]

(* Variant: exported energy is left out of the total *)
AccruedImportOnly(e, power, gain) ==
  IF power > 0 THEN [e EXCEPT !.import = @ + gain, !.total = @ + gain]
  ELSE IF power < 0 THEN [e EXCEPT !.export = @ + gain]
  ELSE e

(* Imported and exported energy both add to the total *)
Accrued(e, power, gain) ==
  IF power > 0 THEN [e EXCEPT !.import = @ + gain, !.total = @ + gain]
  ELSE IF power < 0 THEN [e EXCEPT !.export = @ + gain, !.total = @ + gain]
  ELSE e

Unloaded(r) == [r EXCEPT !.current = 0, !.activePower = 0, !.reactivePower = 0]

(* Variant: no early return for an open relay *)
StepMeterAnyRelay(s, d, gain) ==
  LET r == Measured(s, d)
  IN [s EXCEPT !.reading = r, !.energy = Accrued(@, r.activePower, gain)]

StepMeter(s, d, gain) ==
  IF ~s.relay THEN [s EXCEPT !.reading = Unloaded(@)]
  ELSE LET r == Measured(s, d)
       IN [s EXCEPT !.reading = r,
                    !.energy  = IF s.dynamic THEN Accrued(@, r.activePower, gain) ELSE @]

-----------------------------------------------------------------------------
(* The dashboard's update (handleControl): a change maps the fields the request *)
(* carries to their values; "reset" is there when reset_energy is true.         *)

IsChange(c) ==
  /\ \A f \in {"solar", "relay", "noise", "dynamic"} : f \in DOMAIN c => c[f] \in BOOLEAN
  /\ \A f \in {"voltage", "current", "powerFactor", "frequency"} :
       f \in DOMAIN c => c[f] \in Int
  /\ \A f \in {"station", "baud"} : f \in DOMAIN c => c[f] \in Byte

Given(c, f, old) == IF f \in DOMAIN c THEN c[f] ELSE old

ControlUpdate(s, c) ==
  [solar   |-> Given(c, "solar", s.solar),
   reading |-> s.reading,
   target  |-> [voltage     |-> Given(c, "voltage", s.target.voltage),
                current     |-> Given(c, "current", s.target.current),
                powerFactor |-> Given(c, "powerFactor", s.target.powerFactor),
                frequency   |-> Given(c, "frequency", s.target.frequency)],
   relay   |-> Given(c, "relay", s.relay),
   noise   |-> Given(c, "noise", s.noise),
   dynamic |-> Given(c, "dynamic", s.dynamic),
   energy  |-> IF "reset" \in DOMAIN c THEN Erased ELSE s.energy,
   station |-> IF "station" \in DOMAIN c /\ c["station"] > 0 THEN c["station"] ELSE s.station,
   baud    |-> IF "baud" \in DOMAIN c /\ LegalBaud(c["baud"]) THEN c["baud"] ELSE s.baud]

(* What a ledger of the counters (EnergyLedger) sees of a meter *)
Account(s) == [relay |-> s.relay, total |-> s.energy.total,
               export |-> s.energy.export, import |-> s.energy.import]
=============================================================================
