--------------------------- MODULE RegisterManager ---------------------------
(* One RegisterManager and everything that reaches it: RTU frames, MBAP frames, *)
(* dashboard updates and simulation steps.  Each holds the manager's mutex for  *)
(* the whole of its access to the registers, so each is one step; that an RTU   *)
(* frame is compared with the meter's address in an earlier access of its own   *)
(* matters where handlers interleave, which is MeterBus.  A run-time panic in a *)
(* frame handler ends the process.                                              *)
EXTENDS Frames

CONSTANTS Requests,      \* the requests that may arrive
          Changes,       \* the dashboard updates that may arrive
          Deviations,    \* the noise a simulation step may draw
          Gains,         \* the energy one interval may consume
          EnergyBound    \* no interval takes a total beyond this bound

ASSUME RequestsAssumption   == Requests \subseteq Request
ASSUME ChangesAssumption    == \A c \in Changes : IsChange(c)
ASSUME SimulationAssumption ==
  Deviations \subseteq Deviation /\ Gains \subseteq Nat /\ EnergyBound \in Nat

VARIABLES st,      \* the meter's state
          wire,    \* the last exchange, as the packet log shows it
          up       \* the process is running

vars == <<st, wire, up>>

Transport == {"rtu", "mbap"}
Quiet     == [transport |-> "none", reply |-> NoReply]
Exchange  == [transport : Transport, q : Requests, reply : Reply]

TypeOK ==
  /\ st \in Meter
  /\ wire = Quiet \/ wire \in Exchange
  /\ up \in BOOLEAN

Init ==
  /\ st \in {NewMeter(1, FALSE), SolarMeter(1)}
  /\ wire = Quiet
  /\ up = TRUE

Answer(transport, q, reply) ==
  /\ wire' = [transport |-> transport, q |-> q, reply |-> reply]
  /\ st' = After(st, q, reply)
  /\ up' = (reply.kind # "panic")

RTUFrame(q) ==
  /\ up
  /\ q.size >= 0
  /\ Answer("rtu", q, ProcessRTUFrameSingle(st, q))

MBAPFrame(q) ==
  /\ up
  /\ Answer("mbap", q, ProcessMBAPFrame(st, q))

Control(c) ==
  /\ up
  /\ st' = ControlUpdate(st, c)
  /\ wire' = Quiet
  /\ UNCHANGED up

Tick(d, gain) ==
  /\ up
  /\ st.energy.total + gain <= EnergyBound
  /\ st' = StepMeter(st, d, gain)
  /\ wire' = Quiet
  /\ UNCHANGED up

Next ==
  \/ \E q \in Requests : RTUFrame(q) \/ MBAPFrame(q)
  \/ \E c \in Changes : Control(c)
  \/ \E d \in Deviations, gain \in Gains : Tick(d, gain)

Spec == Init /\ [][Next]_vars

-----------------------------------------------------------------------------

(* The total counter is the sum of the two directions, whatever is written,     *)
(* reset, exported or imported in between: stepMeter, the 0x10 reset, the       *)
(* dashboard's reset and the solar preset all keep the three in step.           *)
EnergyBalance == st.energy.total = st.energy.export + st.energy.import

(* The counters of the meter keep the promise of the ledger *)
Ledger == INSTANCE EnergyLedger WITH
            book    <- <<Account(st)>>,
            Opening <- {Account(NewMeter(1, FALSE)), Account(SolarMeter(1))},
            Amounts <- Gains

LedgerSpec == Ledger!Spec

(* The RTU and the MBAP decoder, written separately, give the same answer to    *)
(* the same intact request, as long as its byte count leaves the MBAP decoder's *)
(* data inside byte arithmetic.                                                 *)
TransportsAgree ==
  [][LET q == wire'.q
     IN (/\ wire' # Quiet
         /\ q.size >= 0
         /\ q.intact
         /\ Addresses(q, st.station)
         /\ ~SliceWraps(13, q.byteCount))
          => ProcessRTUFrameSingle(st, q) = ProcessMBAPFrame(st, q)]_vars

(* What the reader decodes from a reply is the meter's state: the sign of the   *)
(* power, both words of each counter, the address and the baud rate.  A voltage *)
(* that the noise has taken below zero does not fit its register.               *)
ShownState(s) ==
  [a \in ShownRegisters |->
     CASE a = RegTotalEnergyHigh  -> s.energy.total
       [] a = RegExportEnergyHigh -> s.energy.export
       [] a = RegImportEnergyHigh -> s.energy.import
       [] a = RegVoltage          -> s.reading.voltage
       [] a = RegCurrent          -> s.reading.current
       [] a = RegActivePower      -> s.reading.activePower
       [] a = RegReactivePower    -> s.reading.reactivePower
       [] a = RegPowerFactor      -> s.reading.powerFactor
       [] a = RegFrequency        -> s.reading.frequency
       [] a = RegAddressBaud      -> <<s.station, BaudRateFromCode(s.baud)>>
       [] a = RegRelay            -> s.relay]

Representable(r) ==
  /\ {r.voltage, r.current, r.reactivePower, r.powerFactor, r.frequency} \subseteq Word
  /\ -32768 <= r.activePower /\ r.activePower <= 32767

DecodedReadMatchesState ==
  (wire.reply.kind = "data" /\ Representable(st.reading)) =>
    LET shown == ParseDDS238Values(wire.q.start, wire.reply.data)
    IN \A a \in DOMAIN shown : shown[a] = ShownState(st)[a]

CounterRegisters == {0, 1, 8, 9, 10, 11}

(* Zeroes for both words of the total, from a write that starts there *)
ZeroesTotal(q) == q.start = 0 /\ q.count >= 2 /\ q.words[1] = 0 /\ q.words[2] = 0

(* An acknowledged write, also one whose range wraps, does to the registers     *)
(* what its words say and nothing else.  Zeroes for the total clear all six     *)
(* energy registers; any other words there (one zero only, a number, zeroes     *)
(* that reach them from another start) leave all six alone.  The relay register *)
(* reads back as written, the address register byte by byte, an illegal byte    *)
(* changing nothing.  No other register moves.                                  *)
ReadsBack(s, t, q) ==
  LET named   == {(q.start + i) % WordSize : i \in 0 .. q.count - 1}
      word(a) == q.words[((a - q.start) % WordSize) + 1]
      new     == Table(t)
      old     == Table(s)
  IN /\ \A a \in CounterRegisters : new[a] = IF ZeroesTotal(q) THEN 0 ELSE old[a]
     /\ \A a \in DOMAIN old \ CounterRegisters :
          new[a] # old[a] => a \in named \cap {RegAddressBaud, RegRelay}
     /\ RegRelay \in named => (new[RegRelay] = 1) = (word(RegRelay) # 0)
     /\ RegAddressBaud \in named =>
          LET high(w) == w \div 256
              low(w)  == w % 256
              given   == word(RegAddressBaud)
              before  == old[RegAddressBaud]
              after   == new[RegAddressBaud]
          IN /\ high(after) = IF high(given) \in 1 .. 247 THEN high(given) ELSE high(before)
             /\ low(after) = IF low(given) \in 1 .. 4 THEN low(given) ELSE low(before)

WriteReadsBack ==
  [][wire'.reply.kind = "ack" => ReadsBack(st, st', wire'.q)]_vars

(* A master that got no answer and repeats its write changes nothing more: an   *)
(* acknowledged write, applied once again, leaves the meter as it is.           *)
RetryIsHarmless ==
  wire.reply.kind = "ack" => After(st, wire.q, MBAPReply(st, wire.q)) = st

(* registers_test.go reads past the table and expects exception 0x02.  Every    *)
(* read whose last register lies past 0x001A is answered that way.              *)
OutOfRangeReadIsRejected ==
  (/\ wire # Quiet
   /\ wire.reply.kind # "none"
   /\ wire.q.fc = FuncReadHoldingRegisters
   /\ wire.q.size >= 4
   /\ wire.q.count \in 1 .. 125
   /\ wire.q.start + wire.q.count - 1 > MaxRegisterAddress)
     => wire.reply = Exception(ExpIllegalDataAddress)
=============================================================================
