------------------------- MODULE RegisterManagerProofs -------------------------
(* What holds of one RegisterManager for every set of requests, dashboard       *)
(* updates, noise and energy amounts.                                           *)
EXTENDS RegisterManager, FramesProofs

LEMMA QuietReply == Quiet.reply.kind = "none"
  BY DEF Quiet, NoReply

LEMMA AnswerTyped ==
  ASSUME st \in Meter, NEW transport \in Transport, NEW q \in Requests, NEW reply \in Reply,
         Answer(transport, q, reply)
  PROVE  TypeOK'
<1>1. st' \in Meter
  BY AfterType, RequestsAssumption DEF Answer
<1>2. wire' \in Exchange
  BY DEF Answer, Exchange
<1>3. up' \in BOOLEAN
  BY DEF Answer
<1> QED
  BY <1>1, <1>2, <1>3 DEF TypeOK

(* The meter, the last exchange and the process flag have their types: no       *)
(* request and no update, however malformed, takes a field of MeterState out of *)
(* its range.                                                                   *)
THEOREM TypeCorrect == Spec => []TypeOK
<1>1. Init => TypeOK
  <2>1. 1 \in Byte
    BY Sizes, ByteMember
  <2> QED
    BY <2>1, NewMeterType, SolarMeterType DEF Init, TypeOK
<1>2. TypeOK /\ [Next]_vars => TypeOK'
  <2> SUFFICES ASSUME TypeOK, [Next]_vars
               PROVE  TypeOK'
    OBVIOUS
  <2>0. st \in Meter
    BY DEF TypeOK
  <2>1. ASSUME NEW q \in Requests, RTUFrame(q)
        PROVE  TypeOK'
    <3>1. ProcessRTUFrameSingle(st, q) \in Reply
      BY <2>0, RequestsAssumption, ReplyType
    <3> QED
      BY <2>0, <2>1, <3>1, AnswerTyped DEF RTUFrame, Transport
  <2>2. ASSUME NEW q \in Requests, MBAPFrame(q)
        PROVE  TypeOK'
    <3>1. ProcessMBAPFrame(st, q) \in Reply
      BY <2>0, RequestsAssumption, ReplyType
    <3> QED
      BY <2>0, <2>2, <3>1, AnswerTyped DEF MBAPFrame, Transport
  <2>3. ASSUME NEW c \in Changes, Control(c)
        PROVE  TypeOK'
    BY <2>0, <2>3, ChangesAssumption, ControlUpdateType DEF Control, TypeOK
  <2>4. ASSUME NEW d \in Deviations, NEW gain \in Gains, Tick(d, gain)
        PROVE  TypeOK'
    BY <2>0, <2>4, SimulationAssumption, StepMeterType DEF Tick, TypeOK
  <2>5. CASE UNCHANGED vars
    BY <2>5 DEF vars, TypeOK
  <2> QED
    BY <2>1, <2>2, <2>3, <2>4, <2>5 DEF Next
<1> QED
  BY <1>1, <1>2, PTL DEF Spec

-----------------------------------------------------------------------------

LEMMA ErasedBalanced == Balanced(Erased)
  BY DEF Balanced, Erased

LEMMA InstalledBalanced ==
  \A id, solar : Balanced(NewMeter(id, solar).energy) /\ Balanced(SolarMeter(id).energy)
<1> SUFFICES ASSUME NEW id, NEW solar
             PROVE  /\ Balanced(NewMeter(id, solar).energy)
                    /\ Balanced(SolarMeter(id).energy)
  OBVIOUS
<1>1. NewMeter(id, solar).energy = [total |-> 12456, export |-> 0, import |-> 12456]
  BY DEF NewMeter
<1>2. SolarMeter(id).energy = [total |-> 46235, export |-> 45025, import |-> 1210]
  BY DEF SolarMeter, NewMeter
<1> QED
  BY <1>1, <1>2 DEF Balanced

LEMMA StepMeterBalanced ==
  ASSUME NEW s \in Meter, NEW d \in Deviation, NEW gain \in Nat, Balanced(s.energy)
  PROVE  Balanced(StepMeter(s, d, gain).energy)
<1>1. s.energy \in Energy /\ Measured(s, d).activePower \in Int
  BY MeasuredType DEF Meter, Reading
<1> QED
  BY <1>1, StepMeterFields, AccruedBalanced

(* The total stays the sum of the imported and the exported energy, through     *)
(* every reset, write, update and simulation step.                              *)
THEOREM EnergyIsBalanced == Spec => []EnergyBalance
<1>1. Init => EnergyBalance
  BY InstalledBalanced DEF Init, EnergyBalance, Balanced
<1>2. TypeOK /\ EnergyBalance /\ [Next]_vars => EnergyBalance'
  <2> SUFFICES ASSUME TypeOK, EnergyBalance, [Next]_vars
               PROVE  EnergyBalance'
    OBVIOUS
  <2>0. st \in Meter /\ Balanced(st.energy)
    BY DEF TypeOK, EnergyBalance, Balanced
  <2>1. ASSUME NEW q \in Requests, RTUFrame(q) \/ MBAPFrame(q)
        PROVE  Balanced(st'.energy)
    BY <2>0, <2>1, RequestsAssumption, AfterEnergy, ErasedBalanced
       DEF RTUFrame, MBAPFrame, Answer
  <2>2. ASSUME NEW c \in Changes, Control(c)
        PROVE  Balanced(st'.energy)
    BY <2>0, <2>2, ControlEnergy, ErasedBalanced DEF Control
  <2>3. ASSUME NEW d \in Deviations, NEW gain \in Gains, Tick(d, gain)
        PROVE  Balanced(st'.energy)
    BY <2>0, <2>3, SimulationAssumption, StepMeterBalanced DEF Tick
  <2>4. ASSUME UNCHANGED vars
        PROVE  Balanced(st'.energy)
    BY <2>0, <2>4 DEF vars
  <2>5. Balanced(st'.energy)
    BY <2>1, <2>2, <2>3, <2>4 DEF Next
  <2> QED
    BY <2>5 DEF EnergyBalance, Balanced
<1> QED
  BY <1>1, <1>2, TypeCorrect, PTL DEF Spec

-----------------------------------------------------------------------------

(* The strengthening: after an acknowledged write the meter is a fixed point of *)
(* that write.                                                                  *)
WriteIsSettled ==
  wire.reply.kind = "ack" => Written(st, wire.q.start, wire.q.words) = st

LEMMA AnswerSettles ==
  ASSUME st \in Meter, NEW transport, NEW q \in Request, NEW reply,
         Answer(transport, q, reply)
  PROVE  WriteIsSettled'
  BY RequestIsWrite, WrittenIdempotent DEF Answer, After, WriteIsSettled

(* An acknowledged write may be repeated by a master that lost the answer: the  *)
(* second one changes nothing.                                                  *)
THEOREM RetriesAreHarmless == Spec => []RetryIsHarmless
<1>1. Init => WriteIsSettled
  BY QuietReply DEF Init, WriteIsSettled
<1>2. TypeOK /\ WriteIsSettled /\ [Next]_vars => WriteIsSettled'
  <2> SUFFICES ASSUME TypeOK, WriteIsSettled, [Next]_vars
               PROVE  WriteIsSettled'
    OBVIOUS
  <2>0. st \in Meter
    BY DEF TypeOK
  <2>1. ASSUME NEW q \in Requests, RTUFrame(q) \/ MBAPFrame(q)
        PROVE  WriteIsSettled'
    BY <2>0, <2>1, RequestsAssumption, AnswerSettles DEF RTUFrame, MBAPFrame
  <2>2. ASSUME wire' = Quiet
        PROVE  WriteIsSettled'
    BY <2>2, QuietReply DEF WriteIsSettled
  <2>3. CASE UNCHANGED vars
    BY <2>3 DEF vars, WriteIsSettled
  <2> QED
    BY <2>1, <2>2, <2>3 DEF Next, Control, Tick
<1>3. WriteIsSettled => RetryIsHarmless
  BY DEF WriteIsSettled, RetryIsHarmless, After
<1> QED
  BY <1>1, <1>2, <1>3, TypeCorrect, PTL DEF Spec

-----------------------------------------------------------------------------

(* The RTU and the MBAP decoder answer alike, for every request that both can   *)
(* decode and every state of the meter.                                         *)
THEOREM TransportsAlwaysAgree == Spec => TransportsAgree
<1>1. TypeOK /\ [Next]_vars =>
        [LET q == wire'.q
         IN (/\ wire' # Quiet
             /\ q.size >= 0
             /\ q.intact
             /\ Addresses(q, st.station)
             /\ ~SliceWraps(13, q.byteCount))
              => ProcessRTUFrameSingle(st, q) = ProcessMBAPFrame(st, q)]_vars
  <2> SUFFICES ASSUME TypeOK, Next, wire' # Quiet,
                      wire'.q.size >= 0, wire'.q.intact, Addresses(wire'.q, st.station),
                      ~SliceWraps(13, wire'.q.byteCount)
               PROVE  ProcessRTUFrameSingle(st, wire'.q) = ProcessMBAPFrame(st, wire'.q)
    OBVIOUS
  <2>1. st \in Meter
    BY DEF TypeOK
  <2>2. wire'.q \in Request
    BY RequestsAssumption DEF Next, RTUFrame, MBAPFrame, Answer, Control, Tick
  <2> QED
    BY <2>1, <2>2, TransportsGiveOneReply
<1> QED
  BY <1>1, TypeCorrect, PTL DEF Spec, TransportsAgree

-----------------------------------------------------------------------------
(* The counters implement EnergyLedger: a request or an update is a Command or  *)
(* a stuttering step of the ledger, a simulation step an Accrue or a stutter.   *)

LEMMA CommandStep ==
  ASSUME NEW s \in Meter, NEW t \in Meter, t.energy \in {s.energy, Erased}
  PROVE  \/ <<Account(t)>> = [<<Account(s)>> EXCEPT ![1].relay = t.relay]
         \/ <<Account(t)>> = [<<Account(s)>> EXCEPT ![1] = ErasedAccount(t.relay)]
  BY AccountCommanded

(* An accrual of the account, on the ledger's book of that one account *)
ImportBooked(a, gain) == [<<a>> EXCEPT ![1].import = @ + gain, ![1].total = @ + gain]
ExportBooked(a, gain) == [<<a>> EXCEPT ![1].export = @ + gain, ![1].total = @ + gain]

LEMMA BookBooks ==
  ASSUME NEW a, NEW gain
  PROVE  /\ <<Imported(a, gain)>> = ImportBooked(a, gain)
         /\ <<Exported(a, gain)>> = ExportBooked(a, gain)
  BY DEF Imported, Exported, ImportBooked, ExportBooked

THEOREM CountersImplementLedger == Spec => LedgerSpec
<1>1. Init => Ledger!Init
  <2> DEFINE a == Account(st)
             opening == {Account(NewMeter(1, FALSE)), Account(SolarMeter(1))}
  <2> SUFFICES ASSUME Init
               PROVE  <<a>> \in Seq(opening)
    BY DEF Ledger!Init
  <2>1. a \in opening
    BY DEF Init
  <2> HIDE DEF a, opening
  <2> QED
    BY <2>1
<1>2. TypeOK /\ TypeOK' /\ [Next]_vars => [Ledger!Next]_<<Account(st)>>
  <2> SUFFICES ASSUME TypeOK, TypeOK', [Next]_vars
               PROVE  Ledger!Next \/ <<Account(st')>> = <<Account(st)>>
    OBVIOUS
  <2>0. st \in Meter /\ st' \in Meter /\ st'.relay \in BOOLEAN
    BY DEF TypeOK, Meter
  <2>1. ASSUME st'.energy \in {st.energy, Erased}
        PROVE  Ledger!Next
    <3>1. Ledger!Command(1)
      BY <2>0, <2>1, CommandStep DEF Ledger!Command, ErasedAccount
    <3> QED
      BY <3>1 DEF Ledger!Next
  <2>2. ASSUME NEW q \in Requests, RTUFrame(q) \/ MBAPFrame(q)
        PROVE  Ledger!Next
    BY <2>0, <2>1, <2>2, RequestsAssumption, AfterEnergy DEF RTUFrame, MBAPFrame, Answer
  <2>3. ASSUME NEW c \in Changes, Control(c)
        PROVE  Ledger!Next
    BY <2>0, <2>1, <2>3, ControlEnergy DEF Control
  <2>4. ASSUME NEW d \in Deviations, NEW gain \in Gains, Tick(d, gain)
        PROVE  Ledger!Next \/ <<Account(st')>> = <<Account(st)>>
    <3> DEFINE a == Account(st)
               b == Account(st')
    <3>1. gain \in Nat /\ d \in Deviation
      BY SimulationAssumption
    <3>2. b = a \/ (st.relay /\ (b = Imported(a, gain) \/ b = Exported(a, gain)))
      BY <2>0, <2>4, <3>1, AccrueStep DEF Tick
    <3>3. <<a>>[1].relay = st.relay
      BY DEF Account
    <3> HIDE DEF a, b
    <3>4. CASE b = a
      BY <3>4 DEF a, b
    <3>5. CASE st.relay /\ (b = Imported(a, gain) \/ b = Exported(a, gain))
      <4>1. \/ <<b>> = ImportBooked(a, gain)
            \/ <<b>> = ExportBooked(a, gain)
        BY <3>5, BookBooks
      <4>2. Ledger!Accrue(1)
        BY <3>3, <3>5, <4>1 DEF Ledger!Accrue, ImportBooked, ExportBooked, a, b
      <4> QED
        BY <4>2 DEF Ledger!Next
    <3> QED
      BY <3>2, <3>4, <3>5
  <2>5. ASSUME UNCHANGED vars
        PROVE  <<Account(st')>> = <<Account(st)>>
    BY <2>5 DEF vars
  <2> QED
    BY <2>2, <2>3, <2>4, <2>5 DEF Next
<1> QED
  BY <1>1, <1>2, TypeCorrect, PTL DEF Spec, LedgerSpec, Ledger!Spec

-----------------------------------------------------------------------------
(* What the reader decodes.  A counter fits its two registers; with the other   *)
(* readings it then comes back as it is.                                        *)

EnergyLimit == WordSize * WordSize

EnergyFits(e) == e.total < EnergyLimit /\ e.export < EnergyLimit /\ e.import < EnergyLimit

LEMMA EnergyDecodes ==
  ASSUME NEW n \in Nat, n < EnergyLimit
  PROVE  WordSize * High(n) + Low(n) = n
  BY DEF High, Low, WordSize, EnergyLimit

LEMMA PowerDecodes ==
  ASSUME NEW n \in Int, -32768 <= n, n <= 32767
  PROVE  Signed(Low(n)) = n
<1>1. CASE n < 0
  <2>1. n % 65536 = n + 65536
    BY <1>1
  <2> QED
    BY <1>1, <2>1 DEF Low, WordSize, Signed
<1>2. CASE n >= 0
  <2>1. n % 65536 = n
    BY <1>2
  <2> QED
    BY <1>2, <2>1 DEF Low, WordSize, Signed
<1> QED
  BY <1>1, <1>2

LEMMA WordDecodes ==
  ASSUME NEW n \in Word
  PROVE  Low(n) = n
  BY Sizes, WordMember, ModuloSmall DEF Low

LEMMA AddressDecodes ==
  ASSUME NEW station \in Byte \ {0}, NEW baud \in 1 .. 4
  PROVE  /\ (256 * station + baud) \div 256 = station
         /\ (256 * station + baud) % 256 = baud
  BY DEF Byte, ByteSize

LEMMA TableValues ==
  ASSUME NEW s
  PROVE  /\ Table(s)[0]  = High(s.energy.total)
         /\ Table(s)[1]  = Low(s.energy.total)
         /\ Table(s)[8]  = High(s.energy.export)
         /\ Table(s)[9]  = Low(s.energy.export)
         /\ Table(s)[10] = High(s.energy.import)
         /\ Table(s)[11] = Low(s.energy.import)
         /\ Table(s)[12] = Low(s.reading.voltage)
         /\ Table(s)[13] = Low(s.reading.current)
         /\ Table(s)[14] = Low(s.reading.activePower)
         /\ Table(s)[15] = Low(s.reading.reactivePower)
         /\ Table(s)[16] = Low(s.reading.powerFactor)
         /\ Table(s)[17] = Low(s.reading.frequency)
         /\ Table(s)[21] = 256 * s.station + s.baud
         /\ Table(s)[26] = IF s.relay THEN 1 ELSE 0
  BY DEF Table, RegTotalEnergyHigh, RegTotalEnergyLow, RegExportEnergyHigh,
         RegExportEnergyLow, RegImportEnergyHigh, RegImportEnergyLow, RegVoltage,
         RegCurrent, RegActivePower, RegReactivePower, RegPowerFactor, RegFrequency,
         RegAddressBaud, RegRelay, MaxRegisterAddress

LEMMA ShownValues ==
  ASSUME NEW s
  PROVE  /\ ShownState(s)[0]  = s.energy.total
         /\ ShownState(s)[8]  = s.energy.export
         /\ ShownState(s)[10] = s.energy.import
         /\ ShownState(s)[12] = s.reading.voltage
         /\ ShownState(s)[13] = s.reading.current
         /\ ShownState(s)[14] = s.reading.activePower
         /\ ShownState(s)[15] = s.reading.reactivePower
         /\ ShownState(s)[16] = s.reading.powerFactor
         /\ ShownState(s)[17] = s.reading.frequency
         /\ ShownState(s)[21] = <<s.station, BaudRateFromCode(s.baud)>>
         /\ ShownState(s)[26] = s.relay
  BY DEF ShownState, ShownRegisters, EnergyRegisters, RegTotalEnergyHigh,
         RegExportEnergyHigh, RegImportEnergyHigh, RegVoltage, RegCurrent,
         RegActivePower, RegReactivePower, RegPowerFactor, RegFrequency,
         RegAddressBaud, RegRelay

LEMMA DecodeValues ==
  ASSUME NEW w, NEW next
  PROVE  /\ \A a \in {0, 8, 10} : Decode(a, w, next) = WordSize * w + next
         /\ \A a \in {12, 13, 15, 16, 17} : Decode(a, w, next) = w
         /\ Decode(14, w, next) = Signed(w)
         /\ Decode(21, w, next) = <<w \div 256, BaudRateFromCode(w % 256)>>
         /\ Decode(26, w, next) = (w # 0)
  BY DEF Decode, EnergyRegisters, RegTotalEnergyHigh, RegExportEnergyHigh,
         RegImportEnergyHigh, RegActivePower, RegAddressBaud, RegRelay

(* One register, decoded out of the table *)
LEMMA RegisterDecodes ==
  ASSUME NEW s \in Meter, EnergyFits(s.energy), Representable(s.reading),
         NEW a \in ShownRegisters, NEW next,
         a \in EnergyRegisters => next = Table(s)[a + 1]
  PROVE  Decode(a, Table(s)[a], next) = ShownState(s)[a]
<1> DEFINE e == s.energy
           r == s.reading
<1>1. e.total \in Nat /\ e.export \in Nat /\ e.import \in Nat
  BY DEF Meter, Energy
<1>2. /\ r.voltage \in Word /\ r.current \in Word /\ r.reactivePower \in Word
      /\ r.powerFactor \in Word /\ r.frequency \in Word
      /\ r.activePower \in Int /\ -32768 <= r.activePower /\ r.activePower <= 32767
  <2>1. r.activePower \in Int
    BY DEF Meter, Reading
  <2> HIDE DEF r
  <2> QED
    BY <2>1 DEF Representable, r
<1>3. s.station \in Byte \ {0} /\ s.baud \in 1 .. 4 /\ s.relay \in BOOLEAN
  BY DEF Meter
<1>4. a \in {0, 8, 10, 12, 13, 14, 15, 16, 17, 21, 26}
  BY DEF ShownRegisters, EnergyRegisters, RegTotalEnergyHigh, RegExportEnergyHigh,
         RegImportEnergyHigh, RegVoltage, RegFrequency, RegAddressBaud, RegRelay
<1>5. CASE a \in {0, 8, 10}
  <2>1. next = Table(s)[a + 1]
    BY <1>5 DEF EnergyRegisters, RegTotalEnergyHigh, RegExportEnergyHigh, RegImportEnergyHigh
  <2>2. CASE a = 0
    <3>1. Table(s)[a] = High(e.total) /\ next = Low(e.total)
      BY <2>1, <2>2, TableValues
    <3>2. Decode(a, Table(s)[a], next) = e.total
      BY <1>1, <2>2, <3>1, DecodeValues, EnergyDecodes DEF EnergyFits
    <3> QED
      BY <2>2, <3>2, ShownValues
  <2>3. CASE a = 8
    <3>1. Table(s)[a] = High(e.export) /\ next = Low(e.export)
      BY <2>1, <2>3, TableValues
    <3>2. Decode(a, Table(s)[a], next) = e.export
      BY <1>1, <2>3, <3>1, DecodeValues, EnergyDecodes DEF EnergyFits
    <3> QED
      BY <2>3, <3>2, ShownValues
  <2>4. CASE a = 10
    <3>1. Table(s)[a] = High(e.import) /\ next = Low(e.import)
      BY <2>1, <2>4, TableValues
    <3>2. Decode(a, Table(s)[a], next) = e.import
      BY <1>1, <2>4, <3>1, DecodeValues, EnergyDecodes DEF EnergyFits
    <3> QED
      BY <2>4, <3>2, ShownValues
  <2> QED
    BY <1>5, <2>2, <2>3, <2>4
<1>6. CASE a \in {12, 13, 15, 16, 17}
  <2>1. Decode(a, Table(s)[a], next) = Table(s)[a]
    BY <1>6, DecodeValues
  <2>2. Table(s)[a] = ShownState(s)[a]
    <3>1. /\ Low(r.voltage) = r.voltage /\ Low(r.current) = r.current
          /\ Low(r.reactivePower) = r.reactivePower
          /\ Low(r.powerFactor) = r.powerFactor /\ Low(r.frequency) = r.frequency
      BY <1>2, WordDecodes
    <3>2. /\ Table(s)[12] = ShownState(s)[12] /\ Table(s)[13] = ShownState(s)[13]
          /\ Table(s)[15] = ShownState(s)[15]
          /\ Table(s)[16] = ShownState(s)[16] /\ Table(s)[17] = ShownState(s)[17]
      BY <3>1, TableValues, ShownValues
    <3> QED
      BY <1>6, <3>2
  <2> QED
    BY <2>1, <2>2
<1>7. CASE a = 14
  <2>1. Decode(14, Table(s)[14], next) = Signed(Low(r.activePower))
    BY DecodeValues, TableValues
  <2>2. Signed(Low(r.activePower)) = r.activePower
    BY <1>2, PowerDecodes
  <2> QED
    BY <1>7, <2>1, <2>2, ShownValues
<1>8. CASE a = 21
  <2> DEFINE w == 256 * s.station + s.baud
  <2>1. Decode(21, Table(s)[21], next) = <<w \div 256, BaudRateFromCode(w % 256)>>
    BY DecodeValues, TableValues
  <2>2. w \div 256 = s.station /\ w % 256 = s.baud
    BY <1>3, AddressDecodes
  <2> DEFINE h == w \div 256
             l == w % 256
  <2> HIDE DEF w, h, l
  <2>3. <<h, BaudRateFromCode(l)>> = ShownState(s)[21]
    BY <2>2, ShownValues DEF h, l
  <2> QED
    BY <1>8, <2>1, <2>3 DEF h, l
<1>9. CASE a = 26
  <2> DEFINE w == IF s.relay THEN 1 ELSE 0
  <2>1. Decode(26, Table(s)[26], next) = (w # 0)
    BY DecodeValues, TableValues
  <2>2. (w # 0) = s.relay
    BY <1>3
  <2> QED
    BY <1>9, <2>1, <2>2, ShownValues
<1> QED
  BY <1>4, <1>5, <1>6, <1>7, <1>8, <1>9

(* A whole reply, decoded *)
Excerpt(s, start, count) == [i \in 1 .. count |-> Table(s)[start + i - 1]]

LEMMA ReplyDecodes ==
  ASSUME NEW s \in Meter, EnergyFits(s.energy), Representable(s.reading),
         NEW start \in Nat, NEW count \in Nat, start + count - 1 <= MaxRegisterAddress
  PROVE  LET shown == ParseDDS238Values(start, Excerpt(s, start, count))
         IN \A a \in DOMAIN shown : shown[a] = ShownState(s)[a]
<1> DEFINE regs == Excerpt(s, start, count)
           last == start + Len(regs) - 1
           here(a) == a \in start .. (IF a \in EnergyRegisters THEN last - 1 ELSE last)
           at(a) == regs[a - start + 1]
           shown == ParseDDS238Values(start, regs)
<1>1. Len(regs) = count
  BY DEF Excerpt
<1>2. shown = [a \in {a \in ShownRegisters : here(a)} |->
                 Decode(a, at(a), IF a < last THEN at(a + 1) ELSE 0)]
  BY DEF ParseDDS238Values
<1>3. ASSUME NEW a \in start .. last
      PROVE  at(a) = Table(s)[a]
  BY <1>1 DEF Excerpt
<1>4. ShownRegisters \subseteq Int
  BY DEF ShownRegisters, EnergyRegisters, RegTotalEnergyHigh, RegExportEnergyHigh,
         RegImportEnergyHigh, RegVoltage, RegFrequency, RegAddressBaud, RegRelay
<1> HIDE DEF shown, regs
<1>5. ASSUME NEW a \in DOMAIN shown
      PROVE  shown[a] = ShownState(s)[a]
  <2> DEFINE next == IF a < last THEN at(a + 1) ELSE 0
  <2>1. a \in ShownRegisters /\ here(a)
    BY <1>2
  <2>2. a \in start .. last /\ a \in Int
    BY <1>1, <1>4, <2>1
  <2>3. at(a) = Table(s)[a]
    BY <1>3, <2>2
  <2>4. ASSUME a \in EnergyRegisters
        PROVE  next = Table(s)[a + 1]
    <3>1. a + 1 \in start .. last /\ a < last
      BY <1>1, <2>1, <2>2, <2>4
    <3> QED
      BY <1>3, <3>1
  <2>5. shown[a] = Decode(a, at(a), next)
    BY <1>2
  <2> HIDE DEF next, at
  <2> QED
    BY <2>1, <2>3, <2>4, <2>5, RegisterDecodes
<1> QED
  BY <1>5 DEF shown, regs

(* A total that starts below the limit and is booked no further than            *)
(* EnergyBound stays below it, and so do its two parts.                         *)
EnergyBounded == EnergyBound < EnergyLimit

LEMMA TotalStays ==
  ASSUME EnergyBounded, NEW s \in Meter, NEW d \in Deviation, NEW gain \in Nat,
         s.energy.total + gain <= EnergyBound, s.energy.total < EnergyLimit
  PROVE  StepMeter(s, d, gain).energy.total < EnergyLimit
<1> DEFINE n == s.energy.total
           a == Account(s)
           b == Account(StepMeter(s, d, gain))
<1>1. n \in Nat
  BY DEF Meter, Energy
<1>2. a.total = n /\ b.total = StepMeter(s, d, gain).energy.total
  BY DEF Account
<1>3. Imported(a, gain).total = n + gain /\ Exported(a, gain).total = n + gain
  BY DEF Imported, Exported, Account
<1>4. b = a \/ b = Imported(a, gain) \/ b = Exported(a, gain)
  BY AccrueStep
<1> HIDE DEF n, a, b
<1>5. b.total \in {n, n + gain}
  BY <1>2, <1>3, <1>4
<1>6. n + gain < EnergyLimit
  BY <1>1, SimulationAssumption, Sizes DEF EnergyBounded, EnergyLimit, n
<1> QED
  BY <1>1, <1>2, <1>5, <1>6 DEF n

LEMMA TotalBounded ==
  ASSUME EnergyBounded
  PROVE  Spec => [](st.energy.total < EnergyLimit)
<1> DEFINE Inv == st.energy.total < EnergyLimit
<1>1. Init => Inv
  <2>1. \A id, solar : /\ NewMeter(id, solar).energy.total < EnergyLimit
                       /\ SolarMeter(id).energy.total < EnergyLimit
    BY DEF NewMeter, SolarMeter, EnergyLimit, WordSize
  <2> QED
    BY <2>1 DEF Init
<1>2. TypeOK /\ Inv /\ [Next]_vars => Inv'
  <2> SUFFICES ASSUME TypeOK, Inv, [Next]_vars
               PROVE  Inv'
    OBVIOUS
  <2>0. st \in Meter
    BY DEF TypeOK
  <2>1. ASSUME st'.energy \in {st.energy, Erased}
        PROVE  Inv'
    BY <2>1 DEF Erased, EnergyLimit, WordSize
  <2>2. ASSUME NEW q \in Requests, RTUFrame(q) \/ MBAPFrame(q)
        PROVE  Inv'
    BY <2>0, <2>1, <2>2, RequestsAssumption, AfterEnergy DEF RTUFrame, MBAPFrame, Answer
  <2>3. ASSUME NEW c \in Changes, Control(c)
        PROVE  Inv'
    BY <2>0, <2>1, <2>3, ControlEnergy DEF Control
  <2>4. ASSUME NEW d \in Deviations, NEW gain \in Gains, Tick(d, gain)
        PROVE  Inv'
    BY <2>0, <2>4, SimulationAssumption, TotalStays DEF Tick
  <2> QED
    BY <2>1, <2>2, <2>3, <2>4 DEF Next, vars
<1> QED
  BY <1>1, <1>2, TypeCorrect, PTL DEF Spec

LEMMA PartsFit ==
  ASSUME NEW e \in Energy, Balanced(e), e.total < EnergyLimit
  PROVE  EnergyFits(e)
<1>1. e.total \in Nat /\ e.export \in Nat /\ e.import \in Nat
  BY DEF Energy
<1> QED
  BY <1>1, Sizes DEF Balanced, EnergyFits, EnergyLimit

(* What a reply with data is: the registers asked for, of the meter as it is    *)
DataIsExcerpt ==
  wire.reply.kind = "data" =>
    LET start == wire.q.start
        count == wire.q.count
    IN /\ start \in Nat /\ count \in Nat
       /\ start + count - 1 <= MaxRegisterAddress
       /\ wire.reply.data = Excerpt(st, start, count)

LEMMA ReadIsExcerpt ==
  ASSUME NEW s, NEW start \in Word, NEW count \in Word,
         ReadHoldingRegisters(s, start, count).kind = "data"
  PROVE  /\ start \in Nat /\ count \in Nat
         /\ start + count - 1 <= MaxRegisterAddress
         /\ ReadHoldingRegisters(s, start, count).data = Excerpt(s, start, count)
<1>1. start \in Int /\ 0 <= start /\ count \in Int /\ 0 <= count
  BY WordMember
<1>2. /\ Exception(ExpIllegalDataValue).kind # "data"
      /\ Exception(ExpIllegalDataAddress).kind # "data"
      /\ Panic.kind # "data"
  BY DEF Exception, Panic
<1>3. /\ count \in 1 .. 125
      /\ ~(EndAddr(start, count) > MaxRegisterAddress)
      /\ ~(start > MaxRegisterAddress)
  BY <1>2 DEF ReadHoldingRegisters
<1>4. start <= 26 /\ 1 <= count /\ count <= 125
  BY <1>1, <1>3 DEF MaxRegisterAddress
<1>5. EndAddr(start, count) = start + count - 1
  BY <1>1, <1>4, Sizes, ModuloSmall DEF EndAddr
<1>6. start + count - 1 <= MaxRegisterAddress
  BY <1>1, <1>3, <1>5 DEF MaxRegisterAddress
<1>7. ReadHoldingRegisters(s, start, count) = Data(Excerpt(s, start, count))
  BY <1>3 DEF ReadHoldingRegisters, Excerpt
<1> QED
  BY <1>1, <1>6, <1>7 DEF Data

LEMMA DataIsRead ==
  ASSUME NEW s, NEW q \in Request, NEW reply,
         reply \in {ProcessRTUFrameSingle(s, q), ProcessMBAPFrame(s, q)},
         reply.kind = "data"
  PROVE  reply = ReadHoldingRegisters(s, q.start, q.count)
<1>1. /\ NoReply.kind # "data" /\ Panic.kind # "data" /\ Ack.kind # "data"
      /\ \A code : Exception(code).kind # "data"
  BY DEF NoReply, Panic, Ack, Exception
<1>2. WriteMultipleRegisters(q.start, q.count, q.byteCount).kind # "data"
  BY <1>1 DEF WriteMultipleRegisters
<1>3. RTUWriteReply(q).kind # "data" /\ MBAPWriteReply(q).kind # "data"
  BY <1>1, <1>2 DEF RTUWriteReply, MBAPWriteReply
<1>4. reply \in {RTUReply(s, q), MBAPReply(s, q)}
  BY <1>1 DEF ProcessRTUFrameSingle, ProcessMBAPFrame
<1>5. reply = ReadReply(s, q)
  BY <1>1, <1>3, <1>4 DEF RTUReply, MBAPReply
<1> QED
  BY <1>1, <1>5 DEF ReadReply

LEMMA AnswerIsExcerpt ==
  ASSUME NEW transport, NEW q \in Requests, NEW reply,
         reply \in {ProcessRTUFrameSingle(st, q), ProcessMBAPFrame(st, q)},
         Answer(transport, q, reply)
  PROVE  DataIsExcerpt'
<1> SUFFICES ASSUME reply.kind = "data"
             PROVE  DataIsExcerpt'
  BY DEF Answer, DataIsExcerpt
<1>1. q \in Request /\ q.start \in Word /\ q.count \in Word
  BY RequestsAssumption DEF Request
<1>2. reply = ReadHoldingRegisters(st, q.start, q.count)
  BY <1>1, DataIsRead
<1>3. st' = st /\ wire'.q = q /\ wire'.reply = reply
  BY DEF Answer, After
<1> QED
  BY <1>1, <1>2, <1>3, ReadIsExcerpt DEF DataIsExcerpt

(* What the reader decodes from a reply is the meter's state, as long as no     *)
(* total outgrows the 32 bits of its two registers.                             *)
THEOREM ReadsDecode ==
  ASSUME EnergyBounded
  PROVE  Spec => []DecodedReadMatchesState
<1>1. Init => DataIsExcerpt
  BY QuietReply DEF Init, DataIsExcerpt
<1>2. DataIsExcerpt /\ [Next]_vars => DataIsExcerpt'
  <2> SUFFICES ASSUME DataIsExcerpt, [Next]_vars
               PROVE  DataIsExcerpt'
    OBVIOUS
  <2>1. ASSUME NEW q \in Requests, RTUFrame(q) \/ MBAPFrame(q)
        PROVE  DataIsExcerpt'
    BY <2>1, AnswerIsExcerpt DEF RTUFrame, MBAPFrame
  <2>2. ASSUME wire' = Quiet
        PROVE  DataIsExcerpt'
    BY <2>2, QuietReply DEF DataIsExcerpt
  <2>3. CASE UNCHANGED vars
    BY <2>3 DEF vars, DataIsExcerpt
  <2> QED
    BY <2>1, <2>2, <2>3 DEF Next, Control, Tick
<1>3. TypeOK /\ EnergyBalance /\ st.energy.total < EnergyLimit /\ DataIsExcerpt
        => DecodedReadMatchesState
  <2> SUFFICES ASSUME TypeOK, EnergyBalance, st.energy.total < EnergyLimit, DataIsExcerpt,
                      wire.reply.kind = "data", Representable(st.reading)
               PROVE  LET shown == ParseDDS238Values(wire.q.start, wire.reply.data)
                      IN \A a \in DOMAIN shown : shown[a] = ShownState(st)[a]
    BY DEF DecodedReadMatchesState
  <2>1. st \in Meter /\ st.energy \in Energy
    BY DEF TypeOK, Meter
  <2>2. EnergyFits(st.energy)
    BY <2>1, PartsFit DEF EnergyBalance, Balanced
  <2> QED
    <3> DEFINE start == wire.q.start
               count == wire.q.count
    <3>1. /\ start \in Nat /\ count \in Nat
          /\ start + count - 1 <= MaxRegisterAddress
          /\ wire.reply.data = Excerpt(st, start, count)
      BY DEF DataIsExcerpt
    <3> HIDE DEF start, count
    <3>2. LET shown == ParseDDS238Values(start, Excerpt(st, start, count))
          IN \A a \in DOMAIN shown : shown[a] = ShownState(st)[a]
      BY <2>1, <2>2, <3>1, ReplyDecodes
    <3> QED
      BY <3>1, <3>2 DEF start
<1> QED
  BY <1>1, <1>2, <1>3, TypeCorrect, EnergyIsBalanced, TotalBounded, PTL DEF Spec

-----------------------------------------------------------------------------
(* What an acknowledged write shows in the registers *)

Named(start, count) == {(start + i) % WordSize : i \in 0 .. count - 1}

LEMMA NamedIsCovered ==
  ASSUME NEW start \in Word, NEW a \in Word, NEW words, Len(words) \in Nat,
         Len(words) < WordSize
  PROVE  Covers(start, words, a) <=> a \in Named(start, Len(words))
<1> DEFINE n == Len(words)
           k == (a - start) % WordSize
<1>1. /\ start \in Int /\ 0 <= start /\ start < WordSize
      /\ a \in Int /\ 0 <= a /\ a < WordSize
  BY WordMember
<1>2. k \in 0 .. WordSize - 1 /\ (start + k) % WordSize = a
  <2>1. CASE start <= a
    <3> DEFINE d == a - start
    <3>1. d \in Int /\ 0 <= d /\ d < WordSize /\ start + d = a
      BY <1>1, <2>1, Sizes
    <3> HIDE DEF d
    <3>2. d % WordSize = d /\ a % WordSize = a
      BY <1>1, <3>1, Sizes, ModuloSmall
    <3>3. k = d
      BY <3>2 DEF d
    <3> HIDE DEF k
    <3> QED
      BY <3>1, <3>2, <3>3, Sizes
  <2>2. CASE a < start
    <3>1. k = a - start + WordSize
      BY <1>1, <2>2 DEF WordSize
    <3>2. (a + WordSize) % WordSize = a
      BY <1>1 DEF WordSize
    <3>3. start + k = a + WordSize
      BY <1>1, <3>1, Sizes
    <3> HIDE DEF k
    <3> QED
      BY <1>1, <2>2, <3>1, <3>2, <3>3, Sizes
  <2> QED
    BY <1>1, <2>1, <2>2
<1>3. ASSUME Covers(start, words, a)
      PROVE  a \in Named(start, n)
  <2>1. k < n
    BY <1>3 DEF Covers
  <2> HIDE DEF k, n
  <2>2. k \in 0 .. n - 1
    BY <1>2, <2>1, Sizes DEF n
  <2> QED
    BY <1>2, <2>2 DEF Named
<1>4. ASSUME a \in Named(start, n)
      PROVE  Covers(start, words, a)
  <2>1. PICK i \in 0 .. n - 1 : a = (start + i) % WordSize
    BY <1>4 DEF Named
  <2>2. i \in Int /\ 0 <= i /\ i < n /\ i < WordSize
    BY <2>1, Sizes
  <2> HIDE DEF n
  <2>3. k = i
    BY <1>1, <2>1, <2>2 DEF WordSize
  <2> QED
    BY <2>2, <2>3 DEF Covers, n
<1> QED
  BY <1>3, <1>4

LEMMA AckIsWrite ==
  ASSUME NEW s, NEW q \in Requests, NEW reply,
         reply \in {ProcessRTUFrameSingle(s, q), ProcessMBAPFrame(s, q)},
         reply.kind = "ack"
  PROVE  q.count \in 1 .. 123 /\ q.count = Len(q.words)
<1>1. /\ NoReply.kind # "ack" /\ Panic.kind # "ack"
      /\ \A code : Exception(code).kind # "ack"
  BY DEF NoReply, Panic, Exception
<1>2. reply \in {RTUReply(s, q), MBAPReply(s, q)}
  BY <1>1 DEF ProcessRTUFrameSingle, ProcessMBAPFrame
<1>3. reply \in {RTUWriteReply(q), MBAPWriteReply(q)}
  BY <1>1, <1>2, ReplyIsNotAck DEF RTUReply, MBAPReply
<1>4. reply = WriteMultipleRegisters(q.start, q.count, q.byteCount)
  BY <1>1, <1>3 DEF RTUWriteReply, MBAPWriteReply
<1>5. q.count \in 1 .. 123 /\ q.byteCount = 2 * q.count
  BY <1>1, <1>4 DEF WriteMultipleRegisters
<1>6. (2 * q.count) \div 2 = q.count
  BY <1>5
<1>7. Len(q.words) = q.byteCount \div 2
  BY RequestsAssumption DEF Request
<1> QED
  BY <1>5, <1>6, <1>7

(* The registers a write can move, one by one *)
LEMMA WrittenTable ==
  ASSUME NEW s \in Meter, NEW t \in Meter, NEW start, NEW words, IsWrite(start, words),
         t = Written(s, start, words)
  PROVE  /\ \A a \in {0, 1, 8, 9, 10, 11} :
              Table(t)[a] = IF ErasesEnergy(start, words) THEN 0 ELSE Table(s)[a]
         /\ \A a \in (0 .. 26) \ {0, 1, 8, 9, 10, 11, 21, 26} : Table(t)[a] = Table(s)[a]
         /\ Table(t)[21] = 256 * t.station + t.baud
         /\ Table(t)[26] = IF t.relay THEN 1 ELSE 0
<1>1. t.reading = s.reading
  BY WrittenFields DEF Changes4
<1>2. t.energy = IF ErasesEnergy(start, words) THEN Erased ELSE s.energy
  BY WrittenFields DEF Changes4
<1>3. /\ Erased.total = 0 /\ Erased.export = 0 /\ Erased.import = 0
      /\ High(0) = 0 /\ Low(0) = 0
  BY DEF Erased, High, Low, WordSize
<1>4. ASSUME NEW a \in {0, 1, 8, 9, 10, 11}
      PROVE  Table(t)[a] = IF ErasesEnergy(start, words) THEN 0 ELSE Table(s)[a]
  BY <1>2, <1>3, TableValues
<1>5. ASSUME NEW a \in (0 .. 26) \ {0, 1, 8, 9, 10, 11, 21, 26}
      PROVE  Table(t)[a] = Table(s)[a]
  BY <1>1, SMTT(60) DEF Table, RegTotalEnergyHigh, RegTotalEnergyLow, RegExportEnergyHigh,
         RegExportEnergyLow, RegImportEnergyHigh, RegImportEnergyLow, RegVoltage,
         RegCurrent, RegActivePower, RegReactivePower, RegPowerFactor, RegFrequency,
         RegAddressBaud, RegRelay, MaxRegisterAddress
<1> QED
  BY <1>4, <1>5, TableValues

LEMMA WrittenReadsBack ==
  ASSUME NEW s \in Meter, NEW q \in Request, NEW t \in Meter,
         t = Written(s, q.start, q.words),
         q.count \in 1 .. 123, q.count = Len(q.words)
  PROVE  ReadsBack(s, t, q)
<1> DEFINE start == q.start
           words == q.words
           named == Named(start, q.count)
           new   == Table(t)
           old   == Table(s)
<1>0. start \in Word /\ RegAddressBaud = 21 /\ RegRelay = 26
  BY DEF Request, RegAddressBaud, RegRelay
<1>1. /\ \A a \in {0, 1, 8, 9, 10, 11} :
           new[a] = IF ErasesEnergy(start, words) THEN 0 ELSE old[a]
      /\ \A a \in (0 .. 26) \ {0, 1, 8, 9, 10, 11, 21, 26} : new[a] = old[a]
      /\ new[21] = 256 * t.station + t.baud
      /\ new[26] = IF t.relay THEN 1 ELSE 0
  BY RequestIsWrite, WrittenTable
<1>2. old[21] = 256 * s.station + s.baud /\ old[26] = IF s.relay THEN 1 ELSE 0
  BY TableValues
<1>3. /\ Covers(start, words, 21) <=> 21 \in named
      /\ Covers(start, words, 26) <=> 26 \in named
  <2>1. 21 \in Word /\ 26 \in Word
    BY Sizes, WordMember
  <2>2. q.count \in Nat /\ q.count < WordSize
    <3> DEFINE n == q.count
    <3>1. n \in 1 .. 123
      OBVIOUS
    <3> HIDE DEF n
    <3>2. n \in Nat /\ n < WordSize
      BY <3>1, Sizes
    <3> QED
      BY <3>2 DEF n
  <2> QED
    BY <1>0, <2>1, <2>2, NamedIsCovered
<1>4. /\ t.station = IF /\ Covers(start, words, 21)
                        /\ WordAt(start, words, 21) \div 256 \in 1 .. 247
                     THEN WordAt(start, words, 21) \div 256 ELSE s.station
      /\ t.baud = IF Covers(start, words, 21) /\ WordAt(start, words, 21) % 256 \in 1 .. 4
                  THEN WordAt(start, words, 21) % 256 ELSE s.baud
      /\ t.relay = IF Covers(start, words, 26)
                   THEN WordAt(start, words, 26) # 0 ELSE s.relay
  BY <1>0, RequestIsWrite, WrittenFields DEF Changes4, LegalStation, LegalBaud
<1>5. /\ new[21] \div 256 = t.station /\ new[21] % 256 = t.baud
      /\ old[21] \div 256 = s.station /\ old[21] % 256 = s.baud
  <2>1. /\ s.station \in Byte \ {0} /\ s.baud \in 1 .. 4
        /\ t.station \in Byte \ {0} /\ t.baud \in 1 .. 4
    BY DEF Meter
  <2> HIDE DEF new, old
  <2> QED
    BY <1>1, <1>2, <2>1, AddressDecodes
<1>6. DOMAIN old = 0 .. 26
  BY DEF Table, MaxRegisterAddress
<1> HIDE DEF new, old, named
<1>7. ASSUME NEW a \in (DOMAIN old) \ CounterRegisters, new[a] # old[a]
      PROVE  a \in named \cap {RegAddressBaud, RegRelay}
  <2>1. 21 \notin named => new[21] = old[21]
    BY <1>1, <1>2, <1>3, <1>4, SMTT(60)
  <2>2. 26 \notin named => new[26] = old[26]
    BY <1>1, <1>2, <1>3, <1>4
  <2>3. a \in (0 .. 26) \ {0, 1, 8, 9, 10, 11}
    BY <1>6, <1>7 DEF CounterRegisters
  <2>4. a \in {21, 26}
    BY <1>1, <1>7, <2>3
  <2> QED
    BY <1>0, <1>7, <2>1, <2>2, <2>4
<1>8. ASSUME NEW a \in CounterRegisters
      PROVE  new[a] = IF ZeroesTotal(q) THEN 0 ELSE old[a]
  <2>1. ErasesEnergy(start, words) <=> ZeroesTotal(q)
    BY DEF ErasesEnergy, RegTotalEnergyHigh, ZeroesTotal
  <2> QED
    BY <1>1, <2>1 DEF CounterRegisters
<1>9. ASSUME 26 \in named
      PROVE  (new[26] = 1) = (words[((26 - start) % WordSize) + 1] # 0)
  <2>1. t.relay = (WordAt(start, words, 26) # 0)
    BY <1>3, <1>4, <1>9
  <2>2. (new[26] = 1) = t.relay
    BY <1>1, SMTT(60) DEF Meter
  <2> QED
    BY <2>1, <2>2 DEF WordAt
<1>10. ASSUME 21 \in named
       PROVE  LET w == words[((21 - start) % WordSize) + 1]
              IN /\ new[21] \div 256 = IF w \div 256 \in 1 .. 247 THEN w \div 256
                                       ELSE old[21] \div 256
                 /\ new[21] % 256 = IF w % 256 \in 1 .. 4 THEN w % 256 ELSE old[21] % 256
  <2> DEFINE w == WordAt(start, words, 21)
             h == w \div 256
             l == w % 256
  <2>1. /\ t.station = IF h \in 1 .. 247 THEN h ELSE s.station
        /\ t.baud = IF l \in 1 .. 4 THEN l ELSE s.baud
    BY <1>3, <1>4, <1>10
  <2> HIDE DEF h, l
  <2>2. /\ new[21] \div 256 = IF h \in 1 .. 247 THEN h ELSE old[21] \div 256
        /\ new[21] % 256 = IF l \in 1 .. 4 THEN l ELSE old[21] % 256
    BY <1>5, <2>1
  <2> QED
    BY <2>2 DEF WordAt, h, l
<1> QED
  BY <1>0, <1>7, <1>8, <1>9, <1>10, ZenonT(60) DEF ReadsBack, named, Named, new, old

(* An acknowledged write does to the registers what its words say, and nothing  *)
(* else: the energy counters fall to zero together when both words of the total *)
(* are written as zeroes, and otherwise stay.                                   *)
THEOREM WritesReadBack == Spec => WriteReadsBack
<1>1. TypeOK /\ [Next]_vars =>
        [wire'.reply.kind = "ack" => ReadsBack(st, st', wire'.q)]_vars
  <2> SUFFICES ASSUME TypeOK, Next, wire'.reply.kind = "ack"
               PROVE  ReadsBack(st, st', wire'.q)
    OBVIOUS
  <2>1. wire' # Quiet
    BY QuietReply
  <2>2. PICK q, transport, reply :
          /\ q \in Requests
          /\ Answer(transport, q, reply)
          /\ reply \in {ProcessRTUFrameSingle(st, q), ProcessMBAPFrame(st, q)}
    BY <2>1 DEF Next, RTUFrame, MBAPFrame, Control, Tick
  <2>3. wire'.q = q /\ wire'.reply = reply /\ st' = After(st, q, reply)
    BY <2>2 DEF Answer
  <2>4. q.count \in 1 .. 123 /\ q.count = Len(q.words)
    BY <2>2, <2>3, AckIsWrite
  <2>5. st' = Written(st, q.start, q.words)
    BY <2>3 DEF After
  <2>6. st \in Meter /\ st' \in Meter /\ q \in Request
    BY <2>2, <2>5, RequestIsWrite, WrittenType, RequestsAssumption DEF TypeOK
  <2> QED
    BY <2>3, <2>4, <2>5, <2>6, WrittenReadsBack
<1> QED
  BY <1>1, TypeCorrect, PTL DEF Spec, WriteReadsBack
=============================================================================
