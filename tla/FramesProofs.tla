----------------------------- MODULE FramesProofs -----------------------------
(* What the operators of Registers and Frames return and preserve: the lemmas   *)
(* the proofs about the state machines rest on.                                 *)
EXTENDS WireFormat, InductionLemmas

(* The sizes as opaque constants: equated to a literal they turn the ranges     *)
(* into enumerations that the provers do not take in.                           *)
LEMMA Sizes ==
  /\ WordSize \in Nat /\ 65535 < WordSize /\ WordSize < 65537
  /\ ByteSize \in Nat /\ 255 < ByteSize /\ ByteSize < 257
  BY DEF WordSize, ByteSize

LEMMA WordMember == \A x : x \in Word <=> x \in Int /\ 0 <= x /\ x < WordSize
  BY Sizes DEF Word

LEMMA ByteMember == \A x : x \in Byte <=> x \in Int /\ 0 <= x /\ x < ByteSize
  BY Sizes DEF Byte

LEMMA ModuloRange ==
  ASSUME NEW n \in Int, NEW k \in Nat \ {0}
  PROVE  n % k \in Int /\ 0 <= n % k /\ n % k < k /\ n \div k \in Int
  OBVIOUS

LEMMA ModuloSmall ==
  ASSUME NEW n \in Int, NEW k \in Nat \ {0}, 0 <= n, n < k
  PROVE  n % k = n
  OBVIOUS

LEMMA ErasedType == Erased \in Energy
  BY DEF Erased, Energy

LEMMA NewMeterType ==
  ASSUME NEW id \in Byte, NEW solar \in BOOLEAN
  PROVE  NewMeter(id, solar) \in Meter
  BY Sizes, ByteMember DEF NewMeter, Meter, Energy, Reading, Target

LEMMA SolarMeterType ==
  ASSUME NEW id \in Byte
  PROVE  SolarMeter(id) \in Meter
<1> DEFINE m == NewMeter(id, TRUE)
           v == 2320
           i == 1500
           p == -3480
           r == [m.reading EXCEPT !.voltage = v, !.current = i, !.activePower = p]
           t == [m.target EXCEPT !.voltage = v, !.current = i]
           e == [total |-> 46235, export |-> 45025, import |-> 1210]
<1>1. m \in Meter
  BY NewMeterType
<1>2. m.reading \in Reading /\ m.target \in Target
  BY <1>1 DEF Meter
<1>3. e \in Energy
  BY DEF Energy
<1>4. v \in Int /\ i \in Int /\ p \in Int
  OBVIOUS
<1>5. SolarMeter(id) = [m EXCEPT !.energy = e, !.reading = r, !.target = t]
  BY DEF SolarMeter
<1> HIDE DEF m, e, v, i, p
<1>6. r \in Reading
  BY <1>2, <1>4 DEF Reading
<1>7. t \in Target
  BY <1>2, <1>4 DEF Target
<1> HIDE DEF r, t
<1>8. [m EXCEPT !.energy = e, !.reading = r, !.target = t] \in Meter
  BY <1>1, <1>3, <1>6, <1>7 DEF Meter
<1> QED
  BY <1>5, <1>8

-----------------------------------------------------------------------------
(* The loop of WriteMultipleRegisters in closed form.  The meter after the      *)
(* first n words of a write does not depend on the order of the registers,      *)
(* because the range, though it may wrap, comes to none of them twice.          *)

IsWrite(start, words) == start \in Word /\ words \in Seq(Word) /\ Len(words) < WordSize

(* The first n words reach register a, and this is the one it gets *)
Reaches(start, n, a) == (a - start) % WordSize < n
WordAt(start, words, a) == words[((a - start) % WordSize) + 1]

AtOnce(s, start, words, n) ==
  LET word == WordAt(start, words, RegAddressBaud)
  IN [s EXCEPT
        !.energy  = IF n > 0 /\ ErasesEnergy(start, words) THEN Erased ELSE @,
        !.station = IF Reaches(start, n, RegAddressBaud) /\ LegalStation(word \div 256)
                    THEN word \div 256 ELSE @,
        !.baud    = IF Reaches(start, n, RegAddressBaud) /\ LegalBaud(word % 256)
                    THEN word % 256 ELSE @,
        !.relay   = IF Reaches(start, n, RegRelay)
                    THEN WordAt(start, words, RegRelay) # 0 ELSE @]

(* t is s but for the fields that a write may change *)
Changes4(s, t, energy, station, baud, relay) ==
  /\ t \in Meter
  /\ t.energy = energy /\ t.station = station /\ t.baud = baud /\ t.relay = relay
  /\ t.solar = s.solar /\ t.reading = s.reading /\ t.target = s.target
  /\ t.noise = s.noise /\ t.dynamic = s.dynamic

LEMMA ExceptChanges ==
  ASSUME NEW s \in Meter, NEW energy \in Energy, NEW station \in Byte \ {0},
         NEW baud \in 1 .. 4, NEW relay \in BOOLEAN
  PROVE  Changes4(s, [s EXCEPT !.energy = energy, !.station = station, !.baud = baud,
                               !.relay = relay], energy, station, baud, relay)
  BY DEF Changes4, Meter

LEMMA SameChanges ==
  ASSUME NEW s, NEW t, NEW u, NEW energy, NEW station, NEW baud, NEW relay,
         Changes4(s, t, energy, station, baud, relay),
         Changes4(s, u, energy, station, baud, relay)
  PROVE  t = u
  BY DEF Changes4, Meter

LEMMA LegalTyped ==
  ASSUME NEW h, NEW l
  PROVE  /\ LegalStation(h) => h \in Byte \ {0}
         /\ LegalBaud(l) => l \in 1 .. 4
  BY Sizes, ByteMember DEF LegalStation, LegalBaud

LEMMA AtOnceChanges ==
  ASSUME NEW s \in Meter, NEW start, NEW words, NEW n
  PROVE  LET word == WordAt(start, words, RegAddressBaud)
         IN Changes4(s, AtOnce(s, start, words, n),
              IF n > 0 /\ ErasesEnergy(start, words) THEN Erased ELSE s.energy,
              IF Reaches(start, n, RegAddressBaud) /\ LegalStation(word \div 256)
              THEN word \div 256 ELSE s.station,
              IF Reaches(start, n, RegAddressBaud) /\ LegalBaud(word % 256)
              THEN word % 256 ELSE s.baud,
              IF Reaches(start, n, RegRelay) THEN WordAt(start, words, RegRelay) # 0 ELSE s.relay)
<1> DEFINE word    == WordAt(start, words, RegAddressBaud)
           energy  == IF n > 0 /\ ErasesEnergy(start, words) THEN Erased ELSE s.energy
           station == IF Reaches(start, n, RegAddressBaud) /\ LegalStation(word \div 256)
                      THEN word \div 256 ELSE s.station
           baud    == IF Reaches(start, n, RegAddressBaud) /\ LegalBaud(word % 256)
                      THEN word % 256 ELSE s.baud
           relay   == IF Reaches(start, n, RegRelay)
                      THEN WordAt(start, words, RegRelay) # 0 ELSE s.relay
<1>1. /\ s.energy \in Energy /\ s.station \in Byte \ {0} /\ s.baud \in 1 .. 4
      /\ s.relay \in BOOLEAN
  BY DEF Meter
<1> HIDE DEF word
<1>2. /\ energy \in Energy /\ station \in Byte \ {0} /\ baud \in 1 .. 4
      /\ relay \in BOOLEAN
  BY <1>1, ErasedType, LegalTyped
<1>3. AtOnce(s, start, words, n) =
        [s EXCEPT !.energy = energy, !.station = station, !.baud = baud, !.relay = relay]
  BY DEF AtOnce, word
<1> HIDE DEF energy, station, baud, relay
<1>4. Changes4(s, [s EXCEPT !.energy = energy, !.station = station, !.baud = baud,
                             !.relay = relay], energy, station, baud, relay)
  <2>1. energy \in Energy
    BY <1>2
  <2>2. station \in Byte \ {0}
    BY <1>2
  <2>3. baud \in 1 .. 4
    BY <1>2
  <2>4. relay \in BOOLEAN
    BY <1>2
  <2> QED
    BY <2>1, <2>2, <2>3, <2>4, ExceptChanges, Zenon
<1>5. Changes4(s, AtOnce(s, start, words, n), energy, station, baud, relay)
  BY <1>3, <1>4, Zenon
<1> QED
  BY <1>5 DEF energy, station, baud, relay, word

LEMMA WordChanges ==
  ASSUME NEW t \in Meter, NEW start, NEW words, NEW i, NEW addr, NEW val,
         addr = (start + i - 1) % WordSize, val = words[i]
  PROVE  Changes4(t, WriteWord(t, start, words, i),
           IF addr \in {0, 1} /\ ErasesEnergy(start, words) THEN Erased ELSE t.energy,
           IF addr = 21 /\ LegalStation(val \div 256) THEN val \div 256 ELSE t.station,
           IF addr = 21 /\ LegalBaud(val % 256) THEN val % 256 ELSE t.baud,
           IF addr = 26 THEN val # 0 ELSE t.relay)
<1> DEFINE h == val \div 256
           l == val % 256
           on == (val # 0)
           erases == ErasesEnergy(start, words)
           w == WriteWord(t, start, words, i)
<1>1. w = CASE addr \in {0, 1} -> [t EXCEPT !.energy = IF erases THEN Erased ELSE @]
            [] addr = 21 ->
                 [t EXCEPT !.station = IF LegalStation(h) THEN h ELSE @,
                           !.baud    = IF LegalBaud(l) THEN l ELSE @]
            [] addr = 26 -> [t EXCEPT !.relay = on]
            [] OTHER -> t
  BY DEF WriteWord, RegTotalEnergyHigh, RegTotalEnergyLow, RegAddressBaud, RegRelay
<1>2. on \in BOOLEAN
  OBVIOUS
<1> HIDE DEF h, l, on, erases, w
<1>3. CASE addr \in {0, 1}
  <2>1. w = [t EXCEPT !.energy = IF erases THEN Erased ELSE @]
    BY <1>1, <1>3
  <2>2. Changes4(t, w, IF erases THEN Erased ELSE t.energy, t.station, t.baud, t.relay)
    BY <2>1, ErasedType DEF Changes4, Meter
  <2> QED
    BY <1>3, <2>2 DEF h, l, on, erases, w
<1>4. CASE addr = 21
  <2>1. w = [t EXCEPT !.station = IF LegalStation(h) THEN h ELSE @,
                      !.baud    = IF LegalBaud(l) THEN l ELSE @]
    BY <1>1, <1>4
  <2>2. Changes4(t, w, t.energy, IF LegalStation(h) THEN h ELSE t.station,
                 IF LegalBaud(l) THEN l ELSE t.baud, t.relay)
    BY <2>1, LegalTyped DEF Changes4, Meter
  <2> QED
    BY <1>4, <2>2 DEF h, l, on, erases, w
<1>5. CASE addr = 26
  <2>1. w = [t EXCEPT !.relay = on]
    BY <1>1, <1>5
  <2>2. Changes4(t, w, t.energy, t.station, t.baud, on)
    BY <1>2, <2>1 DEF Changes4, Meter
  <2> QED
    BY <1>5, <2>2 DEF h, l, on, erases, w
<1>6. CASE addr \notin {0, 1, 21, 26}
  <2>1. w = t
    BY <1>1, <1>6
  <2>2. Changes4(t, w, t.energy, t.station, t.baud, t.relay)
    BY <2>1 DEF Changes4
  <2> QED
    BY <1>6, <2>2 DEF h, l, on, erases, w
<1> QED
  BY <1>3, <1>4, <1>5, <1>6

(* The i-th word goes to register a exactly when a is the i-th of the range *)
LEMMA Position ==
  ASSUME NEW start \in Word, NEW a \in Word, NEW i \in Nat, i < WordSize
  PROVE  (start + i) % WordSize = a <=> (a - start) % WordSize = i
<1>1. /\ start \in Int /\ 0 <= start /\ start <= 65535 /\ a \in Int /\ 0 <= a /\ a <= 65535
      /\ i \in Int /\ 0 <= i /\ i <= 65535
  BY Sizes, WordMember
<1>2. (start + i) % 65536 = IF start + i < 65536 THEN start + i ELSE start + i - 65536
  BY <1>1
<1>3. (a - start) % 65536 = IF a >= start THEN a - start ELSE a - start + 65536
  BY <1>1
<1> QED
  BY <1>1, <1>2, <1>3 DEF WordSize

(* One round of the loop *)
LEMMA WordAtOnce ==
  ASSUME NEW s \in Meter, NEW start, NEW words, IsWrite(start, words), NEW i \in 1 .. Len(words)
  PROVE  WriteWord(AtOnce(s, start, words, i - 1), start, words, i) = AtOnce(s, start, words, i)
<1> DEFINE t    == AtOnce(s, start, words, i - 1)
           u    == AtOnce(s, start, words, i)
           w    == WriteWord(t, start, words, i)
           addr == (start + i - 1) % WordSize
           val  == words[i]
           word == WordAt(start, words, 21)
           erases == ErasesEnergy(start, words)
           at(a) == (a - start) % WordSize
<1>1. /\ start \in Word /\ i \in Int /\ 1 <= i /\ i - 1 \in Nat /\ i - 1 < WordSize
      /\ 21 \in Word /\ 26 \in Word /\ 0 \in Word /\ 1 \in Word
      /\ RegAddressBaud = 21 /\ RegRelay = 26 /\ addr = (start + (i - 1)) % WordSize
  BY Sizes, WordMember, SMTT(60) DEF IsWrite, RegAddressBaud, RegRelay
<1>2. \A a \in {21, 26} : /\ at(a) \in Int
                          /\ addr = a <=> at(a) = i - 1
                          /\ Reaches(start, i, a) <=> at(a) < i
                          /\ Reaches(start, i - 1, a) <=> at(a) < i - 1
                          /\ WordAt(start, words, a) = words[at(a) + 1]
  <2>1. ASSUME NEW a \in {21, 26}
        PROVE  at(a) \in Int /\ (addr = a <=> at(a) = i - 1)
    <3>1. a \in Word
      BY <1>1
    <3>2. a - start \in Int
      BY <1>1, <3>1, WordMember
    <3>3. WordSize \in Nat \ {0}
      BY Sizes
    <3> QED
      BY <1>1, <3>1, <3>2, <3>3, Position, ModuloRange, SMTT(60)
  <2> QED
    BY <2>1 DEF Reaches, WordAt
<1>3. erases /\ i - 1 = 0 => addr = 0
  <2>1. SUFFICES ASSUME erases, i - 1 = 0
                 PROVE  addr = 0
    OBVIOUS
  <2>2. start = 0
    BY <2>1 DEF ErasesEnergy, RegTotalEnergyHigh
  <2> QED
    BY <1>1, <2>1, <2>2, Sizes, ModuloSmall
<1> HIDE DEF at, addr, val, erases
<1>4. Changes4(s, t, IF i - 1 > 0 /\ erases THEN Erased ELSE s.energy,
               IF Reaches(start, i - 1, 21) /\ LegalStation(word \div 256)
               THEN word \div 256 ELSE s.station,
               IF Reaches(start, i - 1, 21) /\ LegalBaud(word % 256)
               THEN word % 256 ELSE s.baud,
               IF Reaches(start, i - 1, 26) THEN WordAt(start, words, 26) # 0 ELSE s.relay)
  BY <1>1, AtOnceChanges DEF erases
<1>5. Changes4(s, u, IF i > 0 /\ erases THEN Erased ELSE s.energy,
               IF Reaches(start, i, 21) /\ LegalStation(word \div 256)
               THEN word \div 256 ELSE s.station,
               IF Reaches(start, i, 21) /\ LegalBaud(word % 256)
               THEN word % 256 ELSE s.baud,
               IF Reaches(start, i, 26) THEN WordAt(start, words, 26) # 0 ELSE s.relay)
  BY <1>1, AtOnceChanges DEF erases
<1> HIDE DEF t, u
<1>6. Changes4(t, w, IF addr \in {0, 1} /\ erases THEN Erased ELSE t.energy,
               IF addr = 21 /\ LegalStation(val \div 256) THEN val \div 256 ELSE t.station,
               IF addr = 21 /\ LegalBaud(val % 256) THEN val % 256 ELSE t.baud,
               IF addr = 26 THEN val # 0 ELSE t.relay)
  <2>1. t \in Meter
    BY <1>4 DEF Changes4
  <2> QED
    BY <2>1, WordChanges DEF addr, val, erases
<1> HIDE DEF w, word
<1>7. addr = 21 => val = word
  BY <1>1, <1>2 DEF val, word
<1>8. addr = 26 => val = WordAt(start, words, 26)
  BY <1>1, <1>2 DEF val
<1>9. w.energy = u.energy
  BY <1>1, <1>3, <1>4, <1>5, <1>6 DEF Changes4
<1>10. /\ Reaches(start, i, 21) <=> Reaches(start, i - 1, 21) \/ addr = 21
       /\ Reaches(start, i, 26) <=> Reaches(start, i - 1, 26) \/ addr = 26
       /\ ~(Reaches(start, i - 1, 21) /\ addr = 21) /\ ~(Reaches(start, i - 1, 26) /\ addr = 26)
  BY <1>1, <1>2
<1>11. w.station = u.station /\ w.baud = u.baud
  BY <1>4, <1>5, <1>6, <1>7, <1>10 DEF Changes4
<1>12. w.relay = u.relay
  BY <1>4, <1>5, <1>6, <1>8, <1>10 DEF Changes4
<1>13. Changes4(s, w, u.energy, u.station, u.baud, u.relay)
  BY <1>4, <1>6, <1>9, <1>11, <1>12 DEF Changes4
<1>14. Changes4(s, u, u.energy, u.station, u.baud, u.relay)
  BY <1>5 DEF Changes4
<1>15. w = u
  BY <1>13, <1>14, SameChanges
<1> QED
  BY <1>15 DEF w, u, t

(* The loop of WriteMultipleRegisters leaves what all its words at once make of *)
(* the meter, wherever the range begins and whether it wraps or not.            *)
THEOREM WrittenAtOnce ==
  ASSUME NEW s \in Meter, NEW start, NEW words, IsWrite(start, words)
  PROVE  Written(s, start, words) = AtOnce(s, start, words, Len(words))
<1> DEFINE n == Len(words)
           Runs(f) == f = [i \in 0 .. n |-> IF i = 0 THEN s ELSE WriteWord(f[i - 1], start, words, i)]
           closed == [i \in 0 .. n |-> AtOnce(s, start, words, i)]
           after == CHOOSE f : Runs(f)
<1>1. n \in Nat
  BY DEF IsWrite
<1>2. AtOnce(s, start, words, 0) = s
  <2>1. ~Reaches(start, 0, RegAddressBaud) /\ ~Reaches(start, 0, RegRelay)
    <3>1. /\ RegAddressBaud - start \in Int /\ RegRelay - start \in Int
          /\ WordSize \in Nat \ {0}
      BY Sizes, WordMember DEF IsWrite, RegAddressBaud, RegRelay
    <3> DEFINE a == RegAddressBaud - start
               b == RegRelay - start
    <3> HIDE DEF a, b
    <3>2. ~(a % WordSize < 0) /\ ~(b % WordSize < 0)
      BY <3>1, ModuloRange DEF a, b
    <3> QED
      BY <3>2 DEF Reaches, a, b
  <2>2. Changes4(s, AtOnce(s, start, words, 0), s.energy, s.station, s.baud, s.relay)
    BY <2>1, AtOnceChanges
  <2>3. Changes4(s, s, s.energy, s.station, s.baud, s.relay)
    BY DEF Changes4
  <2> QED
    BY <2>2, <2>3, SameChanges
<1>3. Runs(closed)
  <2>1. ASSUME NEW i \in 0 .. n
        PROVE  closed[i] = IF i = 0 THEN s ELSE WriteWord(closed[i - 1], start, words, i)
    <3>1. CASE i = 0
      BY <1>1, <1>2, <3>1
    <3>2. CASE i # 0
      <4>1. i \in 1 .. n /\ i - 1 \in 0 .. n
        BY <1>1, <3>2
      <4>2. WriteWord(AtOnce(s, start, words, i - 1), start, words, i) = AtOnce(s, start, words, i)
        BY <4>1, WordAtOnce
      <4> QED
        BY <3>2, <4>1, <4>2
    <3> QED
      BY <3>1, <3>2
  <2> QED
    BY <2>1
<1>4. Runs(after)
  BY <1>3
<1>5. Written(s, start, words) = after[n]
  BY DEF Written
<1> HIDE DEF after, n
<1>6. \A i \in 0 .. n : after[i] = IF i = 0 THEN s ELSE WriteWord(after[i - 1], start, words, i)
  BY <1>4
<1> DEFINE same == {i \in 0 .. n : after[i] = AtOnce(s, start, words, i)}
<1>7. 0 \in same
  BY <1>1, <1>2, <1>6
<1>8. ASSUME NEW i \in 0 .. n - 1, i \in same
      PROVE  i + 1 \in same
  <2>1. i + 1 \in 1 .. n /\ i + 1 \in 0 .. n /\ i + 1 # 0 /\ (i + 1) - 1 = i
    BY <1>1
  <2>2. after[i + 1] = WriteWord(AtOnce(s, start, words, i), start, words, i + 1)
    BY <1>6, <1>8, <2>1
  <2>3. WriteWord(AtOnce(s, start, words, (i + 1) - 1), start, words, i + 1)
          = AtOnce(s, start, words, i + 1)
    BY <2>1, WordAtOnce DEF n
  <2> QED
    BY <2>1, <2>2, <2>3
<1> HIDE DEF same
<1>9. \A i \in 0 .. n : i \in same
  BY <1>1, <1>7, <1>8, InductionUpTo
<1>10. after[n] = AtOnce(s, start, words, n)
  BY <1>1, <1>9 DEF same
<1> QED
  BY <1>5, <1>10 DEF n

(* What a write makes of a meter *)
LEMMA WrittenFields ==
  ASSUME NEW s \in Meter, NEW start, NEW words, IsWrite(start, words)
  PROVE  LET word == WordAt(start, words, RegAddressBaud)
         IN Changes4(s, Written(s, start, words),
              IF ErasesEnergy(start, words) THEN Erased ELSE s.energy,
              IF Covers(start, words, RegAddressBaud) /\ LegalStation(word \div 256)
              THEN word \div 256 ELSE s.station,
              IF Covers(start, words, RegAddressBaud) /\ LegalBaud(word % 256)
              THEN word % 256 ELSE s.baud,
              IF Covers(start, words, RegRelay)
              THEN WordAt(start, words, RegRelay) # 0 ELSE s.relay)
<1>1. ErasesEnergy(start, words) => Len(words) > 0
  BY DEF ErasesEnergy, IsWrite
<1>2. \A a : Covers(start, words, a) <=> Reaches(start, Len(words), a)
  BY DEF Covers, Reaches
<1> QED
  BY <1>1, <1>2, WrittenAtOnce, AtOnceChanges

(* A write keeps a meter a meter, whatever words it carries *)
LEMMA WrittenType ==
  ASSUME NEW s \in Meter, NEW start, NEW words, IsWrite(start, words)
  PROVE  Written(s, start, words) \in Meter
  BY WrittenFields DEF Changes4

(* The data of a request counts at most 127 words *)
LEMMA RequestIsWrite ==
  ASSUME NEW q \in Request
  PROVE  IsWrite(q.start, q.words)
<1>1. /\ q.start \in Word /\ q.words \in Seq(Word) /\ q.byteCount \in Byte
      /\ Len(q.words) = q.byteCount \div 2
  BY DEF Request
<1> DEFINE b == q.byteCount
<1>2. b \in Int /\ 0 <= b /\ b <= 255
  BY <1>1, Sizes, ByteMember
<1> HIDE DEF b
<1>3. b \div 2 < WordSize
  BY <1>2, Sizes
<1> QED
  BY <1>1, <1>3 DEF IsWrite, b

LEMMA AfterType ==
  ASSUME NEW s \in Meter, NEW q \in Request, NEW reply
  PROVE  After(s, q, reply) \in Meter
  BY RequestIsWrite, WrittenType DEF After

-----------------------------------------------------------------------------

LEMMA ControlUpdateType ==
  ASSUME NEW s \in Meter, NEW c, IsChange(c)
  PROVE  ControlUpdate(s, c) \in Meter
<1> DEFINE u == ControlUpdate(s, c)
<1>1. /\ s.solar \in BOOLEAN /\ s.relay \in BOOLEAN /\ s.noise \in BOOLEAN
      /\ s.dynamic \in BOOLEAN /\ s.station \in Byte \ {0} /\ s.baud \in 1 .. 4
      /\ s.energy \in Energy /\ s.reading \in Reading /\ s.target \in Target
  BY DEF Meter
<1>2. /\ u.solar \in BOOLEAN /\ u.relay \in BOOLEAN /\ u.noise \in BOOLEAN
      /\ u.dynamic \in BOOLEAN
  BY <1>1 DEF ControlUpdate, IsChange, Given
<1>3. u.target \in Target
  <2>1. /\ s.target.voltage \in Int /\ s.target.current \in Int
        /\ s.target.powerFactor \in Int /\ s.target.frequency \in Int
    BY <1>1 DEF Target
  <2> QED
    BY <2>1 DEF ControlUpdate, IsChange, Given, Target
<1>4. u.energy \in Energy /\ u.reading \in Reading
  BY <1>1, ErasedType DEF ControlUpdate
<1>5. u.station \in Byte \ {0} /\ u.baud \in 1 .. 4
  BY <1>1, ByteMember DEF ControlUpdate, IsChange, LegalBaud
<1> DEFINE solar == u.solar      reading == u.reading   target == u.target
           relay == u.relay      noise == u.noise       dynamic == u.dynamic
           energy == u.energy    station == u.station   baud == u.baud
<1>6. ControlUpdate(s, c) =
        [solar |-> solar, reading |-> reading, target |-> target, relay |-> relay,
         noise |-> noise, dynamic |-> dynamic, energy |-> energy, station |-> station,
         baud |-> baud]
  BY DEF ControlUpdate
<1> HIDE DEF solar, reading, target, relay, noise, dynamic, energy, station, baud
<1>7. [solar |-> solar, reading |-> reading, target |-> target, relay |-> relay,
       noise |-> noise, dynamic |-> dynamic, energy |-> energy, station |-> station,
       baud |-> baud] \in Meter
  BY <1>2, <1>3, <1>4, <1>5 DEF Meter, solar, reading, target, relay, noise, dynamic,
                                energy, station, baud
<1> QED
  BY <1>6, <1>7

LEMMA WattsType ==
  ASSUME NEW v \in Int, NEW i \in Int, NEW pf \in Int
  PROVE  Watts(v, i, pf) \in Int
<1> DEFINE va  == AbsoluteOf(v * i)
           abs == AbsoluteOf(pf)
           x   == (va \div 1000) * abs
           y   == (va % 1000) * abs + 500000
           p   == (x + y \div 1000) \div 1000
<1>1. v * i \in Int
  OBVIOUS
<1>2. va \in Int /\ abs \in Int
  <2> HIDE DEF va
  <2>1. \A n \in Int : AbsoluteOf(n) \in Int
    BY DEF AbsoluteOf
  <2> QED
    BY <1>1, <2>1 DEF va
<1> HIDE DEF va, abs
<1>3. va \div 1000 \in Int /\ va % 1000 \in Int
  BY <1>2
<1>4. x \in Int /\ y \in Int
  BY <1>2, <1>3
<1> HIDE DEF x, y
<1>5. y \div 1000 \in Int
  BY <1>4
<1>6. p \in Int
  BY <1>4, <1>5
<1>7. Watts(v, i, pf) = IF (v * i < 0) # (pf < 0) THEN -p ELSE p
  BY DEF Watts, va, abs, x, y
<1> HIDE DEF p
<1> QED
  BY <1>6, <1>7

LEMMA MeasuredType ==
  ASSUME NEW s \in Meter, NEW d \in Deviation
  PROVE  Measured(s, d) \in Reading
<1> DEFINE t    == s.target
           loud == s.noise /\ t.current > 5
           v    == IF s.noise THEN t.voltage + d.voltage ELSE t.voltage
           i    == IF loud THEN Larger(0, t.current + d.current) ELSE t.current
           pf   == IF loud THEN Larger(100, Smaller(1000, t.powerFactor + d.powerFactor))
                   ELSE t.powerFactor
           f    == IF s.noise THEN t.frequency + d.frequency ELSE t.frequency
           w    == Watts(v, i, pf)
           q    == IF v * i > 1000 * AbsoluteOf(w) THEN d.reactive ELSE 0
<1>1. /\ t.voltage \in Int /\ t.current \in Int /\ t.powerFactor \in Int /\ t.frequency \in Int
      /\ d.voltage \in Int /\ d.current \in Int /\ d.powerFactor \in Int /\ d.frequency \in Int
      /\ d.reactive \in Nat
  BY DEF Meter, Target, Deviation
<1>2. v \in Int /\ i \in Int /\ pf \in Int /\ f \in Int
  BY <1>1 DEF Larger, Smaller
<1> HIDE DEF v, i, pf, f
<1>3. w \in Int /\ -w \in Int
  BY <1>2, WattsType
<1>4. q \in Nat
  BY <1>1
<1>5. Measured(s, d) =
        [voltage |-> v, current |-> i, powerFactor |-> pf, frequency |-> f,
         activePower |-> IF s.solar THEN -w ELSE w, reactivePower |-> q]
  BY DEF Measured, v, i, pf, f
<1> HIDE DEF w, q
<1> QED
  BY <1>2, <1>3, <1>4, <1>5 DEF Reading

LEMMA AccruedType ==
  ASSUME NEW e \in Energy, NEW power \in Int, NEW gain \in Nat
  PROVE  Accrued(e, power, gain) \in Energy
<1> DEFINE total  == e.total + gain
           import == e.import + gain
           export == e.export + gain
<1>1. total \in Nat /\ import \in Nat /\ export \in Nat
  BY DEF Energy
<1>2. Accrued(e, power, gain) =
        IF power > 0 THEN [e EXCEPT !.import = import, !.total = total]
        ELSE IF power < 0 THEN [e EXCEPT !.export = export, !.total = total]
        ELSE e
  BY DEF Accrued
<1> HIDE DEF total, import, export
<1> QED
  BY <1>1, <1>2 DEF Energy

LEMMA UnloadedType ==
  ASSUME NEW r \in Reading
  PROVE  Unloaded(r) \in Reading
<1> DEFINE z == 0
<1>1. z \in Nat /\ z \in Int
  OBVIOUS
<1>2. Unloaded(r) = [r EXCEPT !.current = z, !.activePower = z, !.reactivePower = z]
  BY DEF Unloaded
<1> HIDE DEF z
<1>3. [r EXCEPT !.current = z, !.activePower = z, !.reactivePower = z] \in Reading
  BY <1>1 DEF Reading
<1> QED
  BY <1>2, <1>3

LEMMA StepMeterType ==
  ASSUME NEW s \in Meter, NEW d \in Deviation, NEW gain \in Nat
  PROVE  StepMeter(s, d, gain) \in Meter
<1> DEFINE r == Measured(s, d)
           e == IF s.dynamic THEN Accrued(s.energy, r.activePower, gain) ELSE s.energy
           o == Unloaded(s.reading)
<1>1. r \in Reading /\ r.activePower \in Int
  BY MeasuredType DEF Reading
<1>2. s.reading \in Reading /\ s.energy \in Energy
  BY DEF Meter
<1>3. e \in Energy /\ o \in Reading
  BY <1>1, <1>2, AccruedType, UnloadedType
<1>4. StepMeter(s, d, gain) =
        IF ~s.relay THEN [s EXCEPT !.reading = o] ELSE [s EXCEPT !.reading = r, !.energy = e]
  BY DEF StepMeter
<1> HIDE DEF r, e, o
<1>5. [s EXCEPT !.reading = o] \in Meter
  BY <1>3 DEF Meter
<1>6. [s EXCEPT !.reading = r, !.energy = e] \in Meter
  BY <1>1, <1>3 DEF Meter
<1> QED
  BY <1>4, <1>5, <1>6

-----------------------------------------------------------------------------
(* Which fields an operation changes *)

(* A request or an update keeps the counters or erases them *)
LEMMA AfterEnergy ==
  ASSUME NEW s \in Meter, NEW q \in Request, NEW reply
  PROVE  After(s, q, reply).energy \in {s.energy, Erased}
  BY RequestIsWrite, WrittenFields DEF After, Changes4

LEMMA ControlEnergy ==
  ASSUME NEW s \in Meter, NEW c
  PROVE  ControlUpdate(s, c).energy \in {s.energy, Erased}
  BY DEF ControlUpdate

LEMMA StepMeterFields ==
  ASSUME NEW s \in Meter, NEW d, NEW gain
  PROVE  LET t == StepMeter(s, d, gain)
         IN /\ t.relay = s.relay
            /\ t.station = s.station
            /\ t.energy = IF s.relay /\ s.dynamic
                          THEN Accrued(s.energy, Measured(s, d).activePower, gain)
                          ELSE s.energy
  BY DEF StepMeter, Meter

-----------------------------------------------------------------------------
(* What a command and a simulation step do to a meter's account *)

ErasedAccount(relay) == [relay |-> relay, total |-> 0, export |-> 0, import |-> 0]

LEMMA AccountCommanded ==
  ASSUME NEW s \in Meter, NEW t \in Meter, t.energy \in {s.energy, Erased}
  PROVE  \/ Account(t) = [Account(s) EXCEPT !.relay = t.relay]
         \/ Account(t) = ErasedAccount(t.relay)
<1>1. CASE t.energy = s.energy
  BY <1>1 DEF Account
<1>2. CASE t.energy = Erased
  BY <1>2 DEF Account, Erased, ErasedAccount
<1> QED
  BY <1>1, <1>2

Imported(a, gain) == [a EXCEPT !.import = @ + gain, !.total = @ + gain]
Exported(a, gain) == [a EXCEPT !.export = @ + gain, !.total = @ + gain]

(* Booking on the account is booking on the counters *)
LEMMA AccountBooks ==
  ASSUME NEW s \in Meter, NEW t \in Meter, NEW gain \in Nat, t.relay = s.relay
  PROVE  /\ t.energy = Imported(s.energy, gain) => Account(t) = Imported(Account(s), gain)
         /\ t.energy = Exported(s.energy, gain) => Account(t) = Exported(Account(s), gain)
<1> DEFINE e == s.energy
           a == Account(s)
           total  == e.total + gain
           import == e.import + gain
           export == e.export + gain
<1>1. e \in Energy
  BY DEF Meter
<1>2. a = [relay |-> s.relay, total |-> e.total, export |-> e.export, import |-> e.import]
  BY DEF Account
<1>3. /\ a.total + gain = total
      /\ a.import + gain = import
      /\ a.export + gain = export
  BY <1>2
<1>4. /\ Imported(e, gain) = [e EXCEPT !.import = import, !.total = total]
      /\ Exported(e, gain) = [e EXCEPT !.export = export, !.total = total]
  BY DEF Imported, Exported
<1>5. /\ Imported(a, gain) = [a EXCEPT !.import = import, !.total = total]
      /\ Exported(a, gain) = [a EXCEPT !.export = export, !.total = total]
  BY <1>3 DEF Imported, Exported
<1>6. Account(t) = [relay |-> s.relay, total |-> t.energy.total,
                    export |-> t.energy.export, import |-> t.energy.import]
  BY DEF Account
<1> HIDE DEF e, a, total, import, export
<1>7. /\ Imported(e, gain).total = total
      /\ Imported(e, gain).import = import
      /\ Imported(e, gain).export = e.export
  BY <1>1, <1>4 DEF Energy
<1>8. /\ Exported(e, gain).total = total
      /\ Exported(e, gain).import = e.import
      /\ Exported(e, gain).export = export
  BY <1>1, <1>4 DEF Energy
<1>9. Imported(a, gain) = [relay |-> s.relay, total |-> total,
                           export |-> e.export, import |-> import]
  BY <1>2, <1>5
<1>10. Exported(a, gain) = [relay |-> s.relay, total |-> total,
                            export |-> export, import |-> e.import]
  BY <1>2, <1>5
<1>11. ASSUME t.energy = Imported(e, gain)
       PROVE  Account(t) = Imported(a, gain)
  BY <1>6, <1>7, <1>9, <1>11
<1>12. ASSUME t.energy = Exported(e, gain)
       PROVE  Account(t) = Exported(a, gain)
  BY <1>6, <1>8, <1>10, <1>12
<1> QED
  BY <1>11, <1>12 DEF e, a

LEMMA AccrueStep ==
  ASSUME NEW s \in Meter, NEW d \in Deviation, NEW gain \in Nat
  PROVE  LET a == Account(s)
             b == Account(StepMeter(s, d, gain))
         IN b = a \/ (s.relay /\ (b = Imported(a, gain) \/ b = Exported(a, gain)))
<1> DEFINE t == StepMeter(s, d, gain)
           p == Measured(s, d).activePower
<1>1. /\ t.relay = s.relay
      /\ t.energy = IF s.relay /\ s.dynamic THEN Accrued(s.energy, p, gain) ELSE s.energy
  BY StepMeterFields
<1>2. t \in Meter
  BY StepMeterType
<1>3. Accrued(s.energy, p, gain) \in
        {Imported(s.energy, gain), Exported(s.energy, gain), s.energy}
  BY DEF Accrued, Imported, Exported
<1> HIDE DEF t, p
<1>4. \/ t.energy = s.energy
      \/ s.relay /\ t.energy = Imported(s.energy, gain)
      \/ s.relay /\ t.energy = Exported(s.energy, gain)
  BY <1>1, <1>3
<1>5. t.energy = s.energy => Account(t) = Account(s)
  BY <1>1 DEF Account
<1>6. \/ Account(t) = Account(s)
      \/ s.relay /\ Account(t) = Imported(Account(s), gain)
      \/ s.relay /\ Account(t) = Exported(Account(s), gain)
  BY <1>1, <1>2, <1>4, <1>5, AccountBooks
<1> QED
  BY <1>6 DEF t

(* Writing the same words to the same registers again changes nothing *)
LEMMA WrittenIdempotent ==
  ASSUME NEW s \in Meter, NEW start, NEW words, IsWrite(start, words)
  PROVE  Written(Written(s, start, words), start, words) = Written(s, start, words)
<1> DEFINE t == Written(s, start, words)
           u == Written(t, start, words)
<1>1. t \in Meter
  BY WrittenType
<1>2. Changes4(t, u, t.energy, t.station, t.baud, t.relay)
  <2>1. /\ t.energy = IF ErasesEnergy(start, words) THEN Erased ELSE t.energy
        /\ t.station = IF /\ Covers(start, words, RegAddressBaud)
                          /\ LegalStation(WordAt(start, words, RegAddressBaud) \div 256)
                       THEN WordAt(start, words, RegAddressBaud) \div 256 ELSE t.station
        /\ t.baud = IF /\ Covers(start, words, RegAddressBaud)
                       /\ LegalBaud(WordAt(start, words, RegAddressBaud) % 256)
                    THEN WordAt(start, words, RegAddressBaud) % 256 ELSE t.baud
        /\ t.relay = IF Covers(start, words, RegRelay)
                     THEN WordAt(start, words, RegRelay) # 0 ELSE t.relay
    BY WrittenFields DEF Changes4
  <2> HIDE DEF t
  <2> QED
    BY <1>1, <2>1, WrittenFields
<1>3. Changes4(t, t, t.energy, t.station, t.baud, t.relay)
  BY <1>1 DEF Changes4
<1> HIDE DEF t, u
<1>4. u = t
  BY <1>2, <1>3, SameChanges
<1> QED
  BY <1>4 DEF t, u

-----------------------------------------------------------------------------
(* The total is the sum of both directions *)

Balanced(e) == e.total = e.export + e.import

LEMMA AccruedBalanced ==
  ASSUME NEW e \in Energy, NEW power \in Int, NEW gain \in Nat, Balanced(e)
  PROVE  Balanced(Accrued(e, power, gain))
<1>1. e.total \in Nat /\ e.export \in Nat /\ e.import \in Nat
  BY DEF Energy
<1>2. CASE power > 0
  <2>1. /\ Accrued(e, power, gain).total = e.total + gain
        /\ Accrued(e, power, gain).import = e.import + gain
        /\ Accrued(e, power, gain).export = e.export
    BY <1>2 DEF Accrued, Energy
  <2> QED
    BY <1>1, <2>1 DEF Balanced
<1>3. CASE power < 0
  <2>1. /\ Accrued(e, power, gain).total = e.total + gain
        /\ Accrued(e, power, gain).export = e.export + gain
        /\ Accrued(e, power, gain).import = e.import
    BY <1>3 DEF Accrued, Energy
  <2> QED
    BY <1>1, <2>1 DEF Balanced
<1>4. CASE ~(power > 0) /\ ~(power < 0)
  BY <1>4 DEF Accrued
<1> QED
  BY <1>2, <1>3, <1>4

-----------------------------------------------------------------------------
(* Replies *)

LEMMA ExceptionType == \A code \in 0 .. 3 : Exception(code) \in Reply
  BY DEF Exception, Reply

LEMMA TableType ==
  ASSUME NEW s \in Meter
  PROVE  Table(s) \in [0 .. MaxRegisterAddress -> Word]
<1>1. \A n \in Int : Low(n) \in Word /\ High(n) \in Word
  <2>1. \A n \in Int : n % WordSize \in Word /\ n \div WordSize \in Int
    BY Sizes, ModuloRange, WordMember
  <2> QED
    BY <2>1 DEF Low, High
<1>2. /\ s.energy.total \in Int /\ s.energy.export \in Int /\ s.energy.import \in Int
      /\ s.reading.voltage \in Int /\ s.reading.current \in Int
      /\ s.reading.activePower \in Int /\ s.reading.reactivePower \in Int
      /\ s.reading.powerFactor \in Int /\ s.reading.frequency \in Int
  BY DEF Meter, Energy, Reading
<1>3. 256 * s.station + s.baud \in Word
  <2>1. s.station \in Byte \ {0} /\ s.baud \in 1 .. 4
    BY DEF Meter
  <2> QED
    BY <2>1, Sizes, ByteMember, WordMember
<1>4. 0 \in Word /\ 1 \in Word
  BY Sizes, WordMember
<1> QED
  BY <1>1, <1>2, <1>3, <1>4 DEF Table

LEMMA ReadHoldingRegistersType ==
  ASSUME NEW s \in Meter, NEW start \in Word, NEW count \in Word
  PROVE  ReadHoldingRegisters(s, start, count) \in Reply
<1> DEFINE regs == [i \in 1 .. count |-> Table(s)[start + i - 1]]
<1>1. start \in Int /\ 0 <= start /\ count \in Int /\ 0 <= count
  BY WordMember
<1>2. ASSUME /\ count \in 1 .. 125
             /\ ~(EndAddr(start, count) > MaxRegisterAddress)
             /\ ~(start > MaxRegisterAddress)
      PROVE  Data(regs) \in Reply
  <2>1. start <= 26 /\ 1 <= count /\ count <= 125
    BY <1>1, <1>2 DEF MaxRegisterAddress
  <2>2. EndAddr(start, count) = start + count - 1
    BY <1>1, <2>1, Sizes, ModuloSmall DEF EndAddr
  <2>3. start + count - 1 <= MaxRegisterAddress
    BY <1>1, <1>2, <2>2 DEF MaxRegisterAddress
  <2>4. \A i \in 1 .. count : start + i - 1 \in 0 .. MaxRegisterAddress
    BY <1>1, <2>1, <2>3 DEF MaxRegisterAddress
  <2>5. \A i \in 1 .. count : Table(s)[start + i - 1] \in Word
    BY <2>4, TableType
  <2>6. regs \in Seq(Word)
    BY <1>1, <2>5
  <2> QED
    BY <2>6 DEF Data, Reply
<1>3. Panic \in Reply
  BY DEF Panic, Reply
<1>4. Exception(ExpIllegalDataValue) \in Reply /\ Exception(ExpIllegalDataAddress) \in Reply
  BY ExceptionType DEF ExpIllegalDataValue, ExpIllegalDataAddress
<1> QED
  BY <1>2, <1>3, <1>4 DEF ReadHoldingRegisters

LEMMA FixedReplies ==
  /\ NoReply \in Reply /\ Ack \in Reply /\ Panic \in Reply
  /\ Exception(ExpIllegalFunction) \in Reply
  /\ Exception(ExpIllegalDataAddress) \in Reply
  /\ Exception(ExpIllegalDataValue) \in Reply
<1>1. NoReply \in Reply /\ Ack \in Reply /\ Panic \in Reply
  BY DEF NoReply, Ack, Panic, Reply
<1> QED
  BY <1>1, ExceptionType
     DEF ExpIllegalFunction, ExpIllegalDataAddress, ExpIllegalDataValue

LEMMA ReplyType ==
  ASSUME NEW s \in Meter, NEW q \in Request
  PROVE  /\ RTUReply(s, q) \in Reply
         /\ MBAPReply(s, q) \in Reply
         /\ ProcessRTUFrameSingle(s, q) \in Reply
         /\ ProcessMBAPFrame(s, q) \in Reply
<1>1. q.start \in Word /\ q.count \in Word
  BY DEF Request
<1>2. ReadReply(s, q) \in Reply
  BY <1>1, FixedReplies, ReadHoldingRegistersType DEF ReadReply
<1>3. WriteMultipleRegisters(q.start, q.count, q.byteCount) \in Reply
  BY FixedReplies DEF WriteMultipleRegisters
<1>4. RTUWriteReply(q) \in Reply /\ MBAPWriteReply(q) \in Reply
  BY <1>3, FixedReplies DEF RTUWriteReply, MBAPWriteReply
<1>5. RTUReply(s, q) \in Reply /\ MBAPReply(s, q) \in Reply
  BY <1>2, <1>4, FixedReplies DEF RTUReply, MBAPReply
<1> QED
  BY <1>5, FixedReplies DEF ProcessRTUFrameSingle, ProcessMBAPFrame

(* An acknowledgement says that the words have been written; it comes from a    *)
(* write of the same words in either transport.                                 *)
LEMMA ReplyIsNotAck ==
  ASSUME NEW s, NEW q
  PROVE  ReadReply(s, q).kind # "ack"
  BY DEF ReadReply, ReadHoldingRegisters, Exception, Panic, Data

(* The two decoders agree on every write whose data the MBAP decoder can slice: *)
(* a byte count that does not match the count is refused by the RTU decoder     *)
(* itself and by WriteMultipleRegisters for MBAP, with the same exception.      *)
LEMMA WriteRepliesAgree ==
  ASSUME NEW q \in Request, ~SliceWraps(13, q.byteCount)
  PROVE  RTUWriteReply(q) = MBAPWriteReply(q)
<1>1. /\ q.count \in Int /\ 0 <= q.count
      /\ q.byteCount \in Int /\ 0 <= q.byteCount
  BY Sizes, WordMember, ByteMember DEF Request
<1>2. ~SliceWraps(7, q.byteCount)
  BY <1>1 DEF SliceWraps
<1>3. ASSUME q.byteCount # (2 * q.count) % WordSize
      PROVE  WriteMultipleRegisters(q.start, q.count, q.byteCount)
               = Exception(ExpIllegalDataValue)
  <2>1. CASE q.count \in 1 .. 123
    <3> DEFINE double == 2 * q.count
    <3>1. double \in Int /\ 0 <= double /\ double < WordSize
      BY <1>1, <2>1, Sizes
    <3> HIDE DEF double
    <3>2. double % WordSize = double
      BY <3>1, Sizes, ModuloSmall
    <3> QED
      BY <1>3, <3>2 DEF WriteMultipleRegisters, double
  <2>2. CASE q.count \notin 1 .. 123
    BY <2>2 DEF WriteMultipleRegisters
  <2> QED
    BY <2>1, <2>2
<1> QED
  BY <1>2, <1>3 DEF RTUWriteReply, MBAPWriteReply

LEMMA TransportsGiveOneReply ==
  ASSUME NEW s \in Meter, NEW q \in Request,
         q.size >= 0, q.intact, Addresses(q, s.station), ~SliceWraps(13, q.byteCount)
  PROVE  ProcessRTUFrameSingle(s, q) = ProcessMBAPFrame(s, q)
<1>1. RTUReply(s, q) = MBAPReply(s, q)
  BY WriteRepliesAgree DEF RTUReply, MBAPReply
<1>2. ~(q.size < 0)
  BY DEF Request
<1> QED
  BY <1>1, <1>2 DEF ProcessRTUFrameSingle, ProcessMBAPFrame

-----------------------------------------------------------------------------
(* What arrives in pieces *)

LEMMA Assoc ==
  ASSUME NEW a \in Seq(Byte), NEW b \in Seq(Byte), NEW c \in Seq(Byte)
  PROVE  /\ (a \o b) \o c = a \o (b \o c)
         /\ << >> \o a = a /\ a \o << >> = a
         /\ a \o b \in Seq(Byte) /\ Len(a \o b) = Len(a) + Len(b)
  OBVIOUS

LEMMA StreamsOfPieces ==
  ASSUME NEW pieces \in Seq(Seq(Byte))
  PROVE  /\ Streams(pieces) \in [0 .. Len(pieces) -> Seq(Byte)]
         /\ Streams(pieces)[0] = << >>
         /\ \A n \in 1 .. Len(pieces) :
              Streams(pieces)[n] = Streams(pieces)[n - 1] \o pieces[n]
<1> DEFINE N == Len(pieces)
           Runs(f) == f = [n \in 0 .. N |-> IF n = 0 THEN << >> ELSE f[n - 1] \o pieces[n]]
           stream == CHOOSE f : Runs(f)
           step == [n \in 1 .. N |-> [b \in Seq(Byte) |-> b \o pieces[n]]]
<1>1. N \in Nat /\ \A n \in 1 .. N : pieces[n] \in Seq(Byte)
  OBVIOUS
<1>2. << >> \in Seq(Byte)
  OBVIOUS
<1>3. IsStep(step, N, Seq(Byte))
  <2>1. ASSUME NEW n \in 1 .. N, NEW b \in Seq(Byte)
        PROVE  step[n][b] \in Seq(Byte)
    BY <1>1, Assoc
  <2> QED
    BY <2>1 DEF IsStep
<1>4. Streams(pieces) = stream
  BY DEF Streams
<1> HIDE DEF N, step
<1>5. PICK f : IsRun(f, << >>, step, N, Seq(Byte))
  BY <1>1, <1>2, <1>3, Recursion
<1>6. /\ f \in [0 .. N -> Seq(Byte)] /\ f[0] = << >>
      /\ \A n \in 1 .. N : f[n] = step[n][f[n - 1]]
  BY <1>5 DEF IsRun
<1>7. ASSUME NEW n \in 1 .. N
      PROVE  f[n] = f[n - 1] \o pieces[n]
  <2>1. n - 1 \in 0 .. N
    BY <1>1
  <2>2. f[n - 1] \in Seq(Byte)
    BY <1>6, <2>1
  <2> QED
    BY <1>6, <2>2 DEF step
<1>8. Runs(f)
  <2>1. \A n \in 0 .. N : n = 0 \/ n \in 1 .. N
    BY <1>1
  <2>2. f = [n \in 0 .. N |-> f[n]]
    BY <1>6
  <2> QED
    BY <1>6, <1>7, <2>1, <2>2
<1>9. Runs(stream)
  BY <1>8
<1> HIDE DEF stream
<1>10. /\ DOMAIN stream = 0 .. N /\ stream[0] = << >>
       /\ \A n \in 1 .. N : stream[n] = stream[n - 1] \o pieces[n]
  <2>1. \A n \in 0 .. N : stream[n] = IF n = 0 THEN << >> ELSE stream[n - 1] \o pieces[n]
    BY <1>9
  <2>2. DOMAIN stream = 0 .. N
    BY <1>9
  <2>3. 0 \in 0 .. N /\ \A n \in 1 .. N : n \in 0 .. N /\ n # 0
    BY <1>1
  <2> QED
    BY <2>1, <2>2, <2>3
<1>11. \A n \in 0 .. N : stream[n] \in Seq(Byte)
  <2> DEFINE typed == {n \in 0 .. N : stream[n] \in Seq(Byte)}
  <2>1. 0 \in typed
    <3>1. 0 \in 0 .. N /\ stream[0] \in Seq(Byte)
      BY <1>1, <1>2, <1>10
    <3> QED
      BY <3>1
  <2>2. ASSUME NEW n \in 0 .. N - 1, n \in typed
        PROVE  n + 1 \in typed
    <3>1. n + 1 \in 1 .. N /\ n + 1 \in 0 .. N /\ (n + 1) - 1 = n /\ stream[n] \in Seq(Byte)
      BY <1>1, <2>2
    <3>2. stream[n + 1] = stream[n] \o pieces[n + 1] /\ pieces[n + 1] \in Seq(Byte)
      BY <1>1, <1>10, <3>1
    <3> QED
      BY <3>1, <3>2, Assoc, ZenonT(60)
  <2> HIDE DEF typed
  <2>3. \A n \in 0 .. N : n \in typed
    BY <1>1, <2>1, <2>2, InductionUpTo
  <2> QED
    BY <2>3 DEF typed
<1>12. stream = [n \in 0 .. N |-> stream[n]]
  BY <1>9
<1>13. stream \in [0 .. N -> Seq(Byte)]
  BY <1>11, <1>12
<1> QED
  BY <1>4, <1>10, <1>13 DEF N

(* One more piece leaves the stream before it as it was *)
LEMMA StreamsOfOneMore ==
  ASSUME NEW pieces \in Seq(Seq(Byte)), NEW bytes \in Seq(Byte)
  PROVE  LET more == Append(pieces, bytes)
         IN /\ \A n \in 0 .. Len(pieces) : Streams(more)[n] = Streams(pieces)[n]
            /\ Stream(more) = Stream(pieces) \o bytes
<1> DEFINE more == Append(pieces, bytes)
           N == Len(pieces)
           a == Streams(pieces)
           b == Streams(more)
           same == {n \in 0 .. N : b[n] = a[n]}
<1>1. /\ N \in Nat /\ more \in Seq(Seq(Byte)) /\ Len(more) = N + 1 /\ more[N + 1] = bytes
      /\ \A n \in 1 .. N : more[n] = pieces[n]
  OBVIOUS
<1>2. /\ a[0] = << >> /\ \A n \in 1 .. N : a[n] = a[n - 1] \o pieces[n]
  BY StreamsOfPieces
<1> HIDE DEF more
<1>3. /\ b[0] = << >> /\ \A n \in 1 .. N + 1 : b[n] = b[n - 1] \o more[n]
  BY <1>1, StreamsOfPieces
<1> HIDE DEF a, b, N
<1>4. 0 \in same
  BY <1>1, <1>2, <1>3
<1>5. ASSUME NEW n \in 0 .. N - 1, n \in same
      PROVE  n + 1 \in same
  <2>1. n + 1 \in 1 .. N /\ n + 1 \in 1 .. N + 1 /\ n + 1 \in 0 .. N /\ (n + 1) - 1 = n
    BY <1>1
  <2>2. b[n + 1] = b[n] \o more[n + 1] /\ a[n + 1] = a[n] \o pieces[n + 1]
    BY <1>2, <1>3, <2>1
  <2> QED
    BY <1>1, <1>5, <2>1, <2>2
<1> HIDE DEF same
<1>6. \A n \in 0 .. N : n \in same
  BY <1>1, <1>4, <1>5, InductionUpTo
<1>7. \A n \in 0 .. N : b[n] = a[n]
  BY <1>6 DEF same
<1>8. b[N + 1] = a[N] \o bytes
  <2>1. N + 1 \in 1 .. N + 1 /\ (N + 1) - 1 = N /\ N \in 0 .. N
    BY <1>1
  <2> QED
    BY <1>1, <1>3, <1>7, <2>1
<1>9. Stream(more) = b[N + 1] /\ Stream(pieces) = a[N]
  BY <1>1 DEF Stream, a, b, N
<1> QED
  BY <1>7, <1>8, <1>9 DEF a, b, more, N

(* Pieces of two sequences arrive one after the other *)
LEMMA StreamOfBoth ==
  ASSUME NEW a \in Seq(Seq(Byte)), NEW b \in Seq(Seq(Byte))
  PROVE  Stream(a \o b) = Stream(a) \o Stream(b)
<1> DEFINE m == Len(a)
           n == Len(b)
           both == a \o b
           u == Streams(a)
           v == Streams(b)
           w == Streams(both)
<1>1. /\ m \in Nat /\ n \in Nat /\ both \in Seq(Seq(Byte)) /\ Len(both) = m + n
      /\ \A k \in 1 .. m : both[k] = a[k] /\ a[k] \in Seq(Byte)
      /\ \A k \in 1 .. n : both[m + k] = b[k] /\ b[k] \in Seq(Byte)
  OBVIOUS
<1>2. /\ u \in [0 .. m -> Seq(Byte)] /\ u[0] = << >>
      /\ \A k \in 1 .. m : u[k] = u[k - 1] \o a[k]
  BY StreamsOfPieces
<1>3. /\ v \in [0 .. n -> Seq(Byte)] /\ v[0] = << >>
      /\ \A k \in 1 .. n : v[k] = v[k - 1] \o b[k]
  BY StreamsOfPieces
<1> HIDE DEF both
<1>4. /\ w \in [0 .. m + n -> Seq(Byte)] /\ w[0] = << >>
      /\ \A k \in 1 .. m + n : w[k] = w[k - 1] \o both[k]
  BY <1>1, StreamsOfPieces
<1>5. Stream(a) = u[m] /\ Stream(b) = v[n] /\ Stream(both) = w[m + n]
  BY <1>1 DEF Stream
<1> HIDE DEF m, n, u, v, w
<1> DEFINE same == {k \in 0 .. m : w[k] = u[k]}
           after == {k \in 0 .. n : w[m + k] = u[m] \o v[k]}
<1>6. 0 \in same
  BY <1>1, <1>2, <1>4
<1>7. ASSUME NEW k \in 0 .. m - 1, k \in same
      PROVE  k + 1 \in same
  <2>1. k + 1 \in 1 .. m /\ k + 1 \in 1 .. m + n /\ k + 1 \in 0 .. m /\ (k + 1) - 1 = k
    BY <1>1
  <2>2. w[k + 1] = w[k] \o both[k + 1] /\ u[k + 1] = u[k] \o a[k + 1]
    BY <1>2, <1>4, <2>1
  <2> QED
    BY <1>1, <1>7, <2>1, <2>2
<1> HIDE DEF same
<1>8. \A k \in 0 .. m : k \in same
  BY <1>1, <1>6, <1>7, InductionUpTo
<1>9. w[m] = u[m] /\ u[m] \in Seq(Byte)
  <2>1. m \in 0 .. m
    BY <1>1
  <2> QED
    BY <1>2, <1>8, <2>1 DEF same
<1>10. 0 \in after
  <2>1. m + 0 = m /\ 0 \in 0 .. n
    BY <1>1
  <2>2. u[m] \o << >> = u[m]
    BY <1>9, Assoc
  <2> QED
    BY <1>3, <1>9, <2>1, <2>2
<1>11. ASSUME NEW k \in 0 .. n - 1, k \in after
       PROVE  k + 1 \in after
  <2>1. /\ k + 1 \in 1 .. n /\ m + (k + 1) \in 1 .. m + n /\ k + 1 \in 0 .. n /\ k \in 0 .. n
        /\ (k + 1) - 1 = k /\ (m + (k + 1)) - 1 = m + k
    BY <1>1
  <2>2. w[m + (k + 1)] = w[m + k] \o b[k + 1] /\ v[k + 1] = v[k] \o b[k + 1]
    <3>1. \A x \in 1 .. m + n : w[x] = w[x - 1] \o both[x]
      BY <1>4
    <3>2. w[m + (k + 1)] = w[(m + (k + 1)) - 1] \o both[m + (k + 1)]
      BY <2>1, <3>1
    <3>3. both[m + (k + 1)] = b[k + 1]
      BY <1>1, <2>1
    <3>4. v[k + 1] = v[k] \o b[k + 1]
      BY <1>3, <2>1
    <3> QED
      BY <2>1, <3>2, <3>3, <3>4
  <2>3. v[k] \in Seq(Byte) /\ b[k + 1] \in Seq(Byte) /\ w[m + k] = u[m] \o v[k]
    BY <1>1, <1>3, <1>11, <2>1
  <2>4. (u[m] \o v[k]) \o b[k + 1] = u[m] \o (v[k] \o b[k + 1])
    <3> DEFINE x == u[m]
               y == v[k]
               z == b[k + 1]
    <3>1. x \in Seq(Byte) /\ y \in Seq(Byte) /\ z \in Seq(Byte)
      BY <1>9, <2>3
    <3> HIDE DEF x, y, z
    <3>2. (x \o y) \o z = x \o (y \o z)
      BY <3>1, Assoc, SMTT(60)
    <3> QED
      BY <3>2 DEF x, y, z
  <2>5. w[m + (k + 1)] = u[m] \o v[k + 1]
    BY <2>2, <2>3, <2>4
  <2> QED
    BY <2>1, <2>5
<1> HIDE DEF after
<1>12. \A k \in 0 .. n : k \in after
  BY <1>1, <1>10, <1>11, InductionUpTo
<1>13. w[m + n] = u[m] \o v[n]
  <2>1. n \in 0 .. n
    BY <1>1
  <2> QED
    BY <1>12, <2>1 DEF after
<1> QED
  BY <1>5, <1>13 DEF both
=============================================================================
