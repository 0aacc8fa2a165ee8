--------------------------- MODULE RTUServerProofs ----------------------------
(* What holds of the RTU server for any ports, baud rates and traffic on the    *)
(* line: the status tells which port is open (Inv), a master that waits has its *)
(* whole frame in the buffer (Whole), what is served was sent (Traced), and the *)
(* checksum of any data is the remainder of a division.                         *)
EXTENDS RTUServer, FramesProofs, SequenceTheorems, InductionLemmas

-----------------------------------------------------------------------------
(* The status.  IsSeqOfPorts says of the ports what the status needs, and no    *)
(* more.                                                                        *)

Fields == {"name", "baud", "open", "cancelled", "failing", "inbox", "frame", "pc"}

IsSeqOfPorts(ps) ==
  /\ Len(ps) \in Nat /\ DOMAIN ps = 1 .. Len(ps)
  /\ ps = [p \in 1 .. Len(ps) |-> ps[p]]
  /\ \A p \in 1 .. Len(ps) : DOMAIN ps[p] = Fields

ServerTyped == server \in [connected : BOOLEAN, port : Nat, name : Names \cup {NoName}, baud : Nat]

Inv == ServerTyped /\ IsSeqOfPorts(ports) /\ StatusTellsPort

(* A step that opens, closes and renames nothing *)
PortsKept ==
  /\ IsSeqOfPorts(ports') /\ Len(ports') = Len(ports)
  /\ \A p \in 1 .. Len(ports) : /\ ports'[p].open = ports[p].open
                                /\ ports'[p].name = ports[p].name
                                /\ ports'[p].baud = ports[p].baud

LEMMA KeptStep ==
  ASSUME Inv, PortsKept, server' = server
  PROVE  Inv'
<1>1. DOMAIN ports' = DOMAIN ports /\ DOMAIN ports = 1 .. Len(ports)
  BY DEF Inv, PortsKept, IsSeqOfPorts
<1>2. {p \in DOMAIN ports' : ports'[p].open} = {p \in DOMAIN ports : ports[p].open}
  BY <1>1 DEF PortsKept
<1>3. ASSUME server.connected
      PROVE  /\ ports'[server.port].name = server.name
             /\ ports'[server.port].baud = server.baud
  <2>1. server.port \in 1 .. Len(ports)
    BY <1>1, <1>3 DEF Inv, StatusTellsPort
  <2> QED
    BY <1>3, <2>1 DEF Inv, StatusTellsPort, PortsKept
<1>4. StatusTellsPort'
  BY <1>2, <1>3 DEF Inv, StatusTellsPort
<1> QED
  BY <1>4 DEF Inv, ServerTyped, PortsKept

LEMMA OnePortKept ==
  ASSUME IsSeqOfPorts(ports), NEW p \in DOMAIN ports, NEW x, DOMAIN x = Fields,
         x.open = ports[p].open, x.name = ports[p].name, x.baud = ports[p].baud,
         ports' = [ports EXCEPT ![p] = x]
  PROVE  PortsKept
<1> DEFINE n == Len(ports)
<1>1. n \in Nat /\ DOMAIN ports = 1 .. n /\ p \in 1 .. n
  BY DEF IsSeqOfPorts
<1>2. /\ ports' = [q \in 1 .. n |-> IF q = p THEN x ELSE ports[q]]
  BY <1>1 DEF IsSeqOfPorts
<1> HIDE DEF n
<1>3. Len(ports') = n /\ DOMAIN ports' = 1 .. n
  BY <1>1, <1>2
<1>4. ports' = [q \in 1 .. n |-> ports'[q]]
  BY <1>2
<1>5. \A q \in 1 .. n : DOMAIN ports[q] = Fields
  BY DEF IsSeqOfPorts, n
<1>6. \A q \in 1 .. n : DOMAIN ports'[q] = Fields
  BY <1>2, <1>5
<1>7. IsSeqOfPorts(ports')
  BY <1>1, <1>3, <1>4, <1>6 DEF IsSeqOfPorts
<1>8. \A q \in 1 .. n : /\ ports'[q].open = ports[q].open
                        /\ ports'[q].name = ports[q].name
                        /\ ports'[q].baud = ports[q].baud
  BY <1>2
<1> QED
  BY <1>3, <1>7, <1>8 DEF PortsKept, n

(* With the connected port closed, none is open *)
LEMMA ClosedIsQuiet ==
  ASSUME Inv
  PROVE  /\ IsSeqOfPorts(Closed) /\ Len(Closed) = Len(ports)
         /\ \A p \in DOMAIN Closed : ~Closed[p].open
<1> DEFINE n == Len(ports)
           c == Closed
<1>1. /\ n \in Nat /\ DOMAIN ports = 1 .. n
      /\ \A p \in 1 .. n : DOMAIN ports[p] = Fields
  BY DEF Inv, IsSeqOfPorts
<1>2. c = [p \in 1 .. n |->
             IF p = server.port THEN [ports[p] EXCEPT !.open = FALSE, !.cancelled = TRUE]
             ELSE ports[p]]
  BY <1>1 DEF Closed
<1>3. ASSUME NEW p \in 1 .. n
      PROVE  DOMAIN c[p] = Fields /\ ~c[p].open
  <2>1. CASE p = server.port
    <3> DEFINE x == ports[p]
    <3>1. DOMAIN x = Fields
      BY <1>1
    <3>2. c[p] = [x EXCEPT !.open = FALSE, !.cancelled = TRUE]
      BY <1>2, <2>1
    <3> HIDE DEF x
    <3> QED
      BY <3>1, <3>2 DEF Fields
  <2>2. CASE p # server.port
    <3>1. c[p] = ports[p]
      BY <1>2, <2>2
    <3>2. ~ports[p].open
      BY <1>1, <2>2 DEF Inv, StatusTellsPort
    <3> QED
      BY <1>1, <3>1, <3>2
  <2> QED
    BY <2>1, <2>2
<1>4. c = [p \in 1 .. n |-> c[p]]
  BY <1>1 DEF Closed
<1> HIDE DEF n, c
<1>5. Len(c) = n /\ DOMAIN c = 1 .. n
  BY <1>1, <1>4
<1>6. IsSeqOfPorts(c)
  BY <1>1, <1>3, <1>4, <1>5 DEF IsSeqOfPorts
<1> QED
  BY <1>3, <1>5, <1>6 DEF n, c

LEMMA CloseStep ==
  ASSUME Inv, ports' = Closed,
         server' = [server EXCEPT !.connected = FALSE, !.port = Nil]
  PROVE  Inv'
<1>1. IsSeqOfPorts(ports') /\ \A p \in DOMAIN ports' : ~ports'[p].open
  BY ClosedIsQuiet
<1>2. ServerTyped' /\ ~server'.connected
  BY DEF Inv, ServerTyped, Nil
<1>3. StatusTellsPort'
  BY <1>1, <1>2 DEF StatusTellsPort
<1> QED
  BY <1>1, <1>2, <1>3 DEF Inv

LEMMA OpenStep ==
  ASSUME Inv, NEW name \in Names, NEW baud \in Bauds, Open(name, baud)
  PROVE  Inv'
<1> DEFINE c == Closed
           n == Len(ports)
           rate == IF baud = 0 THEN 9600 ELSE baud
           x == NewPort(name, rate)
<1>1. /\ n \in Nat /\ Len(c) = n /\ DOMAIN c = 1 .. n
      /\ c = [p \in 1 .. n |-> c[p]]
      /\ \A p \in 1 .. n : DOMAIN c[p] = Fields /\ ~c[p].open
  BY ClosedIsQuiet DEF Inv, IsSeqOfPorts
<1>2. DOMAIN x = Fields /\ x.open /\ x.name = name /\ x.baud = rate
  BY DEF NewPort, Fields
<1>3. /\ ports' = Append(c, x)
      /\ server' = [connected |-> TRUE, port |-> n + 1, name |-> name, baud |-> rate]
  BY DEF Open
<1>4. rate \in Nat
  BY LineAssumption
<1> HIDE DEF c, n, rate, x
<1>5. c \in Seq({c[p] : p \in 1 .. n} \cup {x})
  BY <1>1
<1>6. /\ Len(ports') = n + 1 /\ DOMAIN ports' = 1 .. n + 1
      /\ \A p \in 1 .. n : ports'[p] = c[p]
      /\ ports'[n + 1] = x
      /\ ports' = [p \in 1 .. n + 1 |-> ports'[p]]
  BY <1>1, <1>3, <1>5
<1>7. \A p \in 1 .. n + 1 : p \in 1 .. n \/ p = n + 1
  BY <1>1
<1>8. \A p \in 1 .. n + 1 : DOMAIN ports'[p] = Fields
  BY <1>1, <1>2, <1>6, <1>7
<1>9. IsSeqOfPorts(ports')
  BY <1>1, <1>6, <1>8 DEF IsSeqOfPorts
<1>10. ServerTyped'
  BY <1>1, <1>3, <1>4 DEF ServerTyped
<1>11. StatusTellsPort'
  <2>1. {p \in DOMAIN ports' : ports'[p].open} = {n + 1}
    BY <1>1, <1>2, <1>6, <1>7
  <2>2. /\ server'.connected /\ server'.port = n + 1
        /\ server'.name = name /\ server'.baud = rate
    BY <1>3
  <2>3. ports'[n + 1].name = name /\ ports'[n + 1].baud = rate
    BY <1>2, <1>6
  <2> QED
    BY <2>1, <2>2, <2>3 DEF StatusTellsPort
<1> QED
  BY <1>9, <1>10, <1>11 DEF Inv

(* What changes of a port while it is used: all but what Connect sets *)
LEMMA UsedStep ==
  ASSUME Inv, NEW p \in DOMAIN ports, NEW x, server' = server,
         DOMAIN x = DOMAIN ports[p], x.open = ports[p].open,
         x.name = ports[p].name, x.baud = ports[p].baud,
         ports' = [ports EXCEPT ![p] = x]
  PROVE  Inv'
<1>1. IsSeqOfPorts(ports) /\ DOMAIN x = Fields
  BY DEF Inv, IsSeqOfPorts
<1> QED
  BY <1>1, OnePortKept, KeptStep

LEMMA FieldsOfPort ==
  ASSUME Inv, NEW p \in DOMAIN ports
  PROVE  DOMAIN ports[p] = Fields
  BY DEF Inv, IsSeqOfPorts

LEMMA PcStep ==
  ASSUME Inv, NEW p \in DOMAIN ports, NEW pc, server' = server,
         ports' = [ports EXCEPT ![p].pc = pc]
  PROVE  Inv'
<1> DEFINE w == ports[p]
           x == [w EXCEPT !.pc = pc]
<1>1. DOMAIN w = Fields
  BY FieldsOfPort
<1>2. ports' = [ports EXCEPT ![p] = x]
  OBVIOUS
<1> HIDE DEF w
<1>3. DOMAIN x = DOMAIN w /\ x.open = w.open /\ x.name = w.name /\ x.baud = w.baud
  BY <1>1 DEF Fields
<1> HIDE DEF x
<1> QED
  BY <1>2, <1>3, UsedStep DEF w

LEMMA FrameStep ==
  ASSUME Inv, NEW p \in DOMAIN ports, NEW pc, NEW frame, server' = server,
         ports' = [ports EXCEPT ![p].pc = pc, ![p].frame = frame]
  PROVE  Inv'
<1> DEFINE w == ports[p]
           x == [w EXCEPT !.pc = pc, !.frame = frame]
<1>1. DOMAIN w = Fields
  BY FieldsOfPort
<1>2. ports' = [ports EXCEPT ![p] = x]
  BY DEF Inv, IsSeqOfPorts
<1> HIDE DEF w
<1>3. DOMAIN x = DOMAIN w /\ x.open = w.open /\ x.name = w.name /\ x.baud = w.baud
  BY <1>1 DEF Fields
<1> HIDE DEF x
<1> QED
  BY <1>2, <1>3, UsedStep DEF w

LEMMA InboxStep ==
  ASSUME Inv, NEW p \in DOMAIN ports, NEW inbox, server' = server,
         ports' = [ports EXCEPT ![p].inbox = inbox]
  PROVE  Inv'
<1> DEFINE w == ports[p]
           x == [w EXCEPT !.inbox = inbox]
<1>1. DOMAIN w = Fields
  BY FieldsOfPort
<1>2. ports' = [ports EXCEPT ![p] = x]
  OBVIOUS
<1> HIDE DEF w
<1>3. DOMAIN x = DOMAIN w /\ x.open = w.open /\ x.name = w.name /\ x.baud = w.baud
  BY <1>1 DEF Fields
<1> HIDE DEF x
<1> QED
  BY <1>2, <1>3, UsedStep DEF w

LEMMA ReadLoopStep ==
  ASSUME Inv, NEW p \in DOMAIN ports, ReadLoop(p)
  PROVE  Inv'
<1>1. CASE CheckContext(p)
  BY <1>1, PcStep DEF CheckContext
<1>2. CASE Read(p)
  <2> DEFINE w == ports[p]
             f == w.frame \o w.inbox
             x == [w EXCEPT !.pc = "more", !.inbox = << >>, !.frame = f]
  <2>1. DOMAIN w = Fields
    BY FieldsOfPort
  <2>2. ports' = [ports EXCEPT ![p] = x] /\ server' = server
    BY <1>2 DEF Read, Inv, IsSeqOfPorts
  <2> HIDE DEF w, f
  <2>3. DOMAIN x = DOMAIN w /\ x.open = w.open /\ x.name = w.name /\ x.baud = w.baud
    BY <2>1 DEF Fields
  <2> HIDE DEF x
  <2> QED
    BY <2>2, <2>3, UsedStep DEF w
<1>3. CASE ReadNothing(p)
  BY <1>3, PcStep DEF ReadNothing
<1>4. CASE Serve(p)
  <2>1. server' = server
    BY <1>4 DEF Serve
  <2>2. \/ ports' = [ports EXCEPT ![p].pc = "check", ![p].frame = << >>]
        \/ ports' = [ports EXCEPT ![p].pc = "reply"]
    BY <1>4 DEF Serve
  <2> QED
    BY <2>1, <2>2, PcStep, FrameStep
<1>5. CASE WriteAnswer(p)
  BY <1>5, FrameStep DEF WriteAnswer
<1> QED
  BY <1>1, <1>2, <1>3, <1>4, <1>5 DEF ReadLoop

LEMMA UnplugStep ==
  ASSUME Inv, NEW p \in DOMAIN ports, Unplug(p)
  PROVE  Inv'
<1> DEFINE w == ports[p]
           x == [w EXCEPT !.failing = TRUE]
<1>1. DOMAIN w = Fields
  BY FieldsOfPort
<1>2. ports' = [ports EXCEPT ![p] = x] /\ server' = server
  BY DEF Unplug
<1> HIDE DEF w
<1>3. DOMAIN x = DOMAIN w /\ x.open = w.open /\ x.name = w.name /\ x.baud = w.baud
  BY <1>1 DEF Fields
<1> HIDE DEF x
<1> QED
  BY <1>2, <1>3, UsedStep DEF w

LEMMA SendStep ==
  ASSUME Inv, NEW p \in DOMAIN ports, NEW m \in Messages, Send(p, m)
  PROVE  Inv'
<1>1. PICK line : ports' = [ports EXCEPT ![p].inbox = @ \o SubSeq(line, 1, m.pause)]
  BY DEF Send
<1>2. server' = server
  BY DEF Send
<1> QED
  BY <1>1, <1>2, InboxStep

LEMMA SendRestStep ==
  ASSUME Inv, SendRest
  PROVE  Inv'
<1> DEFINE n == Len(ports)
<1>1. /\ n \in Nat /\ DOMAIN ports = 1 .. n
      /\ \A p \in 1 .. n : DOMAIN ports[p] = Fields
  BY DEF Inv, IsSeqOfPorts
<1>2. /\ ports' = [p \in 1 .. n |-> IF Usable(p) THEN [ports[p] EXCEPT !.inbox = @ \o rest]
                                     ELSE ports[p]]
      /\ server' = server
  BY <1>1 DEF SendRest
<1>3. ASSUME NEW p \in 1 .. n
      PROVE  /\ DOMAIN ports'[p] = Fields /\ ports'[p].open = ports[p].open
             /\ ports'[p].name = ports[p].name /\ ports'[p].baud = ports[p].baud
  <2> DEFINE w == ports[p]
             i == w.inbox \o rest
  <2>1. ports'[p] = w \/ ports'[p] = [w EXCEPT !.inbox = i]
    BY <1>2
  <2>2. DOMAIN w = Fields
    BY <1>1
  <2> HIDE DEF w, i
  <2>3. /\ DOMAIN ports'[p] = Fields /\ ports'[p].open = w.open
        /\ ports'[p].name = w.name /\ ports'[p].baud = w.baud
    BY <2>1, <2>2 DEF Fields
  <2> QED
    BY <2>3 DEF w
<1>4. Len(ports') = n /\ DOMAIN ports' = 1 .. n /\ ports' = [p \in 1 .. n |-> ports'[p]]
  BY <1>1, <1>2
<1> HIDE DEF n
<1>5. IsSeqOfPorts(ports')
  BY <1>1, <1>3, <1>4 DEF IsSeqOfPorts
<1>6. PortsKept
  BY <1>3, <1>4, <1>5 DEF PortsKept, n
<1> QED
  BY <1>2, <1>6, KeptStep

LEMMA InitHolds == Init => Inv
<1> SUFFICES ASSUME Init
    PROVE  Inv
  OBVIOUS
<1>1. ports = << >> /\ server = [connected |-> FALSE, port |-> Nil, name |-> NoName, baud |-> 9600]
  BY DEF Init
<1>2. ServerTyped
  BY <1>1 DEF ServerTyped, Nil
<1>3. IsSeqOfPorts(ports)
  BY <1>1 DEF IsSeqOfPorts
<1>4. StatusTellsPort
  BY <1>1 DEF StatusTellsPort
<1> QED
  BY <1>2, <1>3, <1>4 DEF Inv

LEMMA StepHolds == Inv /\ [Next]_vars => Inv'
<1> SUFFICES ASSUME Inv, [Next]_vars
    PROVE  Inv'
  OBVIOUS
<1>1. ASSUME NEW name \in Names, NEW baud \in Bauds, Connect(name, baud)
      PROVE  Inv'
  BY <1>1, OpenStep, CloseStep DEF Connect, FailToOpen
<1>2. CASE Disconnect
  BY <1>2, CloseStep DEF Disconnect
<1>3. ASSUME NEW p \in DOMAIN ports, Unplug(p)
      PROVE  Inv'
  BY <1>3, UnplugStep
<1>4. ASSUME NEW p \in DOMAIN ports, ReadLoop(p)
      PROVE  Inv'
  BY <1>4, ReadLoopStep
<1>5. ASSUME NEW p \in DOMAIN ports, NEW m \in Messages, Send(p, m)
      PROVE  Inv'
  BY <1>5, SendStep
<1>6. CASE SendRest
  BY <1>6, SendRestStep
<1>7. CASE UNCHANGED vars
  BY <1>7 DEF vars, Inv, ServerTyped, StatusTellsPort
<1> QED
  BY <1>1, <1>2, <1>3, <1>4, <1>5, <1>6, <1>7 DEF Next

(* However often ports are connected and disconnected, fail to open or are      *)
(* unplugged: at most one port is open, and the status names it.                *)
THEOREM StatusIsThePort == Spec => []StatusTellsPort
<1>1. Inv => StatusTellsPort
  BY DEF Inv
<1> QED
  BY <1>1, InitHolds, StepHolds, PTL DEF Spec

-----------------------------------------------------------------------------
(* The checksum: the loops of CalculateCRC16 as sequences of registers *)

LEMMA XorMember == \A r, s, i : i \in Xor(r, s) <=> ~(i \in r <=> i \in s)
  BY DEF Xor

LEMMA BitsInByte == \A b : BitsOf(b) \subseteq 0 .. 7
  BY DEF BitsOf

LEMMA Shifted ==
  ASSUME NEW r \in Register
  PROVE  /\ ShiftOut[r] \in Register
         /\ \A i \in Int : i \in ShiftOut[r] <=>
              /\ i \in 0 .. 15
              /\ ~(i + 1 \in r <=> 0 \in r /\ i \in Polynomial)
<1>1. ShiftRight(r) \in Register /\ Polynomial \in Register
  BY DEF Register, ShiftRight, Polynomial
<1>2. \A i \in 0 .. 15 : i \in ShiftRight(r) <=> i + 1 \in r
  <2>1. ASSUME NEW i \in 0 .. 15, i \in ShiftRight(r)
        PROVE  i + 1 \in r
    BY <2>1 DEF ShiftRight, Register
  <2>2. ASSUME NEW i \in 0 .. 15, i + 1 \in r
        PROVE  i \in ShiftRight(r)
    <3>1. i + 1 \in r \ {0} /\ (i + 1) - 1 = i
      BY <2>2
    <3> QED
      BY <3>1 DEF ShiftRight
  <2> QED
    BY <2>1, <2>2
<1>3. ShiftOut[r] = IF 0 \in r THEN Xor(ShiftRight(r), Polynomial) ELSE ShiftRight(r)
  BY DEF ShiftOut
<1>4. ShiftOut[r] \in Register
  BY <1>1, <1>3 DEF Xor, Register
<1>5. ASSUME NEW i \in Int
      PROVE  i \in ShiftOut[r] <=>
              /\ i \in 0 .. 15
              /\ ~(i + 1 \in r <=> 0 \in r /\ i \in Polynomial)
  <2>1. i \in ShiftOut[r] => i \in 0 .. 15
    BY <1>4 DEF Register
  <2>2. CASE i \in 0 .. 15 /\ 0 \in r
    BY <1>2, <1>3, <2>2, XorMember
  <2>3. CASE i \in 0 .. 15 /\ 0 \notin r
    BY <1>2, <1>3, <2>3
  <2> QED
    BY <2>1, <2>2, <2>3
<1> QED
  BY <1>4, <1>5

(* The register through the inner loop *)
LEMMA BitLoopRuns ==
  ASSUME NEW mixed \in Register
  PROVE  \E after \in [0 .. 8 -> Register] :
           /\ after[0] = mixed /\ after[8] = BitLoop(mixed)
           /\ \A i \in 1 .. 8 : after[i] = ShiftOut[after[i - 1]]
<1> DEFINE Runs(f) == f = [i \in 0 .. 8 |-> IF i = 0 THEN mixed ELSE ShiftOut[f[i - 1]]]
           step == [i \in 1 .. 8 |-> ShiftOut]
           after == CHOOSE f : Runs(f)
<1>1. IsStep(step, 8, Register)
  BY Shifted DEF IsStep
<1>2. PICK f : IsRun(f, mixed, step, 8, Register)
  <2> HIDE DEF step
  <2> QED
    BY <1>1, Recursion
<1>3. Runs(f)
  <2>1. \A i \in 0 .. 8 : f[i] = IF i = 0 THEN mixed ELSE ShiftOut[f[i - 1]]
    BY <1>2, SMTT(60) DEF IsRun
  <2> QED
    BY <1>2, <2>1 DEF IsRun
<1>4. Runs(after)
  BY <1>3
<1>5. BitLoop(mixed) = after[8]
  BY DEF BitLoop
<1> HIDE DEF after
<1>6. \A i \in 0 .. 8 : after[i] = IF i = 0 THEN mixed ELSE ShiftOut[after[i - 1]]
  BY <1>4
<1>7. \A i \in 0 .. 8 : after[i] \in Register
  <2> DEFINE typed == {i \in 0 .. 8 : after[i] \in Register}
  <2>1. 0 \in typed
    BY <1>6
  <2>2. ASSUME NEW i \in 0 .. 7, i \in typed
        PROVE  i + 1 \in typed
    <3>1. after[i + 1] = ShiftOut[after[i]]
      BY <1>6
    <3> QED
      BY <2>2, <3>1, Shifted
  <2> HIDE DEF typed
  <2>3. \A i \in 0 .. 8 : i \in typed
    BY <2>1, <2>2, InductionUpTo
  <2> QED
    BY <2>3 DEF typed
<1>8. after \in [0 .. 8 -> Register]
  BY <1>4, <1>7
<1> QED
  BY <1>5, <1>6, <1>8

LEMMA MixInTyped ==
  ASSUME NEW b, NEW r \in Register
  PROVE  /\ Xor(r, BitsOf(b)) \in Register /\ BitLoop(Xor(r, BitsOf(b))) \in Register
         /\ MixIn(b)[r] = BitLoop(Xor(r, BitsOf(b)))
<1>1. Xor(r, BitsOf(b)) \in Register
  <2>1. BitsOf(b) \in Register
    BY BitsInByte DEF Register
  <2> QED
    BY <2>1 DEF Xor, Register
<1>2. PICK after \in [0 .. 8 -> Register] : after[8] = BitLoop(Xor(r, BitsOf(b)))
  BY <1>1, BitLoopRuns
<1>3. BitLoop(Xor(r, BitsOf(b))) \in Register
  BY <1>2
<1> QED
  BY <1>1, <1>3 DEF MixIn

(* The register through the outer loop *)
LEMMA CRCRuns ==
  ASSUME NEW data \in Seq(Byte)
  PROVE  \E crc \in [0 .. Len(data) -> Register] :
           /\ crc[0] = 0 .. 15 /\ crc[Len(data)] = CalculateCRC16(data)
           /\ \A k \in 1 .. Len(data) : crc[k] = BitLoop(Xor(crc[k - 1], BitsOf(data[k])))
<1> DEFINE n == Len(data)
           ones == 0 .. 15
           Runs(f) == f = [k \in 0 .. n |-> IF k = 0 THEN ones ELSE MixIn(data[k])[f[k - 1]]]
           step == [k \in 1 .. n |-> MixIn(data[k])]
           crc == CHOOSE f : Runs(f)
<1>1. n \in Nat /\ ones \in Register
  BY DEF Register
<1>2. IsStep(step, n, Register)
  BY MixInTyped DEF IsStep
<1>3. PICK f : IsRun(f, ones, step, n, Register)
  <2> HIDE DEF step, n, ones
  <2> QED
    BY <1>1, <1>2, Recursion
<1>4. Runs(f)
  <2>1. \A k \in 0 .. n : f[k] = IF k = 0 THEN ones ELSE MixIn(data[k])[f[k - 1]]
    BY <1>1, <1>3, SMTT(60) DEF IsRun
  <2> QED
    BY <1>3, <2>1 DEF IsRun
<1>5. Runs(crc)
  BY <1>4
<1>6. CalculateCRC16(data) = crc[n]
  BY DEF CalculateCRC16
<1> HIDE DEF crc, n
<1>7. \A k \in 0 .. n : crc[k] = IF k = 0 THEN ones ELSE MixIn(data[k])[crc[k - 1]]
  BY <1>5
<1>8. \A k \in 0 .. n : crc[k] \in Register
  <2> DEFINE typed == {k \in 0 .. n : crc[k] \in Register}
  <2>1. 0 \in typed
    BY <1>1, <1>7
  <2>2. ASSUME NEW k \in 0 .. n - 1, k \in typed
        PROVE  k + 1 \in typed
    <3>1. k + 1 \in 0 .. n /\ k + 1 # 0 /\ (k + 1) - 1 = k /\ crc[k] \in Register
      BY <1>1, <2>2
    <3>2. crc[k + 1] = MixIn(data[k + 1])[crc[k]]
      BY <1>7, <3>1
    <3> QED
      BY <3>1, <3>2, MixInTyped
  <2> HIDE DEF typed
  <2>3. \A k \in 0 .. n : k \in typed
    BY <1>1, <2>1, <2>2, InductionUpTo
  <2> QED
    BY <2>3 DEF typed
<1>9. crc \in [0 .. n -> Register]
  BY <1>5, <1>8
<1>10. ASSUME NEW k \in 1 .. n
       PROVE  crc[k] = BitLoop(Xor(crc[k - 1], BitsOf(data[k])))
  <2>1. k \in 0 .. n /\ k # 0 /\ k - 1 \in 0 .. n
    BY <1>1
  <2> QED
    BY <1>7, <1>8, <2>1, MixInTyped
<1>11. crc[0] = 0 .. 15
  BY <1>1, <1>7
<1>12. /\ crc \in [0 .. Len(data) -> Register] /\ crc[Len(data)] = CalculateCRC16(data)
       /\ \A k \in 1 .. Len(data) : crc[k] = BitLoop(Xor(crc[k - 1], BitsOf(data[k])))
  BY <1>6, <1>9, <1>10 DEF n
<1> QED
  BY <1>11, <1>12

-----------------------------------------------------------------------------
(* The division, step by step *)

(* The coefficients that the data gives, in the order of transmission *)
Ones(data) == {j \in 0 .. 8 * Len(data) - 1 : j % 8 \in BitsOf(data[j \div 8 + 1])}

LEMMA DividendMember ==
  ASSUME NEW data \in Seq(Byte), NEW n, n = 8 * Len(data)
  PROVE  /\ n \in Nat /\ Dividend(data) \in SUBSET (0 .. n + 15)
         /\ \A x \in 0 .. n + 15 :
              x \in Dividend(data) <=> ~(n + 15 - x \in Ones(data) <=> x \in n .. n + 15)
<1> DEFINE some == {n + 15 - k : k \in Ones(data)}
           first == n .. n + 15
<1>1. n \in Nat /\ Dividend(data) = Xor(some, first)
  BY DEF Dividend, Ones
<1>2. Ones(data) \subseteq 0 .. n - 1
  BY DEF Ones
<1>3. some \subseteq 0 .. n + 15 /\ first \subseteq 0 .. n + 15
  BY <1>1, <1>2
<1>4. ASSUME NEW x \in 0 .. n + 15
      PROVE  x \in some <=> n + 15 - x \in Ones(data)
  <2>1. n + 15 - x \in Ones(data) => x \in some
    <3>1. n + 15 - (n + 15 - x) = x
      BY <1>1
    <3> QED
      BY <3>1
  <2>2. x \in some => n + 15 - x \in Ones(data)
    <3>1. ASSUME NEW k \in Ones(data), x = n + 15 - k
          PROVE  n + 15 - x = k
      BY <1>1, <1>2, <3>1, SMTT(60)
    <3> QED
      BY <3>1
  <2> QED
    BY <2>1, <2>2
<1> HIDE DEF some, first
<1>5. Dividend(data) \in SUBSET (0 .. n + 15)
  BY <1>1, <1>3 DEF Xor
<1>6. \A x \in 0 .. n + 15 :
        x \in Dividend(data) <=> ~(n + 15 - x \in Ones(data) <=> x \in n .. n + 15)
  BY <1>1, <1>4, XorMember DEF first
<1> QED
  BY <1>1, <1>5, <1>6

LEMMA ReduceMember ==
  ASSUME NEW n \in Nat, NEW k \in 1 .. n, NEW d \in SUBSET (0 .. n + 15)
  PROVE  LET e == n + 16 - k
         IN /\ Reduce(n, k)[d] \in SUBSET (0 .. n + 15)
            /\ \A x : x \in Reduce(n, k)[d] <=>
                 ~(x \in d <=> e \in d /\ x \in {e, e - 1, e - 14, e - 16})
<1> DEFINE e == n + 16 - k
           taken == {e, e - 1, e - 14, e - 16}
<1>1. Reduce(n, k)[d] = IF e \in d THEN Xor(d, taken) ELSE d
  BY DEF Reduce
<1>2. taken \subseteq 0 .. n + 15
  OBVIOUS
<1> HIDE DEF e, taken
<1>3. Reduce(n, k)[d] \in SUBSET (0 .. n + 15)
  BY <1>1, <1>2 DEF Xor
<1>4. \A x : x \in Reduce(n, k)[d] <=> ~(x \in d <=> e \in d /\ x \in taken)
  BY <1>1, XorMember
<1> QED
  BY <1>3, <1>4 DEF e, taken

LEMMA RemainderRuns ==
  ASSUME NEW data \in Seq(Byte), NEW n, n = 8 * Len(data)
  PROVE  \E left : /\ \A k \in 0 .. n : left[k] \in SUBSET (0 .. n + 15)
                   /\ left[0] = Dividend(data)
                   /\ Remainder(data) = {15 - i : i \in left[n]}
                   /\ \A k \in 1 .. n : left[k] = Reduce(n, k)[left[k - 1]]
<1> DEFINE Runs(f) ==
             f = [k \in 0 .. n |-> IF k = 0 THEN Dividend(data) ELSE Reduce(n, k)[f[k - 1]]]
           step == [k \in 1 .. n |-> Reduce(n, k)]
           Polynomials == SUBSET (0 .. n + 15)
           start == Dividend(data)
           left == CHOOSE f : Runs(f)
<1>1. n \in Nat /\ start \in Polynomials
  BY DividendMember
<1>2. IsStep(step, n, Polynomials)
  BY <1>1, ReduceMember DEF IsStep
<1>3. PICK f : IsRun(f, start, step, n, Polynomials)
  <2> HIDE DEF step, start, Polynomials
  <2> QED
    BY <1>1, <1>2, Recursion
<1>4. Runs(f)
  <2>1. \A k \in 0 .. n : f[k] = IF k = 0 THEN Dividend(data) ELSE Reduce(n, k)[f[k - 1]]
    BY <1>1, <1>3 DEF IsRun
  <2> QED
    BY <1>3, <2>1 DEF IsRun
<1>5. Runs(left)
  BY <1>4
<1>6. Remainder(data) = {15 - i : i \in left[n]}
  BY DEF Remainder
<1> HIDE DEF left, Polynomials, start
<1>7. \A k \in 0 .. n : left[k] = IF k = 0 THEN start ELSE Reduce(n, k)[left[k - 1]]
  BY <1>5 DEF start
<1>8. \A k \in 0 .. n : left[k] \in Polynomials
  <2> DEFINE typed == {k \in 0 .. n : left[k] \in Polynomials}
  <2>1. 0 \in typed
    BY <1>1, <1>7
  <2>2. ASSUME NEW k \in 0 .. n - 1, k \in typed
        PROVE  k + 1 \in typed
    <3>1. /\ k + 1 \in 1 .. n /\ k + 1 \in 0 .. n /\ k + 1 # 0 /\ (k + 1) - 1 = k
          /\ left[k] \in Polynomials
      BY <1>1, <2>2
    <3>2. left[k + 1] = Reduce(n, k + 1)[left[k]]
      BY <1>7, <3>1
    <3>3. left[k + 1] \in Polynomials
      BY <1>1, <3>1, <3>2, ReduceMember DEF Polynomials
    <3> QED
      BY <3>1, <3>3
  <2> HIDE DEF typed
  <2>3. \A k \in 0 .. n : k \in typed
    BY <1>1, <2>1, <2>2, InductionUpTo
  <2> QED
    BY <2>3 DEF typed
<1>9. left[0] = Dividend(data) /\ \A k \in 1 .. n : left[k] = Reduce(n, k)[left[k - 1]]
  BY <1>1, <1>7 DEF start
<1> QED
  BY <1>6, <1>8, <1>9 DEF Polynomials

-----------------------------------------------------------------------------
(* Both side by side.  After m steps of the division, what is left of the       *)
(* dividend is the register r, its bit 0 at exponent n + 15 - m, and of the     *)
(* data the coefficients that were not mixed into the register, from the        *)
(* unmixed-th on.                                                               *)
Agree(data, n, left, m, r, unmixed) ==
  \A x \in 0 .. n + 15 :
    x \in left <=> ~(n + 15 - m - x \in r <=> n + 15 - x \in Ones(data) /\ n + 15 - x >= unmixed)

(* One bit: the highest exponent is taken away exactly when bit 0 is shifted out *)
LEMMA BitStep ==
  ASSUME NEW data \in Seq(Byte), NEW n, n = 8 * Len(data), NEW m \in 0 .. n - 1,
         NEW left \in SUBSET (0 .. n + 15), NEW r \in Register,
         NEW unmixed \in Nat, m < unmixed, Agree(data, n, left, m, r, unmixed)
  PROVE  Agree(data, n, Reduce(n, m + 1)[left], m + 1, ShiftOut[r], unmixed)
<1> DEFINE e == n + 15 - m
           next == Reduce(n, m + 1)[left]
           Late(x) == n + 15 - x \in Ones(data) /\ n + 15 - x >= unmixed
<1>1. n \in Nat /\ m + 1 \in 1 .. n /\ e = n + 16 - (m + 1) /\ e \in 16 .. n + 15
  BY DividendMember
<1>2. e \in left <=> 0 \in r
  <2>1. n + 15 - m - e = 0 /\ ~Late(e)
    BY <1>1
  <2>2. e \in 0 .. n + 15
    BY <1>1
  <2> QED
    BY <2>1, <2>2 DEF Agree
<1>3. \A x : x \in next <=> ~(x \in left <=> e \in left /\ x \in {e, e - 1, e - 14, e - 16})
  BY <1>1, ReduceMember
<1>4. ASSUME NEW x \in 0 .. n + 15
      PROVE  x \in next <=> ~(n + 15 - (m + 1) - x \in ShiftOut[r] <=> Late(x))
  <2> DEFINE j == e - x
  <2>1. j \in Int /\ n + 15 - m - x = j /\ n + 15 - (m + 1) - x = j - 1
    BY <1>1
  <2>2. x \in {e, e - 1, e - 14, e - 16} <=> j \in {0, 1, 14, 16}
    BY <1>1
  <2>3. x \in left <=> ~(j \in r <=> Late(x))
    BY <2>1 DEF Agree
  <2> HIDE DEF j, Late
  <2>4. x \in next <=> ~((j \in r <=> Late(x)) <=> ~(0 \in r /\ j \in {0, 1, 14, 16}))
    BY <1>2, <1>3, <2>2, <2>3
  <2>5. j - 1 \in ShiftOut[r] <=> j - 1 \in 0 .. 15 /\ ~(j \in r <=> 0 \in r /\ j - 1 \in {0, 13, 15})
    <3> DEFINE i == j - 1
    <3>1. i \in Int /\ i + 1 = j
      BY <2>1
    <3> HIDE DEF i
    <3>2. i \in ShiftOut[r] <=> i \in 0 .. 15 /\ ~(i + 1 \in r <=> 0 \in r /\ i \in Polynomial)
      BY <3>1, Shifted
    <3>3. i \in ShiftOut[r] <=> i \in 0 .. 15 /\ ~(j \in r <=> 0 \in r /\ i \in {0, 13, 15})
      BY <3>1, <3>2 DEF Polynomial
    <3> QED
      BY <3>3 DEF i
  <2>6. j \in r => j \in 0 .. 15
    BY DEF Register
  <2>7. j - 1 \in ShiftOut[r] <=> ~(j \in r <=> 0 \in r /\ j \in {0, 1, 14, 16})
    <3>1. CASE j \in 1 .. 16
      <4>1. j - 1 \in 0 .. 15 /\ (j - 1 \in {0, 13, 15} <=> j \in {0, 1, 14, 16})
        BY <2>1, <3>1
      <4> QED
        BY <2>5, <4>1
    <3>2. CASE j = 0
      BY <2>5, <3>2
    <3>3. CASE ~(j \in 0 .. 16)
      BY <2>1, <2>5, <2>6, <3>3
    <3> QED
      BY <2>1, <3>1, <3>2, <3>3
  <2> QED
    BY <2>1, <2>4, <2>7
<1> HIDE DEF next
<1> QED
  BY <1>4 DEF Agree, next

(* Mixing a byte into the register takes its coefficients out of the data *)
LEMMA MixStep ==
  ASSUME NEW data \in Seq(Byte), NEW n, n = 8 * Len(data), NEW k \in 0 .. Len(data) - 1,
         NEW left, NEW r \in Register, Agree(data, n, left, 8 * k, r, 8 * k)
  PROVE  Agree(data, n, left, 8 * k, Xor(r, BitsOf(data[k + 1])), 8 * k + 8)
<1> DEFINE bits == BitsOf(data[k + 1])
           m == 8 * k
<1>1. n \in Nat /\ k \in Nat /\ m \in Nat /\ m + 8 <= n
  BY DividendMember
<1>2. bits \subseteq 0 .. 7
  BY BitsInByte
<1>3. ASSUME NEW t \in Int
      PROVE  ~(t - m \in bits <=> t \in Ones(data) /\ t >= m + 8) <=> t \in Ones(data) /\ t >= m
  <2>1. CASE t \in m .. m + 7
    <3>1. t % 8 = t - m /\ t \div 8 + 1 = k + 1 /\ t \in 0 .. 8 * Len(data) - 1
      BY <1>1, <2>1
    <3>2. t \in Ones(data) <=> t - m \in bits
      BY <3>1 DEF Ones
    <3> QED
      BY <1>1, <2>1, <3>2
  <2>2. CASE ~(t \in m .. m + 7)
    <3>1. t - m \notin bits /\ (t >= m + 8 <=> t >= m)
      BY <1>1, <1>2, <2>2
    <3> QED
      BY <3>1
  <2> QED
    BY <2>1, <2>2
<1>4. ASSUME NEW x \in 0 .. n + 15
      PROVE  x \in left <=> ~(n + 15 - m - x \in Xor(r, bits)
                              <=> n + 15 - x \in Ones(data) /\ n + 15 - x >= m + 8)
  <2> DEFINE t == n + 15 - x
  <2>1. t \in Int /\ n + 15 - m - x = t - m
    BY <1>1
  <2>2. x \in left <=> ~(t - m \in r <=> t \in Ones(data) /\ t >= m)
    BY <2>1 DEF Agree
  <2> HIDE DEF t, m, bits
  <2>3. x \in left <=> ~(t - m \in Xor(r, bits) <=> t \in Ones(data) /\ t >= m + 8)
    BY <1>3, <2>1, <2>2, XorMember
  <2> QED
    BY <2>1, <2>3 DEF t
<1> QED
  BY <1>4 DEF Agree

(* One byte *)
LEMMA ByteStep ==
  ASSUME NEW data \in Seq(Byte), NEW n, n = 8 * Len(data), NEW k \in 0 .. Len(data) - 1,
         NEW left, \A m \in 0 .. n : left[m] \in SUBSET (0 .. n + 15),
         \A m \in 1 .. n : left[m] = Reduce(n, m)[left[m - 1]],
         NEW r \in Register, Agree(data, n, left[8 * k], 8 * k, r, 8 * k)
  PROVE  Agree(data, n, left[8 * (k + 1)], 8 * (k + 1),
               BitLoop(Xor(r, BitsOf(data[k + 1]))), 8 * (k + 1))
<1> DEFINE mixed == Xor(r, BitsOf(data[k + 1]))
           m == 8 * k
           Good(i, a) == Agree(data, n, left[m + i], m + i, a, m + 8)
<1>1. n \in Nat /\ m \in Nat /\ m + 8 <= n /\ m + 0 = m /\ 8 * (k + 1) = m + 8
  BY DividendMember
<1>2. mixed \in Register
  BY MixInTyped
<1>3. PICK after \in [0 .. 8 -> Register] :
        /\ after[0] = mixed /\ after[8] = BitLoop(mixed)
        /\ \A i \in 1 .. 8 : after[i] = ShiftOut[after[i - 1]]
  BY <1>2, BitLoopRuns
<1>4. Good(0, after[0])
  <2>1. Agree(data, n, left[m], m, mixed, m + 8)
    BY MixStep
  <2> QED
    BY <1>1, <1>3, <2>1
<1>5. ASSUME NEW i \in 0 .. 8 - 1, Good(i, after[i])
      PROVE  Good(i + 1, after[i + 1])
  <2> HIDE DEF m, mixed
  <2>1. /\ m + i \in 0 .. n - 1 /\ m + 8 \in Nat /\ m + i < m + 8
        /\ m + (i + 1) = (m + i) + 1 /\ (m + i) + 1 \in 1 .. n /\ ((m + i) + 1) - 1 = m + i
        /\ i \in 0 .. 8 /\ i + 1 \in 1 .. 8 /\ (i + 1) - 1 = i
    <3>1. i \in Int /\ 0 <= i /\ i <= 7 /\ n \in Int /\ m \in Int /\ 0 <= m
      BY <1>1
    <3>2. i \in 0 .. 8 /\ i + 1 \in 1 .. 8 /\ (i + 1) - 1 = i
      BY <3>1
    <3>3. m + 8 \in Nat /\ m + i < m + 8 /\ m + (i + 1) = (m + i) + 1 /\ ((m + i) + 1) - 1 = m + i
      BY <3>1
    <3>4. m + i \in 0 .. n - 1 /\ (m + i) + 1 \in 1 .. n
      BY <1>1, <3>1
    <3> QED
      BY <3>2, <3>3, <3>4
  <2>2. after[i + 1] = ShiftOut[after[i]] /\ after[i] \in Register
    BY <1>3, <2>1
  <2>3. left[(m + i) + 1] = Reduce(n, (m + i) + 1)[left[m + i]] /\ left[m + i] \in SUBSET (0 .. n + 15)
    BY <1>1, <2>1, SMTT(60)
  <2>4. Agree(data, n, Reduce(n, (m + i) + 1)[left[m + i]], (m + i) + 1, ShiftOut[after[i]], m + 8)
    BY <1>5, <2>1, <2>2, <2>3, BitStep
  <2> QED
    BY <2>1, <2>2, <2>3, <2>4
<1>6. Good(8, after[8])
  <2> DEFINE good == {i \in 0 .. 8 : Good(i, after[i])}
  <2> HIDE DEF Good, m, mixed
  <2>1. 0 \in good /\ \A i \in 0 .. 8 - 1 : i \in good => i + 1 \in good
    BY <1>4, <1>5
  <2> HIDE DEF good
  <2>2. 8 \in Nat /\ 8 \in 0 .. 8
    OBVIOUS
  <2>3. \A i \in 0 .. 8 : i \in good
    BY <2>1, <2>2, InductionUpTo
  <2> QED
    BY <2>2, <2>3 DEF good
<1> QED
  BY <1>1, <1>3, <1>6

(* Modbus's checksum of any data is the remainder of its division by the        *)
(* polynomial.                                                                  *)
LEMMA ChecksumDivides ==
  ASSUME NEW data \in Seq(Byte)
  PROVE  CalculateCRC16(data) = Remainder(data)
<1> DEFINE len == Len(data)
           n == 8 * len
<1>1. len \in Nat /\ n \in Nat /\ n = 8 * Len(data)
  OBVIOUS
<1>2. PICK crc \in [0 .. len -> Register] :
        /\ crc[0] = 0 .. 15 /\ crc[len] = CalculateCRC16(data)
        /\ \A k \in 1 .. len : crc[k] = BitLoop(Xor(crc[k - 1], BitsOf(data[k])))
  BY CRCRuns
<1> HIDE DEF n
<1>3. PICK left : /\ \A k \in 0 .. n : left[k] \in SUBSET (0 .. n + 15)
                  /\ left[0] = Dividend(data)
                  /\ Remainder(data) = {15 - i : i \in left[n]}
                  /\ \A k \in 1 .. n : left[k] = Reduce(n, k)[left[k - 1]]
  BY <1>1, RemainderRuns
<1> DEFINE Good(k) == Agree(data, n, left[8 * k], 8 * k, crc[k], 8 * k)
           good == {k \in 0 .. len : Good(k)}
<1>4. Good(0)
  <2>1. ASSUME NEW x \in 0 .. n + 15
        PROVE  x \in left[0] <=> ~(n + 15 - 0 - x \in crc[0]
                                   <=> n + 15 - x \in Ones(data) /\ n + 15 - x >= 0)
    <3>1. n \in Nat
      BY <1>1
    <3>2. (n + 15 - 0 - x \in 0 .. 15 <=> x \in n .. n + 15) /\ n + 15 - x >= 0
      BY <3>1
    <3>3. x \in Dividend(data) <=> ~(n + 15 - x \in Ones(data) <=> x \in n .. n + 15)
      BY <1>1, DividendMember
    <3> QED
      BY <1>2, <1>3, <3>2, <3>3
  <2>2. 8 * 0 = 0
    OBVIOUS
  <2> QED
    BY <2>1, <2>2 DEF Agree
<1>5. ASSUME NEW k \in 0 .. len - 1, Good(k)
      PROVE  Good(k + 1)
  <2>1. /\ k + 1 \in 1 .. len /\ (k + 1) - 1 = k /\ k \in 0 .. len /\ crc[k] \in Register
        /\ k \in 0 .. Len(data) - 1
    BY <1>1, <1>2
  <2>2. crc[k + 1] = BitLoop(Xor(crc[k], BitsOf(data[k + 1])))
    BY <1>2, <2>1
  <2> QED
    BY <1>1, <1>3, <1>5, <2>1, <2>2, ByteStep
<1>6. Good(len)
  <2> HIDE DEF Good, len
  <2>1. 0 \in good /\ \A k \in 0 .. len - 1 : k \in good => k + 1 \in good
    BY <1>1, <1>4, <1>5
  <2> HIDE DEF good
  <2>2. \A k \in 0 .. len : k \in good
    BY <1>1, <2>1, InductionUpTo
  <2> QED
    BY <1>1, <2>2 DEF good
<1>7. \A x \in 0 .. n + 15 : x \in left[n] <=> 15 - x \in crc[len]
  <2>1. ASSUME NEW x \in 0 .. n + 15
        PROVE  ~(n + 15 - x \in Ones(data) /\ n + 15 - x >= n) /\ n + 15 - n - x = 15 - x
    BY <1>1 DEF Ones
  <2>2. 8 * len = n
    BY DEF n
  <2> QED
    BY <1>6, <2>1, <2>2 DEF Agree
<1>8. left[n] \subseteq 0 .. n + 15 /\ crc[len] \subseteq 0 .. 15
  <2>1. n \in 0 .. n /\ len \in 0 .. len
    BY <1>1
  <2>2. left[n] \in SUBSET (0 .. n + 15) /\ crc[len] \in Register
    BY <1>2, <1>3, <2>1
  <2> QED
    BY <2>2 DEF Register
<1>9. {15 - i : i \in left[n]} = crc[len]
  <2>1. ASSUME NEW i \in left[n]
        PROVE  15 - i \in crc[len]
    BY <1>7, <1>8
  <2>2. ASSUME NEW b \in crc[len]
        PROVE  \E i \in left[n] : 15 - i = b
    <3>1. b \in 0 .. 15 /\ 15 - b \in 0 .. n + 15 /\ 15 - (15 - b) = b
      BY <1>1, <1>8, SMTT(60)
    <3> QED
      BY <1>7, <3>1
  <2> QED
    BY <2>1, <2>2
<1> QED
  BY <1>2, <1>3, <1>9

-----------------------------------------------------------------------------
(* Bytes and their bits *)

LEMMA ByteOfTyped == \A r : ByteOf(r) \in 0 .. 255
<1> SUFFICES ASSUME NEW r PROVE ByteOf(r) \in 0 .. 255
  OBVIOUS
<1> DEFINE bit(i, v) == IF i \in r THEN v ELSE 0
<1>1. ByteOf(r) = bit(0, 1) + bit(1, 2) + bit(2, 4) + bit(3, 8)
                    + bit(4, 16) + bit(5, 32) + bit(6, 64) + bit(7, 128)
  <2>1. 2^0 = 1 /\ 2^1 = 2 /\ 2^2 = 4 /\ 2^3 = 8 /\ 2^4 = 16 /\ 2^5 = 32 /\ 2^6 = 64 /\ 2^7 = 128
    OBVIOUS
  <2> QED
    BY <2>1 DEF ByteOf
<1>2. \A i, v \in Nat : bit(i, v) \in Int /\ 0 <= bit(i, v) /\ bit(i, v) <= v
  OBVIOUS
<1> HIDE DEF bit
<1>3. /\ bit(0, 1) \in Int /\ 0 <= bit(0, 1) /\ bit(0, 1) <= 1
      /\ bit(1, 2) \in Int /\ 0 <= bit(1, 2) /\ bit(1, 2) <= 2
      /\ bit(2, 4) \in Int /\ 0 <= bit(2, 4) /\ bit(2, 4) <= 4
      /\ bit(3, 8) \in Int /\ 0 <= bit(3, 8) /\ bit(3, 8) <= 8
      /\ bit(4, 16) \in Int /\ 0 <= bit(4, 16) /\ bit(4, 16) <= 16
      /\ bit(5, 32) \in Int /\ 0 <= bit(5, 32) /\ bit(5, 32) <= 32
      /\ bit(6, 64) \in Int /\ 0 <= bit(6, 64) /\ bit(6, 64) <= 64
      /\ bit(7, 128) \in Int /\ 0 <= bit(7, 128) /\ bit(7, 128) <= 128
  BY <1>2
<1>4. ByteOf(r) \in Int /\ 0 <= ByteOf(r) /\ ByteOf(r) <= 255
  BY <1>1, <1>3
<1> QED
  BY <1>4

(* The bits of the byte of some bits are those below 8 *)
LEMMA ByteOfBits ==
  ASSUME NEW v \in 0 .. 255
  PROVE  ByteOf(BitsOf(v)) = v
<1> DEFINE bit(i) == (v \div 2^i) % 2
<1>1. 2^0 = 1 /\ 2^1 = 2 /\ 2^2 = 4 /\ 2^3 = 8 /\ 2^4 = 16 /\ 2^5 = 32 /\ 2^6 = 64 /\ 2^7 = 128
  OBVIOUS
<1>2. \A i \in 0 .. 7 : i \in BitsOf(v) <=> bit(i) = 1
  BY DEF BitsOf
<1>3. /\ 0 \in BitsOf(v) <=> (v \div 1) % 2 = 1
      /\ 1 \in BitsOf(v) <=> (v \div 2) % 2 = 1
      /\ 2 \in BitsOf(v) <=> (v \div 4) % 2 = 1
      /\ 3 \in BitsOf(v) <=> (v \div 8) % 2 = 1
      /\ 4 \in BitsOf(v) <=> (v \div 16) % 2 = 1
      /\ 5 \in BitsOf(v) <=> (v \div 32) % 2 = 1
      /\ 6 \in BitsOf(v) <=> (v \div 64) % 2 = 1
      /\ 7 \in BitsOf(v) <=> (v \div 128) % 2 = 1
  BY <1>1, <1>2
<1> DEFINE at(i, w) == IF i \in BitsOf(v) THEN w ELSE 0
<1>4. ByteOf(BitsOf(v)) = at(0, 1) + at(1, 2) + at(2, 4) + at(3, 8)
                            + at(4, 16) + at(5, 32) + at(6, 64) + at(7, 128)
  BY <1>1 DEF ByteOf
<1>5. /\ at(0, 1) = (v \div 1) % 2        /\ at(1, 2) = 2 * ((v \div 2) % 2)
      /\ at(2, 4) = 4 * ((v \div 4) % 2)  /\ at(3, 8) = 8 * ((v \div 8) % 2)
      /\ at(4, 16) = 16 * ((v \div 16) % 2) /\ at(5, 32) = 32 * ((v \div 32) % 2)
      /\ at(6, 64) = 64 * ((v \div 64) % 2) /\ at(7, 128) = 128 * ((v \div 128) % 2)
  BY <1>3
<1>6. v = ((v \div 1) % 2) + (2 * ((v \div 2) % 2)) + (4 * ((v \div 4) % 2)) + (8 * ((v \div 8) % 2))
            + (16 * ((v \div 16) % 2)) + (32 * ((v \div 32) % 2)) + (64 * ((v \div 64) % 2))
            + (128 * ((v \div 128) % 2))
  OBVIOUS
<1> HIDE DEF at
<1> QED
  BY <1>4, <1>5, <1>6

(* An even and an odd number differ *)
LEMMA Halves ==
  ASSUME NEW a \in {0, 1}, NEW b \in {0, 1}, NEW h \in Int, NEW k \in Int, a + 2 * h = b + 2 * k
  PROVE  a = b /\ h = k
  OBVIOUS

(* A byte, bit by bit from the lowest *)
LEMMA ByteByHalves ==
  ASSUME NEW r
  PROVE  \E h \in [0 .. 8 -> Int] :
           /\ ByteOf(r) = h[0] /\ h[8] = 0
           /\ \A i \in 0 .. 7 : h[i] = (IF i \in r THEN 1 ELSE 0) + 2 * h[i + 1]
<1> DEFINE p(i) == IF i \in r THEN 1 ELSE 0
           h7 == p(7)
           h6 == p(6) + 2 * h7
           h5 == p(5) + 2 * h6
           h4 == p(4) + 2 * h5
           h3 == p(3) + 2 * h4
           h2 == p(2) + 2 * h3
           h1 == p(1) + 2 * h2
           h0 == p(0) + 2 * h1
           h == [i \in 0 .. 8 |-> CASE i = 0 -> h0 [] i = 1 -> h1 [] i = 2 -> h2 [] i = 3 -> h3
                                    [] i = 4 -> h4 [] i = 5 -> h5 [] i = 6 -> h6 [] i = 7 -> h7
                                    [] OTHER -> 0]
<1>1. ByteOf(r) = h0
  <2>1. 2^0 = 1 /\ 2^1 = 2 /\ 2^2 = 4 /\ 2^3 = 8 /\ 2^4 = 16 /\ 2^5 = 32 /\ 2^6 = 64 /\ 2^7 = 128
    OBVIOUS
  <2>2. ByteOf(r) = p(0) + 2 * p(1) + 4 * p(2) + 8 * p(3) + 16 * p(4) + 32 * p(5) + 64 * p(6)
                      + 128 * p(7)
    BY <2>1 DEF ByteOf
  <2>3. \A i \in 0 .. 7 : p(i) \in Int
    OBVIOUS
  <2> HIDE DEF p
  <2> QED
    BY <2>2, <2>3
<1>2. \A i \in 0 .. 7 : p(i) \in Int
  OBVIOUS
<1> HIDE DEF p
<1>3. /\ h7 \in Int /\ h6 \in Int /\ h5 \in Int /\ h4 \in Int
      /\ h3 \in Int /\ h2 \in Int /\ h1 \in Int /\ h0 \in Int
  BY <1>2
<1>4. h7 = p(7) + 2 * 0
  BY <1>2
<1>5. /\ h0 = p(0) + 2 * h1 /\ h1 = p(1) + 2 * h2 /\ h2 = p(2) + 2 * h3 /\ h3 = p(3) + 2 * h4
      /\ h4 = p(4) + 2 * h5 /\ h5 = p(5) + 2 * h6 /\ h6 = p(6) + 2 * h7
  OBVIOUS
<1> HIDE DEF h0, h1, h2, h3, h4, h5, h6, h7
<1>6. /\ h[0] = h0 /\ h[1] = h1 /\ h[2] = h2 /\ h[3] = h3 /\ h[4] = h4 /\ h[5] = h5
      /\ h[6] = h6 /\ h[7] = h7 /\ h[8] = 0
  OBVIOUS
<1>7. h \in [0 .. 8 -> Int]
  BY <1>3
<1> HIDE DEF h
<1>8. ASSUME NEW i \in 0 .. 7
      PROVE  h[i] = p(i) + 2 * h[i + 1]
  <2>1. i \in {0, 1, 2, 3, 4, 5, 6, 7}
    OBVIOUS
  <2> QED
    BY <1>4, <1>5, <1>6, <2>1
<1> QED
  BY <1>1, <1>6, <1>7, <1>8 DEF p

(* Bytes of the same value have the same bits *)
LEMMA SameBits ==
  ASSUME NEW r, NEW t, ByteOf(r) = ByteOf(t)
  PROVE  \A i \in 0 .. 7 : i \in r <=> i \in t
<1>1. PICK g \in [0 .. 8 -> Int] :
        /\ ByteOf(r) = g[0] /\ g[8] = 0
        /\ \A i \in 0 .. 7 : g[i] = (IF i \in r THEN 1 ELSE 0) + 2 * g[i + 1]
  BY ByteByHalves
<1>2. PICK h \in [0 .. 8 -> Int] :
        /\ ByteOf(t) = h[0] /\ h[8] = 0
        /\ \A i \in 0 .. 7 : h[i] = (IF i \in t THEN 1 ELSE 0) + 2 * h[i + 1]
  BY ByteByHalves
<1>3. ASSUME NEW i \in 0 .. 7, g[i] = h[i]
      PROVE  (i \in r <=> i \in t) /\ g[i + 1] = h[i + 1]
  <2> DEFINE a == IF i \in r THEN 1 ELSE 0
             b == IF i \in t THEN 1 ELSE 0
             x == g[i + 1]
             y == h[i + 1]
  <2>1. a \in {0, 1} /\ b \in {0, 1} /\ x \in Int /\ y \in Int
    OBVIOUS
  <2>2. a + 2 * x = b + 2 * y
    BY <1>1, <1>2, <1>3
  <2> HIDE DEF a, b, x, y
  <2>3. a = b /\ x = y
    BY <2>1, <2>2, Halves
  <2> QED
    BY <2>3 DEF a, b, x, y
<1>4. \A i \in 0 .. 8 : g[i] = h[i]
  <2> DEFINE same == {i \in 0 .. 8 : g[i] = h[i]}
  <2>1. 0 \in same
    <3>1. g[0] = ByteOf(r) /\ h[0] = ByteOf(t)
      BY <1>1, <1>2
    <3> QED
      BY <3>1
  <2>2. ASSUME NEW i \in 0 .. 8 - 1, i \in same
        PROVE  i + 1 \in same
    <3>1. i \in 0 .. 7 /\ i + 1 \in 0 .. 8
      OBVIOUS
    <3> QED
      BY <1>3, <2>2, <3>1
  <2> HIDE DEF same
  <2>3. 8 \in Nat
    OBVIOUS
  <2>4. \A i \in 0 .. 8 : i \in same
    BY <2>1, <2>2, <2>3, InductionUpTo
  <2> QED
    BY <2>4 DEF same
<1> QED
  BY <1>3, <1>4

(* and the other way round *)
LEMMA BitsOfByte ==
  ASSUME NEW r
  PROVE  BitsOf(ByteOf(r)) = r \cap (0 .. 7)
<1>1. ByteOf(BitsOf(ByteOf(r))) = ByteOf(r)
  BY ByteOfTyped, ByteOfBits
<1>2. \A i \in 0 .. 7 : i \in BitsOf(ByteOf(r)) <=> i \in r
  BY <1>1, SameBits
<1> QED
  BY <1>2, BitsInByte

LEMMA ChecksumTyped ==
  ASSUME NEW data \in Seq(Byte)
  PROVE  CalculateCRC16(data) \in Register
<1>1. PICK crc \in [0 .. Len(data) -> Register] : crc[Len(data)] = CalculateCRC16(data)
  BY CRCRuns
<1>2. Len(data) \in 0 .. Len(data)
  OBVIOUS
<1> QED
  BY <1>1, <1>2

(* What AppendCRC appends, CheckCRC accepts: every answer of either server and  *)
(* every request of the built-in reader passes the receiver's test.             *)
THEOREM AppendedIsAccepted ==
  \A data \in Seq(Byte) : data # << >> => CheckCRC(AppendCRC(data))
<1> SUFFICES ASSUME NEW data \in Seq(Byte), data # << >>
             PROVE  CheckCRC(AppendCRC(data))
  OBVIOUS
<1> DEFINE r == CalculateCRC16(data)
           low == ByteOf(r)
           high == ByteOf({i - 8 : i \in r})
           frame == data \o <<low, high>>
           n == Len(data)
<1>1. r \in Register /\ n \in Nat \ {0}
  BY ChecksumTyped
<1>2. low \in Byte /\ high \in Byte /\ AppendCRC(data) = frame
  <2>1. \A v \in 0 .. 255 : v \in Byte
    BY Sizes, ByteMember
  <2> QED
    BY <2>1, ByteOfTyped DEF AppendCRC
<1>3. BitsOf(low) \cup {8 + i : i \in BitsOf(high)} = r
  <2>1. BitsOf(low) = r \cap (0 .. 7)
    BY BitsOfByte
  <2>2. BitsOf(high) = {i - 8 : i \in r} \cap (0 .. 7)
    BY BitsOfByte
  <2>3. r \subseteq 0 .. 15
    BY <1>1 DEF Register
  <2> HIDE DEF r, low, high
  <2>4. \A i \in BitsOf(high) : 8 + i \in r
    BY <2>2, <2>3
  <2>5. ASSUME NEW i \in r, i > 7
        PROVE  \E j \in BitsOf(high) : 8 + j = i
    <3>1. i - 8 \in BitsOf(high) /\ 8 + (i - 8) = i
      BY <2>2, <2>3, <2>5
    <3> QED
      BY <3>1
  <2> DEFINE upper == {8 + i : i \in BitsOf(high)}
  <2>6. upper \subseteq r /\ \A i \in r : i > 7 => i \in upper
    BY <2>4, <2>5
  <2>7. \A i \in r : i > 7 \/ i \in 0 .. 7
    BY <2>3
  <2> HIDE DEF upper
  <2>8. BitsOf(low) \cup upper = r
    BY <2>1, <2>6, <2>7
  <2> QED
    BY <2>8 DEF upper
<1> HIDE DEF r, low, high
<1>4. /\ Len(frame) = n + 2 /\ frame[n + 1] = low /\ frame[n + 2] = high
      /\ SubSeq(frame, 1, n) = data
  <2>1. <<low, high>> \in Seq(Byte) /\ Len(<<low, high>>) = 2
    BY <1>2
  <2>2. /\ frame \in Seq(Byte) /\ Len(frame) = n + 2
        /\ \A i \in 1 .. n : frame[i] = data[i]
        /\ frame[n + 1] = low /\ frame[n + 2] = high
    BY <1>1, <2>1
  <2> HIDE DEF frame
  <2>3. /\ SubSeq(frame, 1, n) \in Seq(Byte) /\ Len(SubSeq(frame, 1, n)) = n
        /\ \A i \in 1 .. n : SubSeq(frame, 1, n)[i] = frame[i]
    BY <1>1, <2>2
  <2> QED
    BY <2>2, <2>3, SeqEqual
<1> HIDE DEF frame
<1>5. Len(frame) >= 3 /\ Len(frame) - 2 = n /\ Len(frame) - 1 = n + 1
  BY <1>1, <1>4
<1>6. CheckCRC(frame)
  BY <1>3, <1>4, <1>5 DEF CheckCRC, r
<1> QED
  BY <1>2, <1>6

-----------------------------------------------------------------------------
(* What the checksum notices.  Each step of the register can be undone, so two  *)
(* registers that differ stay different while the same bytes are mixed in.      *)

LEMMA ShiftOutTellsApart ==
  ASSUME NEW r \in Register, NEW s \in Register, ShiftOut[r] = ShiftOut[s]
  PROVE  r = s
<1>1. /\ \A i \in Int : i \in ShiftOut[r] <=> i \in 0 .. 15 /\ ~(i + 1 \in r <=> 0 \in r /\ i \in Polynomial)
      /\ \A i \in Int : i \in ShiftOut[s] <=> i \in 0 .. 15 /\ ~(i + 1 \in s <=> 0 \in s /\ i \in Polynomial)
  BY Shifted
<1>2. r \subseteq 0 .. 15 /\ s \subseteq 0 .. 15
  BY DEF Register
<1>3. 0 \in r <=> 0 \in s
  <2>1. 15 + 1 \notin r /\ 15 + 1 \notin s /\ 15 \in Polynomial /\ 15 \in 0 .. 15
    BY <1>2 DEF Polynomial
  <2> QED
    BY <1>1, <2>1
<1>4. ASSUME NEW i \in 0 .. 14
      PROVE  i + 1 \in r <=> i + 1 \in s
  BY <1>1, <1>3
<1>5. ASSUME NEW i \in 0 .. 15
      PROVE  i \in r <=> i \in s
  <2>1. i = 0 \/ (i - 1 \in 0 .. 14 /\ (i - 1) + 1 = i)
    OBVIOUS
  <2> QED
    BY <1>3, <1>4, <2>1
<1> QED
  BY <1>2, <1>5

LEMMA BitLoopTellsApart ==
  ASSUME NEW r \in Register, NEW s \in Register, BitLoop(r) = BitLoop(s)
  PROVE  r = s
<1>1. PICK f \in [0 .. 8 -> Register] :
        /\ f[0] = r /\ f[8] = BitLoop(r)
        /\ \A i \in 1 .. 8 : f[i] = ShiftOut[f[i - 1]]
  BY BitLoopRuns
<1>2. PICK g \in [0 .. 8 -> Register] :
        /\ g[0] = s /\ g[8] = BitLoop(s)
        /\ \A i \in 1 .. 8 : g[i] = ShiftOut[g[i - 1]]
  BY BitLoopRuns
<1> DEFINE together == {i \in 0 .. 8 : f[i] = g[i] <=> f[0] = g[0]}
<1>3. 0 \in together
  OBVIOUS
<1>4. ASSUME NEW i \in 0 .. 8 - 1, i \in together
      PROVE  i + 1 \in together
  <2>1. /\ i + 1 \in 0 .. 8 /\ i + 1 \in 1 .. 8 /\ (i + 1) - 1 = i
        /\ f[i] \in Register /\ g[i] \in Register
    OBVIOUS
  <2>2. f[i + 1] = ShiftOut[f[i]] /\ g[i + 1] = ShiftOut[g[i]]
    BY <1>1, <1>2, <2>1
  <2>3. f[i + 1] = g[i + 1] <=> f[i] = g[i]
    BY <2>1, <2>2, ShiftOutTellsApart
  <2> QED
    BY <1>4, <2>1, <2>3
<1> HIDE DEF together
<1>5. 8 \in Nat /\ 8 \in 0 .. 8
  OBVIOUS
<1>6. 8 \in together
  BY <1>3, <1>4, <1>5, InductionUpTo
<1> QED
  BY <1>1, <1>2, <1>6 DEF together

(* A byte in the register's upper half is shifted to the lower one *)
LEMMA UpperIsShiftedDown ==
  ASSUME NEW low \in SUBSET (0 .. 7)
  PROVE  {8 + i : i \in low} \in Register /\ BitLoop({8 + i : i \in low}) = low
<1> DEFINE high == {8 + i : i \in low}
<1>1. high \in Register
  BY DEF Register
<1>2. \A x \in Int : x \in high <=> x - 8 \in low
  <2>1. \A x \in Int : 8 + (x - 8) = x
    OBVIOUS
  <2>2. \A i \in low : (8 + i) - 8 = i
    OBVIOUS
  <2> QED
    BY <2>1, <2>2
<1> HIDE DEF high
<1>3. PICK f \in [0 .. 8 -> Register] :
        /\ f[0] = high /\ f[8] = BitLoop(high)
        /\ \A i \in 1 .. 8 : f[i] = ShiftOut[f[i - 1]]
  BY <1>1, BitLoopRuns
<1> DEFINE Down(k) == \A x \in Int : x \in f[k] <=> x - 8 + k \in low
           down == {k \in 0 .. 8 : Down(k)}
<1>4. Down(0)
  BY <1>2, <1>3
<1>5. ASSUME NEW k \in 0 .. 8 - 1, Down(k)
      PROVE  Down(k + 1)
  <2>1. k + 1 \in 1 .. 8 /\ (k + 1) - 1 = k /\ f[k] \in Register
    OBVIOUS
  <2>2. f[k + 1] = ShiftOut[f[k]]
    BY <1>3, <2>1
  <2>3. 0 \notin f[k]
    BY <1>5
  <2>4. ASSUME NEW x \in Int
        PROVE  x \in f[k + 1] <=> x - 8 + (k + 1) \in low
    <3>1. x \in f[k + 1] <=> x \in 0 .. 15 /\ x + 1 \in f[k]
      BY <2>1, <2>2, <2>3, Shifted
    <3>2. x + 1 \in f[k] <=> (x + 1) - 8 + k \in low
      BY <1>5
    <3>3. (x + 1) - 8 + k = x - 8 + (k + 1)
      OBVIOUS
    <3>4. x - 8 + (k + 1) \in low => x \in 0 .. 15
      OBVIOUS
    <3> QED
      BY <3>1, <3>2, <3>3, <3>4
  <2> QED
    BY <2>4
<1>6. Down(8)
  <2> HIDE DEF Down
  <2>1. 0 \in down /\ \A k \in 0 .. 8 - 1 : k \in down => k + 1 \in down
    BY <1>4, <1>5
  <2> HIDE DEF down
  <2>2. 8 \in Nat /\ 8 \in 0 .. 8
    OBVIOUS
  <2>3. 8 \in down
    BY <2>1, <2>2, InductionUpTo
  <2> QED
    BY <2>3 DEF down
<1>7. f[8] = low
  <2>1. \A x \in Int : x \in f[8] <=> x \in low
    BY <1>6
  <2>2. f[8] \subseteq 0 .. 15
    <3>1. f[8] \in Register
      OBVIOUS
    <3> QED
      BY <3>1 DEF Register
  <2>3. f[8] \subseteq low /\ low \subseteq f[8]
    BY <2>1, <2>2
  <2> QED
    BY <2>3
<1> QED
  BY <1>1, <1>3, <1>7 DEF high

-----------------------------------------------------------------------------
(* The register while n bytes of data are mixed in *)
IsFed(f, n, data) ==
  /\ \A k \in 0 .. n : f[k] \in Register
  /\ \A k \in 1 .. n : f[k] = BitLoop(Xor(f[k - 1], BitsOf(data[k])))

LEMMA XorWithNothing ==
  ASSUME NEW r, NEW s
  PROVE  Xor({}, r) = r /\ (Xor(r, s) = {} <=> r = s)
  BY DEF Xor

LEMMA XorMoves ==
  ASSUME NEW r, NEW s, NEW t
  PROVE  Xor(r, s) = t <=> r = Xor(t, s)
<1>1. ASSUME Xor(r, s) = t
      PROVE  \A i : i \in r <=> i \in Xor(t, s)
  BY <1>1, XorMember
<1>2. ASSUME r = Xor(t, s)
      PROVE  \A i : i \in Xor(r, s) <=> i \in t
  BY <1>2, XorMember
<1> QED
  BY <1>1, <1>2

LEMMA XorTellsApart ==
  ASSUME NEW r, NEW s, NEW t
  PROVE  /\ Xor(r, t) = Xor(s, t) => r = s
         /\ Xor(t, r) = Xor(t, s) => r = s
<1>1. Xor(t, r) = Xor(r, t) /\ Xor(t, s) = Xor(s, t)
  BY DEF Xor
<1>2. r = Xor(Xor(r, t), t) /\ s = Xor(Xor(s, t), t)
  BY XorMoves
<1> QED
  BY <1>1, <1>2

LEMMA ByteTellsApart ==
  ASSUME NEW r \in Register, NEW s \in Register, NEW b,
         BitLoop(Xor(r, BitsOf(b))) = BitLoop(Xor(s, BitsOf(b)))
  PROVE  r = s
<1>1. Xor(r, BitsOf(b)) \in Register /\ Xor(s, BitsOf(b)) \in Register
  BY MixInTyped
<1>2. Xor(r, BitsOf(b)) = Xor(s, BitsOf(b))
  BY <1>1, BitLoopTellsApart
<1> QED
  BY <1>2, XorTellsApart

(* Registers fed with the same bytes are the same all along or never *)
LEMMA FedTogether ==
  ASSUME NEW n \in Nat, NEW f, NEW g, NEW a, NEW b, IsFed(f, n, a), IsFed(g, n, b),
         \A k \in 1 .. n : a[k] = b[k]
  PROVE  \A k \in 0 .. n : f[k] = g[k] <=> f[0] = g[0]
<1> DEFINE together == {k \in 0 .. n : f[k] = g[k] <=> f[0] = g[0]}
<1>1. 0 \in together
  OBVIOUS
<1>2. ASSUME NEW k \in 0 .. n - 1, k \in together
      PROVE  k + 1 \in together
  <2>1. k \in 0 .. n /\ k + 1 \in 0 .. n /\ k + 1 \in 1 .. n /\ (k + 1) - 1 = k
    OBVIOUS
  <2>2. f[k] \in Register /\ g[k] \in Register
    BY <2>1 DEF IsFed
  <2>3. /\ f[k + 1] = BitLoop(Xor(f[k], BitsOf(a[k + 1])))
        /\ g[k + 1] = BitLoop(Xor(g[k], BitsOf(a[k + 1])))
    BY <2>1 DEF IsFed
  <2>4. f[k + 1] = g[k + 1] <=> f[k] = g[k]
    BY <2>2, <2>3, ByteTellsApart
  <2> QED
    BY <1>2, <2>1, <2>4
<1> HIDE DEF together
<1>3. \A k \in 0 .. n : k \in together
  BY <1>1, <1>2, InductionUpTo
<1> QED
  BY <1>3 DEF together

LEMMA ChecksumIsFed ==
  ASSUME NEW data \in Seq(Byte)
  PROVE  \E f : /\ IsFed(f, Len(data), data)
                /\ f[0] = 0 .. 15 /\ f[Len(data)] = CalculateCRC16(data)
<1>1. PICK crc \in [0 .. Len(data) -> Register] :
        /\ crc[0] = 0 .. 15 /\ crc[Len(data)] = CalculateCRC16(data)
        /\ \A k \in 1 .. Len(data) : crc[k] = BitLoop(Xor(crc[k - 1], BitsOf(data[k])))
  BY CRCRuns
<1> QED
  BY <1>1 DEF IsFed

LEMMA FedAlike ==
  ASSUME NEW n \in Nat, NEW f, NEW g, NEW a, NEW b, IsFed(f, n, a), IsFed(g, n, b),
         \A k \in 1 .. n : a[k] = b[k], f[0] = g[0]
  PROVE  f[n] = g[n]
<1>1. \A k \in 0 .. n : f[k] = g[k] <=> f[0] = g[0]
  BY FedTogether
<1>2. n \in 0 .. n
  OBVIOUS
<1> QED
  BY <1>1, <1>2

(* The register after the first m bytes is their checksum *)
LEMMA SameChecksum ==
  ASSUME NEW data, NEW prefix \in Seq(Byte), NEW f, IsFed(f, Len(prefix), data), f[0] = 0 .. 15,
         \A k \in 1 .. Len(prefix) : data[k] = prefix[k]
  PROVE  f[Len(prefix)] = CalculateCRC16(prefix)
<1> DEFINE m == Len(prefix)
<1>1. m \in Nat
  OBVIOUS
<1>2. PICK g : IsFed(g, m, prefix) /\ g[0] = 0 .. 15 /\ g[m] = CalculateCRC16(prefix)
  BY ChecksumIsFed
<1> HIDE DEF m
<1>3. IsFed(f, m, data) /\ \A k \in 1 .. m : data[k] = prefix[k]
  BY DEF m
<1>4. f[m] = g[m]
  BY <1>1, <1>2, <1>3, FedAlike
<1> QED
  BY <1>2, <1>4 DEF m

LEMMA ChecksumOfPrefix ==
  ASSUME NEW data \in Seq(Byte), NEW m \in 0 .. Len(data), NEW f,
         IsFed(f, Len(data), data), f[0] = 0 .. 15
  PROVE  f[m] = CalculateCRC16(SubSeq(data, 1, m))
<1> DEFINE prefix == SubSeq(data, 1, m)
<1>1. /\ prefix \in Seq(Byte) /\ Len(prefix) = m /\ m \in Nat
      /\ \A k \in 1 .. m : data[k] = prefix[k]
  OBVIOUS
<1> HIDE DEF prefix
<1>2. IsFed(f, m, data)
  <2>1. 0 .. m \subseteq 0 .. Len(data) /\ 1 .. m \subseteq 1 .. Len(data)
    OBVIOUS
  <2> QED
    BY <2>1 DEF IsFed
<1>3. IsFed(f, Len(prefix), data) /\ \A k \in 1 .. Len(prefix) : data[k] = prefix[k]
  BY <1>1, <1>2
<1>4. f[Len(prefix)] = CalculateCRC16(prefix)
  BY <1>1, <1>3, SameChecksum
<1> QED
  BY <1>1, <1>4 DEF prefix

(* A frame is accepted exactly when nothing is left in the register at its end, *)
(* the checksum's own two bytes mixed in as well.                               *)
LEMMA AcceptedLeavesNothing ==
  ASSUME NEW frame \in Seq(Byte), Len(frame) >= 3
  PROVE  CheckCRC(frame) <=> CalculateCRC16(frame) = {}
<1> DEFINE n == Len(frame)
           low == BitsOf(frame[n - 1])
           high == BitsOf(frame[n])
           upper == {8 + i : i \in high}
<1>1. /\ n \in Nat /\ n \in 0 .. n /\ n - 1 \in 0 .. n /\ n - 2 \in 0 .. n
      /\ n \in 1 .. n /\ n - 1 \in 1 .. n /\ (n - 1) - 1 = n - 2
  OBVIOUS
<1>2. PICK f : IsFed(f, n, frame) /\ f[0] = 0 .. 15 /\ f[n] = CalculateCRC16(frame)
  BY ChecksumIsFed
<1>3. low \in SUBSET (0 .. 7) /\ high \in SUBSET (0 .. 7)
  BY BitsInByte
<1>4. upper \in Register /\ BitLoop(upper) = high
  BY <1>3, UpperIsShiftedDown
<1>5. {} \in Register /\ BitLoop({}) = {}
  <2>1. {8 + i : i \in {}} = {} /\ {} \in SUBSET (0 .. 7)
    OBVIOUS
  <2> QED
    BY <2>1, UpperIsShiftedDown
<1>6. low \cup upper = Xor(upper, low)
  BY <1>3 DEF Xor
<1>7. CheckCRC(frame) <=> f[n - 2] = low \cup upper
  <2>1. f[n - 2] = CalculateCRC16(SubSeq(frame, 1, n - 2))
    BY <1>1, <1>2, ChecksumOfPrefix
  <2> QED
    BY <2>1 DEF CheckCRC
<1> HIDE DEF upper
<1>8. /\ f[n - 2] \in Register /\ f[n - 1] \in Register /\ f[n] \in Register
      /\ f[n - 1] = BitLoop(Xor(f[n - 2], low)) /\ f[n] = BitLoop(Xor(f[n - 1], high))
  BY <1>1, <1>2 DEF IsFed
<1>9. Xor(f[n - 2], low) \in Register /\ Xor(f[n - 1], high) \in Register
  BY <1>8, MixInTyped
<1> HIDE DEF low, high, n
<1>10. f[n - 1] = high <=> Xor(f[n - 2], low) = upper
  BY <1>4, <1>8, <1>9, BitLoopTellsApart
<1>11. Xor(f[n - 2], low) = upper <=> f[n - 2] = Xor(upper, low)
  BY XorMoves
<1>12. f[n] = {} <=> Xor(f[n - 1], high) = {}
  BY <1>5, <1>8, <1>9, BitLoopTellsApart
<1>13. Xor(f[n - 1], high) = {} <=> f[n - 1] = high
  BY XorWithNothing
<1> QED
  BY <1>2, <1>6, <1>7, <1>10, <1>11, <1>12, <1>13

(* Bytes with the same bits are the same *)
LEMMA BitsTellApart ==
  ASSUME NEW b \in Byte, NEW c \in Byte, BitsOf(b) = BitsOf(c)
  PROVE  b = c
<1>1. b \in 0 .. 255 /\ c \in 0 .. 255
  BY Sizes, ByteMember
<1> QED
  BY <1>1, ByteOfBits

(* A frame with one byte read wrong, whatever it was and whichever it is, in    *)
(* the data or in the checksum, is rejected.                                    *)
THEOREM WrongByteIsNoticed ==
  ASSUME NEW frame \in Seq(Byte), NEW read \in Seq(Byte), Len(read) = Len(frame),
         NEW i \in 1 .. Len(frame), read[i] # frame[i],
         \A j \in 1 .. Len(frame) : j # i => read[j] = frame[j],
         CheckCRC(frame)
  PROVE  ~CheckCRC(read)
<1> DEFINE n == Len(frame)
<1>1. n \in Nat /\ n >= 3 /\ i \in 1 .. n
  BY DEF CheckCRC
<1>2. PICK f : IsFed(f, n, frame) /\ f[0] = 0 .. 15 /\ f[n] = CalculateCRC16(frame)
  BY ChecksumIsFed
<1>3. PICK g : IsFed(g, n, read) /\ g[0] = 0 .. 15 /\ g[n] = CalculateCRC16(read)
  BY ChecksumIsFed
<1>4. f[i - 1] = g[i - 1]
  <2>1. 0 .. i - 1 \subseteq 0 .. n /\ 1 .. i - 1 \subseteq 1 .. n /\ i - 1 \in Nat
        /\ i - 1 \in 0 .. i - 1 /\ i \notin 1 .. i - 1
    BY <1>1
  <2>2. IsFed(f, i - 1, frame) /\ IsFed(g, i - 1, read)
    BY <1>2, <1>3, <2>1 DEF IsFed
  <2>3. \A k \in 1 .. i - 1 : frame[k] = read[k]
    BY <2>1
  <2> QED
    <3>1. \A k \in 0 .. i - 1 : f[k] = g[k] <=> f[0] = g[0]
      BY <2>1, <2>2, <2>3, FedTogether
    <3> QED
      BY <1>2, <1>3, <2>1, <3>1
<1>5. f[i] # g[i]
  <2>1. i - 1 \in 0 .. n /\ f[i - 1] \in Register /\ g[i - 1] \in Register
    BY <1>1, <1>2, <1>3 DEF IsFed
  <2>2. /\ f[i] = BitLoop(Xor(f[i - 1], BitsOf(frame[i])))
        /\ g[i] = BitLoop(Xor(f[i - 1], BitsOf(read[i])))
    BY <1>1, <1>2, <1>3, <1>4 DEF IsFed
  <2>3. BitsOf(frame[i]) # BitsOf(read[i])
    BY BitsTellApart
  <2>4. Xor(f[i - 1], BitsOf(frame[i])) # Xor(f[i - 1], BitsOf(read[i]))
    BY <2>3, XorTellsApart
  <2>5. /\ Xor(f[i - 1], BitsOf(frame[i])) \in Register
        /\ Xor(f[i - 1], BitsOf(read[i])) \in Register
    BY <2>1, MixInTyped
  <2> QED
    BY <2>2, <2>4, <2>5, BitLoopTellsApart
<1>6. f[n] # g[n]
  <2> DEFINE m == n - i
             f1 == [k \in 0 .. m |-> f[i + k]]
             g1 == [k \in 0 .. m |-> g[i + k]]
             a1 == [k \in 1 .. m |-> frame[i + k]]
             b1 == [k \in 1 .. m |-> read[i + k]]
  <2>1. m \in Nat /\ m \in 0 .. m /\ 0 \in 0 .. m /\ i + 0 = i /\ i + m = n
    BY <1>1
  <2>2. ASSUME NEW k \in 0 .. m
        PROVE  i + k \in 0 .. n /\ (k # 0 => k - 1 \in 0 .. m /\ k \in 1 .. m)
    BY <1>1
  <2>3. ASSUME NEW k \in 1 .. m
        PROVE  i + k \in 1 .. n /\ (i + k) - 1 = i + (k - 1) /\ i + k # i /\ k - 1 \in 0 .. m /\ k \in 0 .. m
    BY <1>1
  <2>4. IsFed(f1, m, a1) /\ IsFed(g1, m, b1)
    BY <1>2, <1>3, <2>2, <2>3 DEF IsFed
  <2>5. \A k \in 1 .. m : a1[k] = b1[k]
    BY <2>3
  <2>6. f1[m] = f[n] /\ g1[m] = g[n] /\ f1[0] = f[i] /\ g1[0] = g[i]
    BY <2>1
  <2> HIDE DEF f1, g1, a1, b1, m
  <2> QED
    BY <1>5, <2>1, <2>4, <2>5, <2>6, FedTogether
<1> QED
  BY <1>1, <1>2, <1>3, <1>6, AcceptedLeavesNothing

(* The register goes on from one sequence of bytes to the next *)
LEMMA FedOn ==
  ASSUME NEW a \in Seq(Byte), NEW b \in Seq(Byte)
  PROVE  \E f : /\ IsFed(f, Len(b), b) /\ f[0] = CalculateCRC16(a)
                /\ f[Len(b)] = CalculateCRC16(a \o b)
<1> DEFINE m == Len(a)
           n == Len(b)
           both == a \o b
<1>1. /\ m \in Nat /\ n \in Nat /\ both \in Seq(Byte) /\ Len(both) = m + n
      /\ m \in 0 .. m + n /\ m + 0 = m /\ 0 \in 0 .. n /\ n \in 0 .. n
      /\ \A k \in 1 .. n : both[m + k] = b[k]
  OBVIOUS
<1>2. SubSeq(both, 1, m) = a
  <2>1. \A k \in 1 .. m : both[k] = a[k]
    OBVIOUS
  <2> HIDE DEF both
  <2>2. /\ SubSeq(both, 1, m) \in Seq(Byte) /\ Len(SubSeq(both, 1, m)) = m
        /\ \A k \in 1 .. m : SubSeq(both, 1, m)[k] = both[k]
    BY <1>1
  <2> QED
    BY <2>1, <2>2, SeqEqual
<1> HIDE DEF both, m, n
<1>3. PICK g : IsFed(g, m + n, both) /\ g[0] = 0 .. 15 /\ g[m + n] = CalculateCRC16(both)
  BY <1>1, ChecksumIsFed
<1>4. g[m] = CalculateCRC16(a)
  BY <1>1, <1>2, <1>3, ChecksumOfPrefix, ZenonT(60)
<1> DEFINE f == [k \in 0 .. n |-> g[m + k]]
<1>5. ASSUME NEW k \in 0 .. n
      PROVE  m + k \in 0 .. m + n
  BY <1>1
<1>6. ASSUME NEW k \in 1 .. n
      PROVE  m + k \in 1 .. m + n /\ (m + k) - 1 = m + (k - 1) /\ k - 1 \in 0 .. n /\ k \in 0 .. n
  BY <1>1
<1>7. IsFed(f, n, b)
  BY <1>1, <1>3, <1>5, <1>6 DEF IsFed
<1>8. f[0] = g[m] /\ f[n] = g[m + n]
  BY <1>1
<1> HIDE DEF f
<1>9. IsFed(f, n, b) /\ f[0] = CalculateCRC16(a) /\ f[n] = CalculateCRC16(both)
  BY <1>3, <1>4, <1>7, <1>8
<1> QED
  BY <1>9 DEF n, both

(* Two frames read as one are rejected, whatever they say *)
THEOREM JoinedFramesAreNoticed ==
  ASSUME NEW a \in Seq(Byte), NEW b \in Seq(Byte), CheckCRC(a), CheckCRC(b)
  PROVE  ~CheckCRC(a \o b)
<1> DEFINE n == Len(b)
           both == a \o b
<1>1. Len(a) >= 3 /\ n >= 3 /\ n \in Nat /\ n \in 0 .. n
  BY DEF CheckCRC
<1>2. both \in Seq(Byte) /\ Len(both) >= 3
  BY <1>1
<1>3. CalculateCRC16(a) = {} /\ CalculateCRC16(b) = {}
  BY <1>1, AcceptedLeavesNothing
<1>4. PICK f : IsFed(f, n, b) /\ f[0] = CalculateCRC16(a) /\ f[n] = CalculateCRC16(both)
  BY FedOn
<1>5. PICK g : IsFed(g, n, b) /\ g[0] = 0 .. 15 /\ g[n] = CalculateCRC16(b)
  BY ChecksumIsFed
<1>6. f[0] # g[0]
  <2>1. 0 \in 0 .. 15
    OBVIOUS
  <2> QED
    BY <1>3, <1>4, <1>5, <2>1
<1>7. f[n] # g[n]
  BY <1>1, <1>4, <1>5, <1>6, FedTogether, SMTT(60)
<1> HIDE DEF both
<1>8. ~CheckCRC(both)
  BY <1>2, <1>3, <1>4, <1>5, <1>7, AcceptedLeavesNothing
<1> QED
  BY <1>8 DEF both

(* Of the bytes that may follow a frame, only a zero is not noticed: an         *)
(* accepted frame with one more byte is accepted just when that byte is 0.      *)
THEOREM OnlyZeroesGoUnnoticed ==
  ASSUME NEW frame \in Seq(Byte), CheckCRC(frame), NEW b \in Byte
  PROVE  CheckCRC(frame \o <<b>>) <=> b = 0
<1> DEFINE longer == frame \o <<b>>
<1>1. Len(frame) >= 3 /\ <<b>> \in Seq(Byte) /\ Len(<<b>>) = 1 /\ <<b>>[1] = b
  BY DEF CheckCRC
<1>2. longer \in Seq(Byte) /\ Len(longer) >= 3
  BY <1>1
<1>3. PICK f : /\ IsFed(f, 1, <<b>>) /\ f[0] = CalculateCRC16(frame)
               /\ f[1] = CalculateCRC16(longer)
  BY <1>1, FedOn
<1>4. f[0] = {} /\ f[1] = BitLoop(Xor({}, BitsOf(b)))
  <2>1. f[0] = {}
    BY <1>1, <1>3, AcceptedLeavesNothing
  <2>2. 1 \in 1 .. 1 /\ 1 - 1 = 0
    OBVIOUS
  <2> QED
    BY <1>1, <1>3, <2>1, <2>2 DEF IsFed
<1>5. {} \in Register /\ BitLoop({}) = {}
  <2>1. {8 + i : i \in {}} = {} /\ {} \in SUBSET (0 .. 7)
    OBVIOUS
  <2> QED
    BY <2>1, UpperIsShiftedDown
<1>6. Xor({}, BitsOf(b)) = BitsOf(b) /\ Xor({}, BitsOf(b)) \in Register
  BY <1>5, XorWithNothing, MixInTyped
<1>7. f[1] = {} <=> BitsOf(b) = {}
  BY <1>4, <1>5, <1>6, BitLoopTellsApart
<1>8. BitsOf(b) = {} <=> b = 0
  <2>1. 0 \in Byte
    BY Sizes, ByteMember
  <2>2. BitsOf(0) = {}
    <3>1. ByteOf({}) = 0
      BY DEF ByteOf
    <3>2. BitsOf(ByteOf({})) = {}
      BY BitsOfByte
    <3> QED
      BY <3>1, <3>2
  <2> QED
    BY <2>1, <2>2, BitsTellApart
<1> HIDE DEF longer
<1>9. CheckCRC(longer) <=> b = 0
  BY <1>2, <1>3, <1>7, <1>8, AcceptedLeavesNothing
<1> QED
  BY <1>9 DEF longer

-----------------------------------------------------------------------------
(* What stands in the buffers.  Beside the types: a read loop between two       *)
(* frames has an empty buffer, a port is cancelled when it is closed, and the   *)
(* frame that a master waits for is in one piece.                               *)

PortOK(port) ==
  /\ port.cancelled = ~port.open
  /\ port.pc \in {"check", "read", "done"} => port.frame = << >>

Holds(port, bytes) ==
  \/ port.pc \in {"check", "read"} /\ port.frame = << >> /\ port.inbox = bytes
  \/ port.pc \in {"more", "serve", "reply"} /\ port.inbox = << >> /\ port.frame = bytes

(* The frame that the master waits for is the last one it sent *)
IsAwaited(bytes) ==
  /\ bytes \in Seq(Byte) /\ RTUAnswer(Units, bytes) # NoReply
  /\ rest = << >> /\ sent # << >> /\ sent[Len(sent)] = <<asked, bytes>>
  /\ Holds(ports[asked], bytes)

Awaited == asked # Nil /\ Usable(asked) => \E bytes : IsAwaited(bytes)

Whole ==
  /\ TypeOK
  /\ \A p \in DOMAIN ports : PortOK(ports[p])
  /\ Awaited

LEMMA PortFields ==
  ASSUME NEW port \in Port
  PROVE  /\ port.name \in Names /\ port.baud \in Nat /\ port.open \in BOOLEAN
         /\ port.cancelled \in BOOLEAN /\ port.failing \in BOOLEAN
         /\ port.inbox \in Seq(Byte) /\ port.frame \in Seq(Byte)
         /\ port.pc \in {"check", "read", "more", "serve", "reply", "done"}
  BY DEF Port

LEMMA Appended ==
  ASSUME NEW s \in Seq(Byte)
  PROVE  << >> \o s = s /\ s \o << >> = s
  OBVIOUS

LEMMA WholeIsAwaited == Whole => AwaitedFrameIsWhole
<1> SUFFICES ASSUME Whole, asked # Nil, Usable(asked)
             PROVE  LET port == ports[asked]
                    IN /\ rest = << >> /\ sent[Len(sent)] = <<asked, port.frame \o port.inbox>>
                       /\ \/ port.pc \in {"check", "read"} /\ port.frame = << >>
                          \/ port.pc \in {"more", "serve", "reply"} /\ port.inbox = << >>
  BY DEF AwaitedFrameIsWhole
<1> DEFINE port == ports[asked]
<1>1. PICK bytes : IsAwaited(bytes)
  BY DEF Whole, Awaited
<1>2. bytes \in Seq(Byte) /\ Holds(port, bytes)
  BY <1>1 DEF IsAwaited
<1> HIDE DEF port
<1>3. port.frame \o port.inbox = bytes
  BY <1>2, Appended DEF Holds
<1> QED
  BY <1>1, <1>2, <1>3 DEF IsAwaited, Holds, port

(* A step that changes one port, while the master sends nothing *)
LEMMA WholeStep ==
  ASSUME Whole, NEW p \in DOMAIN ports, NEW x \in Port, PortOK(x),
         ports' = [ports EXCEPT ![p] = x],
         x.open = ports[p].open, ports[p].failing => x.failing,
         \A bytes : asked = p /\ Usable(p) /\ IsAwaited(bytes) /\ asked' = p => Holds(x, bytes),
         UNCHANGED <<server, rest, sent>>, asked' \in {asked, Nil},
         served' \in Seq(Nat \X Seq(Byte)), up' \in BOOLEAN
  PROVE  Whole'
<1> DEFINE n == Len(ports)
<1>1. ports \in Seq(Port) /\ n \in Nat /\ DOMAIN ports = 1 .. n /\ p \in 1 .. n /\ asked \in 0 .. n
  BY DEF Whole, TypeOK
<1>2. /\ ports' \in Seq(Port) /\ Len(ports') = n /\ DOMAIN ports' = 1 .. n
      /\ \A q \in 1 .. n : ports'[q] = IF q = p THEN x ELSE ports[q]
  BY <1>1
<1>3. asked' \in 0 .. Len(ports')
  BY <1>1, <1>2 DEF Nil
<1>4. TypeOK'
  BY <1>2, <1>3 DEF Whole, TypeOK
<1>5. \A q \in DOMAIN ports' : PortOK(ports'[q])
  BY <1>1, <1>2 DEF Whole
<1>6. ASSUME asked' # Nil, Usable(asked)'
      PROVE  \E bytes : IsAwaited(bytes)'
  <2>1. asked' = asked /\ asked \in 1 .. n
    BY <1>1, <1>6 DEF Nil
  <2>2. Usable(asked)
    BY <1>2, <1>6, <2>1 DEF Usable
  <2>3. PICK bytes : IsAwaited(bytes)
    BY <1>6, <2>1, <2>2 DEF Whole, Awaited
  <2>4. Holds(ports'[asked], bytes)
    BY <1>2, <2>1, <2>2, <2>3 DEF IsAwaited
  <2> QED
    BY <2>1, <2>3, <2>4 DEF IsAwaited
<1> QED
  BY <1>4, <1>5, <1>6 DEF Whole, Awaited

-----------------------------------------------------------------------------
(* The read loop and the adapter *)

LEMMA WholeUnplug ==
  ASSUME Whole, NEW p \in DOMAIN ports, Unplug(p)
  PROVE  Whole'
<1> DEFINE w == ports[p]
           x == [w EXCEPT !.failing = TRUE]
<1>1. w \in Port /\ PortOK(w)
  BY DEF Whole, TypeOK
<1>2. ports' = [ports EXCEPT ![p] = x] /\ UNCHANGED <<server, rest, sent, served, asked, up>>
  BY DEF Unplug
<1>3. \A bytes : IsAwaited(bytes) /\ asked = p => Holds(w, bytes)
  BY DEF IsAwaited
<1> HIDE DEF w
<1>4. /\ x \in Port /\ PortOK(x) /\ x.open = w.open /\ x.failing
      /\ \A bytes : Holds(w, bytes) => Holds(x, bytes)
  BY <1>1 DEF Port, PortOK, Holds
<1> HIDE DEF x
<1> QED
  BY <1>2, <1>3, <1>4, WholeStep DEF w, Whole, TypeOK

LEMMA WholeCheck ==
  ASSUME Whole, NEW p \in DOMAIN ports, CheckContext(p)
  PROVE  Whole'
<1> DEFINE w == ports[p]
           x == [w EXCEPT !.pc = IF w.cancelled THEN "done" ELSE "read"]
<1>1. w \in Port /\ PortOK(w) /\ w.pc = "check"
  BY DEF Whole, TypeOK, CheckContext, At
<1>2. ports' = [ports EXCEPT ![p] = x] /\ UNCHANGED <<server, rest, sent, served, asked, up>>
  BY DEF CheckContext
<1>3. \A bytes : IsAwaited(bytes) /\ asked = p => Holds(w, bytes)
  BY DEF IsAwaited
<1>4. Usable(p) => w.open
  BY DEF Usable
<1> HIDE DEF w
<1>5. /\ x \in Port /\ PortOK(x) /\ x.open = w.open /\ x.failing = w.failing
      /\ \A bytes : w.open /\ Holds(w, bytes) => Holds(x, bytes)
  BY <1>1 DEF Port, PortOK, Holds
<1> HIDE DEF x
<1> QED
  BY <1>2, <1>3, <1>4, <1>5, WholeStep DEF w, Whole, TypeOK

LEMMA WholeRead ==
  ASSUME Whole, NEW p \in DOMAIN ports, Read(p)
  PROVE  Whole'
<1> DEFINE w == ports[p]
           f == w.frame \o w.inbox
           x == [w EXCEPT !.pc = "more", !.inbox = << >>, !.frame = f]
<1>1. w \in Port /\ w.pc \in {"read", "more"} /\ w.inbox # << >> /\ PortOK(w)
  BY DEF Whole, TypeOK, Read, At, Arrived
<1>2. ports' = [ports EXCEPT ![p] = x] /\ UNCHANGED <<server, rest, sent, served, asked, up>>
  BY DEF Read, Whole, TypeOK
<1>3. \A bytes : IsAwaited(bytes) /\ asked = p => Holds(w, bytes) /\ bytes \in Seq(Byte)
  BY DEF IsAwaited
<1> HIDE DEF w
<1>4. f \in Seq(Byte) /\ \A bytes \in Seq(Byte) : Holds(w, bytes) => f = bytes
  <2>1. w.frame \in Seq(Byte) /\ w.inbox \in Seq(Byte)
    BY <1>1, PortFields
  <2>2. ASSUME NEW bytes \in Seq(Byte), Holds(w, bytes)
        PROVE  f = bytes
    <3>1. w.frame = << >> /\ w.inbox = bytes
      BY <1>1, <2>2 DEF Holds
    <3> QED
      BY <3>1, Appended
  <2>3. f \in Seq(Byte)
    BY <2>1
  <2> QED
    BY <2>2, <2>3
<1> HIDE DEF f
<1>5. /\ x \in Port /\ PortOK(x) /\ x.open = w.open /\ x.failing = w.failing
      /\ \A bytes \in Seq(Byte) : Holds(w, bytes) => Holds(x, bytes)
  <2>1. << >> \in Seq(Byte)
    OBVIOUS
  <2>2. /\ x \in Port /\ x.open = w.open /\ x.failing = w.failing /\ x.cancelled = w.cancelled
        /\ x.pc = "more" /\ x.inbox = << >> /\ x.frame = f
    BY <1>1, <1>4, <2>1 DEF Port
  <2> HIDE DEF x
  <2> QED
    BY <1>1, <1>4, <2>2 DEF PortOK, Holds
<1> HIDE DEF x
<1> QED
  BY <1>2, <1>3, <1>5, WholeStep DEF w, Whole, TypeOK

LEMMA WholeReadNothing ==
  ASSUME Whole, NEW p \in DOMAIN ports, ReadNothing(p)
  PROVE  Whole'
<1> DEFINE w == ports[p]
<1>1. w \in Port /\ PortOK(w)
  BY DEF Whole, TypeOK
<1>2. PICK pc \in {"check", "serve"} :
        /\ ports' = [ports EXCEPT ![p].pc = pc]
        /\ w.pc = IF pc = "check" THEN "read" ELSE "more"
  BY DEF ReadNothing, At
<1>3. UNCHANGED <<server, rest, sent, served, asked, up>> /\ ~Arrived(p)
  BY DEF ReadNothing
<1>4. \A bytes : IsAwaited(bytes) /\ asked = p => Holds(w, bytes)
  BY DEF IsAwaited
<1> DEFINE x == [w EXCEPT !.pc = pc]
<1>5. ports' = [ports EXCEPT ![p] = x]
  BY <1>2
<1> HIDE DEF w
<1>6. /\ x \in Port /\ PortOK(x) /\ x.open = w.open /\ x.failing = w.failing
      /\ \A bytes : Holds(w, bytes) => Holds(x, bytes)
  BY <1>1, <1>2 DEF Port, PortOK, Holds
<1> HIDE DEF x
<1> QED
  BY <1>3, <1>4, <1>5, <1>6, WholeStep DEF w, Whole, TypeOK

LEMMA WholeServe ==
  ASSUME Whole, NEW p \in DOMAIN ports, Serve(p)
  PROVE  Whole'
<1> DEFINE w == ports[p]
           bare == [w EXCEPT !.pc = "check", !.frame = << >>]
           late == [w EXCEPT !.pc = "reply"]
<1>1. w \in Port /\ PortOK(w) /\ w.pc = "serve" /\ p \in Nat /\ served \in Seq(Nat \X Seq(Byte))
  BY DEF Whole, TypeOK, Serve, At
<1>2. /\ up' \in BOOLEAN /\ UNCHANGED <<server, rest, sent, asked>>
      /\ \/ /\ RTUAnswer(Units, w.frame) = NoReply
            /\ ports' = [ports EXCEPT ![p] = bare] /\ served' = served
         \/ /\ ports' = [ports EXCEPT ![p] = late]
            /\ served' = Append(served, <<p, w.frame>>)
  BY DEF Serve, Whole, TypeOK
<1>3. \A bytes : IsAwaited(bytes) /\ asked = p =>
        Holds(w, bytes) /\ RTUAnswer(Units, bytes) # NoReply
  BY DEF IsAwaited
<1> HIDE DEF w
<1>4. w.frame \in Seq(Byte) /\ Append(served, <<p, w.frame>>) \in Seq(Nat \X Seq(Byte))
  BY <1>1, PortFields
<1>5. /\ late \in Port /\ PortOK(late) /\ late.open = w.open /\ late.failing = w.failing
      /\ \A bytes : Holds(w, bytes) => Holds(late, bytes) /\ w.frame = bytes
  BY <1>1 DEF Port, PortOK, Holds
<1>6. bare \in Port /\ PortOK(bare) /\ bare.open = w.open /\ bare.failing = w.failing
  <2>1. << >> \in Seq(Byte)
    OBVIOUS
  <2> QED
    BY <1>1, <2>1 DEF Port, PortOK
<1> HIDE DEF bare, late
<1>7. CASE RTUAnswer(Units, w.frame) = NoReply /\ ports' = [ports EXCEPT ![p] = bare] /\ served' = served
  <2>1. \A bytes : IsAwaited(bytes) /\ asked = p => Holds(bare, bytes)
    BY <1>3, <1>5, <1>7
  <2> QED
    BY <1>1, <1>2, <1>6, <1>7, <2>1, WholeStep DEF w
<1>8. CASE ports' = [ports EXCEPT ![p] = late] /\ served' = Append(served, <<p, w.frame>>)
  BY <1>2, <1>3, <1>4, <1>5, <1>8, WholeStep DEF w
<1> QED
  BY <1>2, <1>7, <1>8

LEMMA WholeWrite ==
  ASSUME Whole, NEW p \in DOMAIN ports, WriteAnswer(p)
  PROVE  Whole'
<1> DEFINE w == ports[p]
           x == [w EXCEPT !.pc = "check", !.frame = << >>]
<1>1. w \in Port /\ PortOK(w) /\ p \in DOMAIN ports /\ p # Nil
  BY DEF Whole, TypeOK, Nil
<1>2. /\ ports' = [ports EXCEPT ![p] = x] /\ UNCHANGED <<server, rest, sent, served, up>>
      /\ asked' = IF Usable(p) /\ asked = p THEN Nil ELSE asked
  BY DEF WriteAnswer, Whole, TypeOK
<1> HIDE DEF w
<1>3. x \in Port /\ PortOK(x) /\ x.open = w.open /\ x.failing = w.failing
  <2>1. << >> \in Seq(Byte)
    OBVIOUS
  <2> QED
    BY <1>1, <2>1 DEF Port, PortOK
<1> HIDE DEF x
<1>4. asked = p /\ Usable(p) => asked' # p
  BY <1>1, <1>2
<1> QED
  BY <1>2, <1>3, <1>4, WholeStep DEF w, Whole, TypeOK

-----------------------------------------------------------------------------
(* The line *)

(* Without noise a frame arrives as it was sent *)
LEMMA FlippedTyped ==
  ASSUME NEW bytes \in Seq(Byte), NEW noise
  PROVE  /\ Flipped(bytes, noise) \in Seq(Byte)
         /\ Len(Flipped(bytes, noise)) = Len(bytes)
         /\ noise = {} => Flipped(bytes, noise) = bytes
<1> DEFINE line == Flipped(bytes, noise)
           n == Len(bytes)
           bits(i) == Xor(BitsOf(bytes[i]), {b \in 0 .. 7 : 8 * (i - 1) + b \in noise})
<1>1. line = [i \in 1 .. n |-> ByteOf(bits(i))] /\ n \in Nat
  BY DEF Flipped
<1>2. \A v \in 0 .. 255 : v \in Byte
  BY Sizes, ByteMember
<1>3. \A i \in 1 .. n : ByteOf(bits(i)) \in Byte
  <2> HIDE DEF bits
  <2> QED
    BY <1>2, ByteOfTyped
<1>4. line \in Seq(Byte) /\ Len(line) = n
  <2> HIDE DEF bits, n
  <2> QED
    BY <1>1, <1>3
<1>5. ASSUME noise = {}, NEW i \in 1 .. n
      PROVE  line[i] = bytes[i]
  <2>1. bits(i) = BitsOf(bytes[i])
    BY <1>5 DEF Xor
  <2> DEFINE v == bytes[i]
  <2>2. v \in Byte
    OBVIOUS
  <2>3. line[i] = ByteOf(BitsOf(v))
    BY <1>1, <2>1
  <2> HIDE DEF v, line
  <2>4. v \in Int /\ 0 <= v /\ v <= 255
    BY <2>2, Sizes, ByteMember
  <2>5. v \in 0 .. 255
    BY <2>4
  <2>6. ByteOf(BitsOf(v)) = v
    BY <2>5, ByteOfBits
  <2> QED
    BY <2>3, <2>6 DEF v
<1> HIDE DEF line
<1>6. noise = {} => line = bytes
  BY <1>4, <1>5, SeqEqual
<1> QED
  BY <1>4, <1>6 DEF line

LEMMA WholeSend ==
  ASSUME Whole, NEW p \in DOMAIN ports, NEW m \in Messages, Send(p, m)
  PROVE  Whole'
<1> DEFINE w == ports[p]
           line == Flipped(m.bytes, m.noise)
           first == SubSeq(line, 1, m.pause)
           later == SubSeq(line, m.pause + 1, Len(line))
           inbox == w.inbox \o first
           x == [w EXCEPT !.inbox = inbox]
           n == Len(ports)
           whole == Quiet(p) /\ m.pause = Len(m.bytes) /\ m.noise = {} /\ RTUAnswer(Units, m.bytes) # NoReply
<1>1. /\ ports \in Seq(Port) /\ n \in Nat /\ DOMAIN ports = 1 .. n /\ p \in 1 .. n /\ asked \in 0 .. n
      /\ w \in Port /\ PortOK(w) /\ p \in Nat
  BY DEF Whole, TypeOK
<1>2. m.bytes \in Seq(Byte) /\ m.pause \in 1 .. Len(m.bytes)
  BY LineAssumption
<1>3. /\ ports' = [ports EXCEPT ![p] = x] /\ rest' = later /\ sent' = Append(sent, <<p, m.bytes>>)
      /\ asked' = IF whole THEN p ELSE Nil
      /\ UNCHANGED <<server, served, up>> /\ Usable(p)
  BY DEF Send
<1>4. line \in Seq(Byte) /\ Len(line) = Len(m.bytes) /\ (m.noise = {} => line = m.bytes)
  BY <1>2, FlippedTyped
<1> HIDE DEF line
<1>5. first \in Seq(Byte) /\ later \in Seq(Byte)
  BY <1>2, <1>4
<1>6. m.pause = Len(m.bytes) => later = << >> /\ first = line
  <2>1. SUFFICES ASSUME m.pause = Len(m.bytes)
                 PROVE  later = << >> /\ first = line
    OBVIOUS
  <2>2. Len(first) = Len(line) /\ \A i \in 1 .. Len(first) : first[i] = line[i]
    BY <1>2, <1>4, <2>1
  <2>3. Len(later) = 0
    BY <1>2, <1>4, <2>1
  <2> HIDE DEF first, later
  <2> QED
    BY <1>4, <1>5, <2>2, <2>3, SeqEqual
<1> HIDE DEF first, later, w
<1>7. inbox \in Seq(Byte)
  BY <1>1, <1>5, PortFields
<1>8. w.inbox = << >> => inbox = first
  BY <1>5, Appended
<1> HIDE DEF inbox
<1>9. /\ x \in Port /\ PortOK(x) /\ x.open = w.open /\ x.pc = w.pc /\ x.frame = w.frame
      /\ x.inbox = inbox
  BY <1>1, <1>7 DEF Port, PortOK
<1> HIDE DEF x, n
<1>10. /\ ports' \in Seq(Port) /\ Len(ports') = n /\ DOMAIN ports' = 1 .. n
       /\ \A q \in 1 .. n : ports'[q] = IF q = p THEN x ELSE ports[q]
  BY <1>1, <1>3, <1>9 DEF n
<1>11. /\ sent' \in Seq(Nat \X Seq(Byte)) /\ sent' # << >>
       /\ sent'[Len(sent')] = <<p, m.bytes>>
  BY <1>1, <1>2, <1>3, SMTT(60) DEF Whole, TypeOK
<1>12. asked' \in 0 .. Len(ports')
  BY <1>1, <1>3, <1>10 DEF Nil
<1>13. TypeOK'
  BY <1>3, <1>5, <1>10, <1>11, <1>12 DEF Whole, TypeOK
<1>14. \A q \in DOMAIN ports' : PortOK(ports'[q])
  BY <1>1, <1>9, <1>10 DEF Whole, n
<1>15. ASSUME asked' # Nil
       PROVE  IsAwaited(m.bytes)'
  <2>1. whole /\ asked' = p
    BY <1>3, <1>15
  <2>2. rest' = << >> /\ inbox = m.bytes
    BY <1>3, <1>4, <1>6, <1>8, <2>1 DEF Quiet, w
  <2>3. w.pc \in {"check", "read"} /\ w.frame = << >>
    BY <1>1, <2>1 DEF Quiet, w, PortOK
  <2>4. Holds(ports'[p], m.bytes)
    BY <1>1, <1>9, <1>10, <2>2, <2>3 DEF Holds
  <2> QED
    BY <1>2, <1>11, <2>1, <2>2, <2>4 DEF IsAwaited
<1> QED
  BY <1>13, <1>14, <1>15 DEF Whole, Awaited

(* A step that may touch every port: each keeps its type, none that is closed   *)
(* or fails becomes usable, and one that the master waits on is as it was.      *)
LEMMA WholePorts ==
  ASSUME Whole, ports' \in Seq(Port), Len(ports') >= Len(ports),
         \A p \in DOMAIN ports' : PortOK(ports'[p]),
         \A p \in DOMAIN ports : Usable(p)' => Usable(p) /\ (asked = p => rest' = rest /\ ports'[p] = ports[p]),
         server' \in [connected : BOOLEAN, port : Nat, name : Names \cup {NoName}, baud : Nat],
         rest' \in Seq(Byte), UNCHANGED <<sent, served, asked, up>>
  PROVE  Whole'
<1>1. asked \in 0 .. Len(ports) /\ DOMAIN ports = 1 .. Len(ports) /\ Len(ports) \in Nat /\ Len(ports') \in Nat
  BY DEF Whole, TypeOK
<1>2. TypeOK'
  BY <1>1 DEF Whole, TypeOK
<1>3. ASSUME asked' # Nil, Usable(asked)'
      PROVE  \E bytes : IsAwaited(bytes)'
  <2>1. asked' = asked /\ asked \in DOMAIN ports
    BY <1>1, <1>3 DEF Nil
  <2>2. ports'[asked].open /\ ~ports'[asked].failing
    BY <1>3, <2>1 DEF Usable
  <2>3. Usable(asked) /\ rest' = rest /\ ports'[asked] = ports[asked]
    BY <2>1, <2>2 DEF Usable
  <2>4. PICK bytes : IsAwaited(bytes)
    BY <1>3, <2>1, <2>3 DEF Whole, Awaited
  <2> QED
    BY <2>1, <2>3, <2>4 DEF IsAwaited
<1> QED
  BY <1>2, <1>3 DEF Whole, Awaited

LEMMA WholeSendRest ==
  ASSUME Whole, SendRest
  PROVE  Whole'
<1> DEFINE n == Len(ports)
<1>1. ports \in Seq(Port) /\ n \in Nat /\ DOMAIN ports = 1 .. n /\ rest \in Seq(Byte)
  BY DEF Whole, TypeOK
<1>2. /\ ports' = [p \in 1 .. n |-> IF Usable(p) THEN [ports[p] EXCEPT !.inbox = @ \o rest]
                                    ELSE ports[p]]
      /\ rest # << >> /\ rest' = << >> /\ UNCHANGED <<server, sent, served, asked, up>>
  BY <1>1 DEF SendRest
<1> HIDE DEF n
<1>3. ASSUME NEW p \in 1 .. n
      PROVE  /\ ports'[p] \in Port /\ PortOK(ports'[p])
             /\ ports'[p].open = ports[p].open /\ ports'[p].failing = ports[p].failing
  <2> DEFINE w == ports[p]
             i == w.inbox \o rest
             x == [w EXCEPT !.inbox = i]
  <2>1. w \in Port /\ PortOK(w)
    BY <1>1 DEF Whole
  <2>2. ports'[p] = x \/ ports'[p] = w
    BY <1>2
  <2> HIDE DEF w
  <2>3. i \in Seq(Byte)
    BY <1>1, <2>1, PortFields
  <2> HIDE DEF i
  <2>4. x \in Port /\ PortOK(x) /\ x.open = w.open /\ x.failing = w.failing
    BY <2>1, <2>3 DEF Port, PortOK
  <2> HIDE DEF x
  <2> QED
    BY <2>1, <2>2, <2>4 DEF w
<1>4. ports' \in Seq(Port) /\ Len(ports') = n /\ DOMAIN ports' = 1 .. n
  <2>1. ports' = [p \in 1 .. n |-> ports'[p]]
    BY <1>2
  <2>2. \A p \in 1 .. n : ports'[p] \in Port
    BY <1>3
  <2> QED
    BY <1>1, <2>1, <2>2
<1>5. ASSUME NEW p \in DOMAIN ports, Usable(p)'
      PROVE  Usable(p) /\ asked # p
  <2>1. Usable(p)
    BY <1>1, <1>3, <1>5 DEF Usable
  <2>2. asked = p => rest = << >>
    BY <1>1, <2>1 DEF Whole, Awaited, IsAwaited, Nil
  <2> QED
    BY <1>2, <2>1, <2>2
<1>6. server' \in [connected : BOOLEAN, port : Nat, name : Names \cup {NoName}, baud : Nat]
  BY <1>2 DEF Whole, TypeOK
<1>7. << >> \in Seq(Byte) /\ Len(ports') >= Len(ports)
  BY <1>1, <1>4 DEF n
<1> QED
  BY <1>2, <1>3, <1>4, <1>5, <1>6, <1>7, WholePorts

-----------------------------------------------------------------------------
(* Connect and Disconnect *)

LEMMA WholeClosed ==
  ASSUME Whole
  PROVE  /\ Closed \in Seq(Port) /\ Len(Closed) = Len(ports) /\ DOMAIN Closed = DOMAIN ports
         /\ \A p \in DOMAIN ports : PortOK(Closed[p]) /\ (Closed[p].open => Closed[p] = ports[p])
<1> DEFINE n == Len(ports)
           c == Closed
<1>1. ports \in Seq(Port) /\ n \in Nat /\ DOMAIN ports = 1 .. n
  BY DEF Whole, TypeOK
<1>2. c = [p \in 1 .. n |->
             IF p = server.port THEN [ports[p] EXCEPT !.open = FALSE, !.cancelled = TRUE]
             ELSE ports[p]]
  BY <1>1 DEF Closed
<1> HIDE DEF n, c
<1>3. ASSUME NEW p \in 1 .. n
      PROVE  c[p] \in Port /\ PortOK(c[p]) /\ (c[p].open => c[p] = ports[p])
  <2> DEFINE w == ports[p]
             x == [w EXCEPT !.open = FALSE, !.cancelled = TRUE]
  <2>1. w \in Port /\ PortOK(w)
    BY <1>1 DEF Whole
  <2>2. c[p] = x \/ c[p] = w
    BY <1>2
  <2> HIDE DEF w
  <2>3. x \in Port /\ PortOK(x) /\ ~x.open
    BY <2>1 DEF Port, PortOK
  <2> HIDE DEF x
  <2> QED
    BY <2>1, <2>2, <2>3 DEF w
<1>4. c = [p \in 1 .. n |-> c[p]]
  BY <1>2
<1>5. c \in Seq(Port) /\ Len(c) = n /\ DOMAIN c = 1 .. n
  <2>1. \A p \in 1 .. n : c[p] \in Port
    BY <1>3
  <2> QED
    BY <1>1, <1>4, <2>1
<1> QED
  BY <1>1, <1>3, <1>5 DEF n, c

LEMMA WholeClose ==
  ASSUME Whole, ports' = Closed, server' = [server EXCEPT !.connected = FALSE, !.port = Nil],
         UNCHANGED <<rest, sent, served, asked, up>>
  PROVE  Whole'
<1>1. /\ ports' \in Seq(Port) /\ Len(ports') >= Len(ports) /\ DOMAIN ports' = DOMAIN ports
      /\ \A p \in DOMAIN ports : PortOK(ports'[p]) /\ (ports'[p].open => ports'[p] = ports[p])
  <2>1. Len(ports) \in Nat
    BY DEF Whole, TypeOK
  <2> QED
    BY <2>1, WholeClosed
<1>2. \A p \in DOMAIN ports : Usable(p)' => Usable(p) /\ ports'[p] = ports[p]
  BY <1>1 DEF Usable
<1>3. server' \in [connected : BOOLEAN, port : Nat, name : Names \cup {NoName}, baud : Nat]
  BY DEF Whole, TypeOK, Nil
<1>4. rest' \in Seq(Byte) /\ rest' = rest
  BY DEF Whole, TypeOK
<1> QED
  BY <1>1, <1>2, <1>3, <1>4, WholePorts

LEMMA WholeOpen ==
  ASSUME Whole, NEW name \in Names, NEW baud \in Bauds, Open(name, baud),
         UNCHANGED <<rest, sent, served, asked, up>>
  PROVE  Whole'
<1> DEFINE c == Closed
           n == Len(ports)
           rate == IF baud = 0 THEN 9600 ELSE baud
           x == NewPort(name, rate)
<1>1. rate \in Nat /\ n \in Nat /\ DOMAIN ports = 1 .. n
  BY LineAssumption DEF Whole, TypeOK
<1>2. x \in Port /\ PortOK(x)
  <2>1. << >> \in Seq(Byte)
    OBVIOUS
  <2> HIDE DEF rate
  <2> QED
    BY <1>1, <2>1 DEF NewPort, Port, PortOK
<1>3. /\ ports' = Append(c, x)
      /\ server' = [connected |-> TRUE, port |-> n + 1, name |-> name, baud |-> rate]
  BY DEF Open
<1>4. /\ c \in Seq(Port) /\ Len(c) = n
      /\ \A p \in 1 .. n : PortOK(c[p]) /\ (c[p].open => c[p] = ports[p])
  BY <1>1, WholeClosed
<1> HIDE DEF c, n, rate, x
<1>5. /\ ports' \in Seq(Port) /\ Len(ports') = n + 1 /\ DOMAIN ports' = 1 .. n + 1
      /\ \A p \in 1 .. n : ports'[p] = c[p]
      /\ ports'[n + 1] = x
  BY <1>1, <1>2, <1>3, <1>4
<1>6. \A p \in DOMAIN ports' : PortOK(ports'[p])
  <2>1. \A p \in 1 .. n + 1 : p \in 1 .. n \/ p = n + 1
    BY <1>1
  <2> QED
    BY <1>2, <1>4, <1>5, <2>1
<1>7. \A p \in DOMAIN ports : Usable(p)' => Usable(p) /\ ports'[p] = ports[p]
  BY <1>1, <1>4, <1>5 DEF Usable
<1>8. server' \in [connected : BOOLEAN, port : Nat, name : Names \cup {NoName}, baud : Nat]
  BY <1>1, <1>3
<1>9. rest' \in Seq(Byte) /\ rest' = rest /\ Len(ports') >= Len(ports)
  <2>1. Len(ports') >= n
    BY <1>1, <1>5
  <2> QED
    BY <2>1 DEF Whole, TypeOK, n
<1> QED
  BY <1>5, <1>6, <1>7, <1>8, <1>9, WholePorts

-----------------------------------------------------------------------------
LEMMA InitWhole == Init => Whole
<1> SUFFICES ASSUME Init
             PROVE  Whole
  OBVIOUS
<1>1. /\ ports = << >> /\ rest = << >> /\ sent = << >> /\ served = << >> /\ asked = Nil /\ up = TRUE
      /\ server = [connected |-> FALSE, port |-> Nil, name |-> NoName, baud |-> 9600]
  BY DEF Init
<1>2. /\ ports \in Seq(Port) /\ rest \in Seq(Byte) /\ sent \in Seq(Nat \X Seq(Byte))
      /\ served \in Seq(Nat \X Seq(Byte)) /\ asked \in 0 .. Len(ports) /\ up \in BOOLEAN
  BY <1>1 DEF Nil
<1>3. server \in [connected : BOOLEAN, port : Nat, name : Names \cup {NoName}, baud : Nat]
  BY <1>1 DEF Nil
<1> QED
  BY <1>1, <1>2, <1>3 DEF Whole, TypeOK, Awaited

LEMMA StepWhole == Whole /\ [Next]_vars => Whole'
<1> SUFFICES ASSUME Whole, [Next]_vars
             PROVE  Whole'
  OBVIOUS
<1>1. ASSUME NEW name \in Names, NEW baud \in Bauds, Connect(name, baud)
      PROVE  Whole'
  BY <1>1, WholeOpen, WholeClose DEF Connect, FailToOpen
<1>2. CASE Disconnect
  BY <1>2, WholeClose DEF Disconnect
<1>3. ASSUME NEW p \in DOMAIN ports, Unplug(p)
      PROVE  Whole'
  BY <1>3, WholeUnplug
<1>4. ASSUME NEW p \in DOMAIN ports, ReadLoop(p)
      PROVE  Whole'
  BY <1>4, WholeCheck, WholeRead, WholeReadNothing, WholeServe, WholeWrite DEF ReadLoop
<1>5. ASSUME NEW p \in DOMAIN ports, NEW m \in Messages, Send(p, m)
      PROVE  Whole'
  BY <1>5, WholeSend
<1>6. CASE SendRest
  BY <1>6, WholeSendRest
<1>7. CASE UNCHANGED vars
  <2>1. UNCHANGED <<server, ports, rest, sent, served, asked, up>>
    BY <1>7 DEF vars
  <2> QED
    BY <2>1 DEF Whole, TypeOK, Awaited, IsAwaited, Usable
<1> QED
  BY <1>1, <1>2, <1>3, <1>4, <1>5, <1>6, <1>7 DEF Next

THEOREM Wholeness == Spec => []Whole
<1> QED
  BY InitWhole, StepWhole, PTL DEF Spec

(* The fields of the server, of every port ever opened and of the line have     *)
(* their types: what is read is bytes, whatever bits were flipped.              *)
THEOREM TypeCorrect == Spec => []TypeOK
<1>1. Whole => TypeOK
  BY DEF Whole
<1> QED
  BY <1>1, Wholeness, PTL

(* readLoop: a master that waits for its answer has its whole frame, and        *)
(* nothing else, in the buffer of the port.                                     *)
THEOREM AwaitedIsWhole == Spec => []AwaitedFrameIsWhole
<1> QED
  BY WholeIsAwaited, Wholeness, PTL

(* CalculateCRC16 is the remainder for every frame that is ever read.           *)
THEOREM ChecksumIsRemainder == Spec => []CRCIsRemainder
<1>1. Whole => CRCIsRemainder
  <2> SUFFICES ASSUME Whole, NEW p \in DOMAIN ports
               PROVE  CalculateCRC16(ports[p].frame) = Remainder(ports[p].frame)
    BY DEF CRCIsRemainder
  <2>1. ports[p] \in Port
    BY DEF Whole, TypeOK
  <2> QED
    BY <2>1, PortFields, ChecksumDivides
<1> QED
  BY <1>1, Wholeness, PTL

-----------------------------------------------------------------------------
(* Where the bytes in the buffers come from.  The bytes of the frame a loop     *)
(* reads, and those that wait to be read, are whole pieces of what the line     *)
(* carried since the port was opened.  When the first of them begins a frame,   *)
(* that frame is the k-th (j-th) sent, after all that were answered.            *)

Starts(pieces) == pieces # << >> /\ pieces[1].starts # << >>

(* What the line has seen: the frames sent and served, and whether one is still *)
(* to be ended.                                                                 *)
Line == [sent |-> sent, served |-> served, left |-> IF rest = << >> THEN 0 ELSE 1]

IsLine(l) ==
  /\ l.sent \in Seq(Nat \X Seq(Byte)) /\ l.served \in Seq(Nat \X Seq(Byte))
  /\ l.left \in {0, 1} /\ l.left <= 2 * Len(l.sent)

Reads(l, p, port, f, r, s, k, j) ==
  /\ port.frame = Bytes(r) /\ port.inbox = Bytes(s)
  /\ Starts(r) => k \in DOMAIN l.sent /\ l.sent[k] = <<p, r[1].starts>>
  /\ Starts(s) => j \in DOMAIN l.sent /\ l.sent[j] = <<p, s[1].starts>>
  /\ Starts(r) /\ Starts(s) => k < j
  /\ \A i \in DOMAIN l.served :
       l.served[i][1] = p => /\ Starts(r) /\ port.pc # "reply" => f[i] < k
                             /\ Starts(s) => f[i] < j
  /\ Len(r) + Len(s) + l.left <= 2 * Len(l.sent)

IsTraced(l, p, port, f) ==
  \E r, s \in Seq(Pieces) : \E k, j \in Nat : Reads(l, p, port, f, r, s, k, j)

(* The frames that were served, as OnlySentFramesAreServed has them *)
Apart(l, f, i, j) == IF l.served[i][1] = l.served[j][1] THEN f[i] < f[j] ELSE f[i] # f[j]

IsOf(l, f, i) ==
  l.served[i][1] = l.sent[f[i]][1] /\ IsServedAs(l.served[i][2], l.sent[f[i]][2])

Matches(l, f) ==
  /\ f \in [DOMAIN l.served -> DOMAIN l.sent]
  /\ \A i, j \in DOMAIN l.served : i < j => Apart(l, f, i, j)
  /\ \A i \in DOMAIN l.served : IsOf(l, f, i)

IsRemains(bytes) == \E piece \in Pieces : piece.starts = << >> /\ bytes = piece.bytes

Traced ==
  /\ IsLine(Line) /\ Len(sent) <= MaxSent
  /\ rest # << >> => IsRemains(rest)
  /\ \E f : Matches(Line, f) /\ \A p \in DOMAIN ports : IsTraced(Line, p, ports[p], f)

LEMMA TracedIsSent == Traced => OnlySentFramesAreServed
<1> SUFFICES ASSUME Traced
             PROVE  OnlySentFramesAreServed
  OBVIOUS
<1>1. PICK f : Matches(Line, f)
  BY DEF Traced
<1>2. Line.sent = sent /\ Line.served = served
  BY DEF Line
<1> QED
  BY <1>1, <1>2 DEF Matches, Apart, IsOf, OnlySentFramesAreServed

(* What Send puts on the line *)
LEMMA CarriedPieces ==
  ASSUME NEW m \in Messages
  PROVE  LET line == Flipped(m.bytes, m.noise)
             late == SubSeq(line, m.pause + 1, Len(line))
         IN /\ [bytes |-> SubSeq(line, 1, m.pause), starts |-> m.bytes] \in Pieces
            /\ late # << >> => IsRemains(late)
<1> DEFINE line == Flipped(m.bytes, m.noise)
           late == SubSeq(line, m.pause + 1, Len(line))
           piece == [bytes |-> late, starts |-> << >>]
<1>1. m.bytes \in Seq(Byte) /\ m.pause \in 1 .. Len(m.bytes)
  BY LineAssumption
<1>2. line \in Seq(Byte) /\ Len(line) = Len(m.bytes)
  BY <1>1, FlippedTyped
<1>3. [bytes |-> SubSeq(line, 1, m.pause), starts |-> m.bytes] \in Pieces
  BY DEF Pieces
<1>4. ASSUME late # << >>
      PROVE  IsRemains(late)
  <2>1. m.pause < Len(m.bytes)
    <3>1. CASE m.pause = Len(m.bytes)
      <4>1. Len(late) = 0 /\ late \in Seq(Byte)
        <5> HIDE DEF line
        <5> QED
          BY <1>1, <1>2, <3>1
      <4> HIDE DEF late
      <4> QED
        BY <1>4, <4>1
    <3> QED
      BY <1>1, <3>1
  <2>2. piece \in Pieces
    BY <1>2, <2>1 DEF Pieces
  <2>3. piece.starts = << >> /\ piece.bytes = late
    OBVIOUS
  <2> HIDE DEF piece, late
  <2> QED
    BY <2>2, <2>3 DEF IsRemains
<1> QED
  BY <1>3, <1>4

LEMMA PieceTyped ==
  ASSUME NEW piece \in Pieces
  PROVE  piece.bytes \in Seq(Byte) /\ piece.starts \in Seq(Byte)
<1>1. ASSUME NEW m \in Messages
      PROVE  /\ m.bytes \in Seq(Byte) /\ << >> \in Seq(Byte)
             /\ SubSeq(Flipped(m.bytes, m.noise), 1, m.pause) \in Seq(Byte)
             /\ SubSeq(Flipped(m.bytes, m.noise), m.pause + 1, Len(m.bytes)) \in Seq(Byte)
  <2> DEFINE line == Flipped(m.bytes, m.noise)
  <2>1. m.bytes \in Seq(Byte) /\ m.pause \in 1 .. Len(m.bytes)
    BY LineAssumption
  <2>2. line \in Seq(Byte) /\ Len(line) = Len(m.bytes)
    BY <2>1, FlippedTyped
  <2> HIDE DEF line
  <2>3. SubSeq(line, 1, m.pause) \in Seq(Byte) /\ SubSeq(line, m.pause + 1, Len(m.bytes)) \in Seq(Byte)
    BY <2>1, <2>2
  <2> QED
    BY <2>1, <2>3 DEF line
<1> DEFINE Early(m) == [bytes |-> SubSeq(Flipped(m.bytes, m.noise), 1, m.pause), starts |-> m.bytes]
           Late(m)  == [bytes |-> SubSeq(Flipped(m.bytes, m.noise), m.pause + 1, Len(m.bytes)),
                        starts |-> << >>]
<1>2. \E m \in Messages : piece = Early(m) \/ piece = Late(m)
  BY DEF Pieces
<1>3. PICK m \in Messages : piece = Early(m) \/ piece = Late(m)
  BY <1>2
<1>4. CASE piece = Early(m)
  BY <1>1, <1>4
<1>5. CASE piece = Late(m)
  BY <1>1, <1>5
<1> QED
  BY <1>3, <1>4, <1>5

LEMMA NoPieces ==
  << >> \in Seq(Pieces) /\ Len(<< >>) = 0 /\ ~Starts(<< >>) /\ Bytes(<< >>) = << >>
<1> DEFINE none == << >>
<1>1. none \in Seq(Seq(Byte)) /\ Len(none) = 0
  OBVIOUS
<1>2. Streams(none)[0] = << >>
  BY <1>1, StreamsOfPieces
<1>3. [i \in DOMAIN << >> |-> << >>[i].bytes] = none
  OBVIOUS
<1>4. Bytes(<< >>) = Streams(none)[Len(none)]
  BY <1>3 DEF Bytes, Stream
<1> QED
  BY <1>1, <1>2, <1>4 DEF Starts

LEMMA CarriedTyped ==
  ASSUME NEW q \in Seq(Pieces)
  PROVE  /\ [i \in DOMAIN q |-> q[i].bytes] \in Seq(Seq(Byte))
         /\ Len([i \in DOMAIN q |-> q[i].bytes]) = Len(q)
         /\ Bytes(q) \in Seq(Byte)
<1> DEFINE carried == [i \in DOMAIN q |-> q[i].bytes]
           n == Len(q)
<1>1. n \in Nat /\ \A i \in 1 .. n : q[i].bytes \in Seq(Byte)
  BY PieceTyped
<1>2. carried = [i \in 1 .. n |-> q[i].bytes]
  OBVIOUS
<1>3. carried \in Seq(Seq(Byte)) /\ Len(carried) = n
  <2> HIDE DEF n
  <2> QED
    BY <1>1, <1>2
<1> HIDE DEF carried
<1>4. Streams(carried) \in [0 .. n -> Seq(Byte)] /\ n \in 0 .. n
  <2>1. Streams(carried) \in [0 .. Len(carried) -> Seq(Byte)]
    BY <1>3, StreamsOfPieces
  <2> HIDE DEF n
  <2> QED
    BY <1>1, <1>3, <2>1
<1>5. Stream(carried) \in Seq(Byte)
  BY <1>3, <1>4 DEF Stream
<1> QED
  BY <1>3, <1>5 DEF Bytes, carried

LEMMA BytesOfBoth ==
  ASSUME NEW r \in Seq(Pieces), NEW s \in Seq(Pieces)
  PROVE  /\ r \o s \in Seq(Pieces) /\ Len(r \o s) = Len(r) + Len(s)
         /\ Bytes(r \o s) = Bytes(r) \o Bytes(s)
<1> DEFINE q == r \o s
           m == Len(r)
           n == Len(s)
           a == [i \in DOMAIN r |-> r[i].bytes]
           b == [i \in DOMAIN s |-> s[i].bytes]
           c == [i \in DOMAIN q |-> q[i].bytes]
<1>1. /\ m \in Nat /\ n \in Nat /\ q \in Seq(Pieces) /\ Len(q) = m + n
      /\ DOMAIN r = 1 .. m /\ DOMAIN s = 1 .. n /\ DOMAIN q = 1 .. m + n
      /\ \A i \in 1 .. m + n : q[i] = IF i <= m THEN r[i] ELSE s[i - m]
  OBVIOUS
<1> HIDE DEF q
<1>2. /\ a \in Seq(Seq(Byte)) /\ b \in Seq(Seq(Byte)) /\ c \in Seq(Seq(Byte))
      /\ Len(a) = m /\ Len(b) = n /\ Len(c) = m + n
  BY <1>1, CarriedTyped
<1>3. \A i \in 1 .. m + n : c[i] = IF i <= m THEN a[i] ELSE b[i - m]
  <2> HIDE DEF m, n
  <2> QED
    BY <1>1
<1> HIDE DEF a, b, c, m, n
<1>4. a \o b \in Seq(Seq(Byte)) /\ Len(a \o b) = m + n
  <2>1. a \o b \in Seq(Seq(Byte)) /\ Len(a \o b) = Len(a) + Len(b)
    BY <1>2, ConcatProperties
  <2> QED
    BY <1>2, <2>1
<1>5. \A i \in 1 .. m + n : (a \o b)[i] = IF i <= m THEN a[i] ELSE b[i - m]
  <2>1. \A i \in 1 .. Len(a) + Len(b) : (a \o b)[i] = IF i <= Len(a) THEN a[i] ELSE b[i - Len(a)]
    BY <1>2, ConcatProperties
  <2> QED
    BY <1>2, <2>1
<1>6. c = a \o b
  <2> DEFINE ab == a \o b
  <2>1. ab \in Seq(Seq(Byte)) /\ Len(c) = Len(ab) /\ \A i \in 1 .. Len(c) : c[i] = ab[i]
    BY <1>2, <1>3, <1>4, <1>5
  <2> HIDE DEF ab
  <2>2. c = ab
    BY <1>2, <2>1, SeqEqual
  <2> QED
    BY <2>2 DEF ab
<1>7. Stream(c) = Stream(a) \o Stream(b)
  BY <1>2, <1>6, StreamOfBoth
<1> QED
  BY <1>1, <1>7 DEF Bytes, a, b, c, q, m, n

(* A sequence begins as its first part does, if there is one *)
LEMMA StartsAsFirst ==
  ASSUME NEW r \in Seq(Pieces), NEW s \in Seq(Pieces)
  PROVE  /\ r # << >> => /\ Starts(r \o s) <=> Starts(r)
                         /\ (r \o s)[1] = r[1]
         /\ r = << >> => r \o s = s
<1>1. ASSUME r # << >>
      PROVE  (r \o s)[1] = r[1] /\ r \o s # << >>
  BY <1>1
<1> QED
  BY <1>1 DEF Starts

LEMMA OnePiece ==
  ASSUME NEW piece \in Pieces
  PROVE  /\ <<piece>> \in Seq(Pieces) /\ Len(<<piece>>) = 1 /\ <<piece>>[1] = piece
         /\ Bytes(<<piece>>) = piece.bytes
         /\ Starts(<<piece>>) <=> piece.starts # << >>
<1> DEFINE one == <<piece>>
           carried == [i \in DOMAIN one |-> one[i].bytes]
<1>1. one \in Seq(Pieces) /\ Len(one) = 1 /\ one[1] = piece /\ DOMAIN one = 1 .. 1 /\ one # << >>
  OBVIOUS
<1> HIDE DEF one
<1>2. carried \in Seq(Seq(Byte)) /\ Len(carried) = 1 /\ carried[1] = piece.bytes
  <2>1. carried[1] = one[1].bytes
    BY <1>1
  <2>2. carried \in Seq(Seq(Byte)) /\ Len(carried) = Len(one)
    BY <1>1, CarriedTyped
  <2> HIDE DEF carried
  <2> QED
    BY <1>1, <2>1, <2>2
<1> HIDE DEF carried
<1>3. /\ Streams(carried)[0] = << >>
      /\ \A n \in 1 .. 1 : Streams(carried)[n] = Streams(carried)[n - 1] \o carried[n]
  BY <1>2, StreamsOfPieces
<1>4. Stream(carried) = << >> \o piece.bytes
  <2>1. 1 \in 1 .. 1 /\ 1 - 1 = 0
    OBVIOUS
  <2>2. Streams(carried)[1] = Streams(carried)[0] \o carried[1]
    BY <1>3, <2>1
  <2> QED
    BY <1>2, <1>3, <2>2 DEF Stream
<1>5. << >> \o piece.bytes = piece.bytes
  BY PieceTyped, Appended
<1>6. Bytes(one) = piece.bytes
  BY <1>4, <1>5 DEF Bytes, carried
<1> QED
  BY <1>1, <1>6 DEF one, Starts

(* Recognisable, of what a loop may have read *)
LEMMA ReadIsRecognised ==
  ASSUME Recognisable, NEW q \in Seq(Pieces), Len(q) <= 2 * MaxSent,
         RTUAnswer(Units, Bytes(q)) # NoReply
  PROVE  Starts(q) /\ IsServedAs(Bytes(q), q[1].starts)
<1> DEFINE n == Len(q)
<1>1. n \in Nat /\ q \in [1 .. n -> Pieces]
  OBVIOUS
<1>2. n # 0
  <2>1. SUFFICES ASSUME n = 0
                 PROVE  RTUAnswer(Units, Bytes(q)) = NoReply
    OBVIOUS
  <2>2. q = << >>
    BY <2>1
  <2>3. Bytes(q) = << >> /\ Len(<< >>) < 4
    BY <2>2, NoPieces
  <2> QED
    BY <2>3 DEF RTUAnswer
<1>3. n \in 1 .. 2 * MaxSent
  BY <1>1, <1>2, LineAssumption
<1>4. q # << >>
  BY <1>2
<1> HIDE DEF n
<1> QED
  BY <1>1, <1>3, <1>4 DEF Recognisable, Starts

-----------------------------------------------------------------------------
(* The buffers of one port, in each kind of step *)

(* The line goes on, but neither is anything of this port served nor read *)
GoesOn(l, new) ==
  /\ Len(l.sent) <= Len(new.sent) /\ \A i \in DOMAIN l.sent : new.sent[i] = l.sent[i]
  /\ 2 * Len(l.sent) - l.left <= 2 * Len(new.sent) - new.left

LEMMA TracedAsBefore ==
  ASSUME NEW l, NEW new, IsLine(l), IsLine(new), NEW p, NEW port, NEW f, NEW g,
         IsTraced(l, p, port, f), GoesOn(l, new),
         \A i \in DOMAIN new.served :
           new.served[i][1] = p => i \in DOMAIN l.served /\ l.served[i][1] = p /\ g[i] = f[i]
  PROVE  IsTraced(new, p, port, g)
<1> USE DEF GoesOn
<1>1. PICK r \in Seq(Pieces), s \in Seq(Pieces), k \in Nat, j \in Nat :
        Reads(l, p, port, f, r, s, k, j)
  BY DEF IsTraced
<1> DEFINE a == Len(r)
           b == Len(s)
           m == Len(l.sent)
           n == Len(new.sent)
<1>2. /\ a \in Nat /\ b \in Nat /\ m \in Nat /\ n \in Nat /\ l.left \in Nat /\ new.left \in Nat
      /\ DOMAIN l.sent = 1 .. m /\ DOMAIN new.sent = 1 .. n
  <2>1. a \in Nat /\ b \in Nat
    OBVIOUS
  <2>2. m \in Nat /\ l.left \in Nat /\ DOMAIN l.sent = 1 .. m
    BY SMTT(60) DEF IsLine
  <2>3. n \in Nat /\ new.left \in Nat /\ DOMAIN new.sent = 1 .. n
    BY DEF IsLine
  <2> QED
    BY <2>1, <2>2, <2>3
<1>3. a + b + l.left <= 2 * m
  BY <1>1 DEF Reads
<1> HIDE DEF a, b, m, n
<1>4. a + b + new.left <= 2 * n
  <2>1. 2 * m - l.left <= 2 * n - new.left
    BY DEF m, n
  <2> DEFINE u == l.left
             v == new.left
  <2>2. u \in Nat /\ v \in Nat /\ a + b + u <= 2 * m /\ 2 * m - u <= 2 * n - v
    BY <1>2, <1>3, <2>1
  <2> HIDE DEF u, v
  <2>3. a + b + v <= 2 * n
    BY <1>2, <2>2
  <2> QED
    BY <2>3 DEF v
<1>5. \A i \in DOMAIN l.sent : i \in DOMAIN new.sent
  <2>1. m <= n
    BY DEF m, n
  <2> QED
    BY <1>2, <2>1
<1>6. Reads(new, p, port, g, r, s, k, j)
  <2>1. /\ Starts(r) => k \in DOMAIN new.sent /\ new.sent[k] = <<p, r[1].starts>>
        /\ Starts(s) => j \in DOMAIN new.sent /\ new.sent[j] = <<p, s[1].starts>>
    BY <1>1, <1>5 DEF Reads
  <2>2. \A i \in DOMAIN new.served :
          new.served[i][1] = p => /\ Starts(r) /\ port.pc # "reply" => g[i] < k
                                  /\ Starts(s) => g[i] < j
    BY <1>1 DEF Reads
  <2>3. Len(r) + Len(s) + new.left <= 2 * Len(new.sent)
    BY <1>4 DEF a, b, n
  <2> QED
    BY <1>1, <2>1, <2>2, <2>3 DEF Reads
<1> QED
  BY <1>6 DEF IsTraced

(* The port keeps its buffers, or is left with an empty one *)
StaysTraced(old, new) ==
  /\ new.inbox = old.inbox
  /\ \/ new.frame = old.frame /\ (old.pc = "reply" => new.pc = "reply")
     \/ new.frame = << >>

LEMMA TracedStays ==
  ASSUME NEW l, IsLine(l), NEW p, NEW old, NEW new, NEW f, IsTraced(l, p, old, f),
         StaysTraced(old, new)
  PROVE  IsTraced(l, p, new, f)
<1>1. PICK r \in Seq(Pieces), s \in Seq(Pieces), k \in Nat, j \in Nat : Reads(l, p, old, f, r, s, k, j)
  BY DEF IsTraced
<1>2. CASE new.frame = old.frame /\ (old.pc = "reply" => new.pc = "reply")
  <2>1. Reads(l, p, new, f, r, s, k, j)
    BY <1>1, <1>2 DEF Reads, StaysTraced
  <2> QED
    BY <2>1 DEF IsTraced
<1>3. CASE new.frame = << >>
  <2> DEFINE none == << >>
  <2>1. none \in Seq(Pieces) /\ ~Starts(none) /\ new.frame = Bytes(none)
    BY <1>3, NoPieces
  <2>2. Len(none) + Len(s) + l.left <= 2 * Len(l.sent)
    <3> DEFINE a == Len(r)
               b == Len(s)
               c == 2 * Len(l.sent)
               d == l.left
    <3>1. a \in Nat /\ b \in Nat /\ c \in Nat /\ d \in Nat /\ Len(none) = 0
      BY DEF IsLine
    <3>2. a + b + d <= c
      BY <1>1 DEF Reads
    <3> HIDE DEF a, b, c, d, none
    <3>3. 0 + b + d <= c
      BY <3>1, <3>2
    <3> QED
      BY <3>1, <3>3 DEF b, c, d
  <2> HIDE DEF none
  <2>3. Reads(l, p, new, f, none, s, k, j)
    BY <1>1, <2>1, <2>2 DEF Reads, StaysTraced
  <2> QED
    BY <2>1, <2>3 DEF IsTraced
<1> QED
  BY <1>2, <1>3 DEF StaysTraced

LEMMA TracedEmpty ==
  ASSUME NEW l, IsLine(l), NEW p, NEW port, NEW f, port.frame = << >>, port.inbox = << >>
  PROVE  IsTraced(l, p, port, f)
<1> DEFINE none == << >>
<1>1. none \in Seq(Pieces) /\ ~Starts(none) /\ Bytes(none) = none /\ Len(none) = 0
  BY NoPieces
<1>2. 0 + 0 + l.left <= 2 * Len(l.sent)
  BY DEF IsLine
<1>3. port.frame = none /\ port.inbox = none
  OBVIOUS
<1> HIDE DEF none
<1>4. Reads(l, p, port, f, none, none, 0, 0)
  BY <1>1, <1>2, <1>3 DEF Reads
<1>5. 0 \in Nat
  OBVIOUS
<1> QED
  BY <1>1, <1>4, <1>5 DEF IsTraced

(* Read: what waits comes after what was read *)
LEMMA TracedRead ==
  ASSUME NEW l, IsLine(l), NEW p, NEW old, NEW new, NEW f, IsTraced(l, p, old, f),
         old.pc # "reply", new.frame = old.frame \o old.inbox, new.inbox = << >>
  PROVE  IsTraced(l, p, new, f)
<1>1. PICK r \in Seq(Pieces), s \in Seq(Pieces), k \in Nat, j \in Nat : Reads(l, p, old, f, r, s, k, j)
  BY DEF IsTraced
<1> DEFINE q == r \o s
           none == << >>
<1>2. /\ q \in Seq(Pieces) /\ Bytes(q) = Bytes(r) \o Bytes(s) /\ Len(q) = Len(r) + Len(s)
      /\ (r # << >> => (Starts(q) <=> Starts(r)) /\ q[1] = r[1])
      /\ (r = << >> => q = s)
  BY BytesOfBoth, StartsAsFirst
<1>3. none \in Seq(Pieces) /\ ~Starts(none) /\ Bytes(none) = none /\ Len(none) = 0
  BY NoPieces
<1>4. new.inbox = none
  OBVIOUS
<1> HIDE DEF q, none
<1>5. new.frame = Bytes(q) /\ new.inbox = Bytes(none)
  BY <1>1, <1>2, <1>3, <1>4 DEF Reads
<1> DEFINE Begins(m) ==
             /\ Starts(q) => m \in DOMAIN l.sent /\ l.sent[m] = <<p, q[1].starts>>
             /\ \A i \in DOMAIN l.served : l.served[i][1] = p => (Starts(q) => f[i] < m)
<1>6. ASSUME r # << >>
      PROVE  Begins(k)
  BY <1>1, <1>2, <1>6 DEF Reads
<1>7. ASSUME r = << >>
      PROVE  Begins(j)
  BY <1>1, <1>2, <1>7 DEF Reads
<1> HIDE DEF Begins
<1>8. PICK m \in Nat : Begins(m)
  BY <1>6, <1>7
<1> USE DEF Begins
<1>9. Len(q) + Len(none) + l.left <= 2 * Len(l.sent)
  <2> DEFINE a == Len(r)
             b == Len(s)
             c == 2 * Len(l.sent)
             d == l.left
  <2>1. a \in Nat /\ b \in Nat /\ c \in Nat /\ d \in Nat
    BY DEF IsLine
  <2>2. a + b + d <= c
    BY <1>1 DEF Reads
  <2> HIDE DEF a, b, c, d
  <2>3. (a + b) + 0 + d <= c
    BY <2>1, <2>2
  <2> QED
    BY <1>2, <1>3, <2>3 DEF a, b, c, d
<1>10. Reads(l, p, new, f, q, none, m, 0)
  BY <1>3, <1>5, <1>8, <1>9 DEF Reads
<1>11. 0 \in Nat
  OBVIOUS
<1> QED
  BY <1>2, <1>3, <1>8, <1>10, <1>11 DEF IsTraced

(* SendRest: what arrives begins nothing *)
LEMMA TracedRest ==
  ASSUME NEW l, NEW new, IsLine(l), NEW p, NEW old, NEW port, NEW f, IsTraced(l, p, old, f),
         NEW bytes, IsRemains(bytes), l.left = 1,
         new.sent = l.sent, new.served = l.served, new.left = 0,
         port.frame = old.frame, port.pc = old.pc, port.inbox = old.inbox \o bytes
  PROVE  IsTraced(new, p, port, f)
<1>1. PICK r \in Seq(Pieces), s \in Seq(Pieces), k \in Nat, j \in Nat : Reads(l, p, old, f, r, s, k, j)
  BY DEF IsTraced
<1>2. PICK piece \in Pieces : piece.starts = << >> /\ bytes = piece.bytes
  BY DEF IsRemains
<1> DEFINE one == <<piece>>
           q == s \o one
<1>3. one \in Seq(Pieces) /\ Len(one) = 1 /\ Bytes(one) = bytes /\ ~Starts(one)
  BY <1>2, OnePiece
<1> HIDE DEF one
<1>4. /\ q \in Seq(Pieces) /\ Bytes(q) = Bytes(s) \o bytes /\ Len(q) = Len(s) + 1
      /\ (Starts(q) => Starts(s) /\ q[1] = s[1])
  <2>1. q \in Seq(Pieces) /\ Bytes(q) = Bytes(s) \o Bytes(one) /\ Len(q) = Len(s) + Len(one)
    BY <1>3, BytesOfBoth
  <2>2. /\ s # << >> => (Starts(q) <=> Starts(s)) /\ q[1] = s[1]
        /\ s = << >> => q = one
    BY <1>3, StartsAsFirst
  <2> HIDE DEF q
  <2> QED
    BY <1>3, <2>1, <2>2
<1> HIDE DEF q
<1>5. Len(r) + Len(q) + new.left <= 2 * Len(new.sent)
  <2> DEFINE a == Len(r)
             b == Len(s)
             c == 2 * Len(l.sent)
  <2>1. a \in Nat /\ b \in Nat /\ c \in Nat
    BY DEF IsLine
  <2>2. a + b + 1 <= c
    BY <1>1 DEF Reads
  <2> HIDE DEF a, b, c
  <2>3. a + (b + 1) + 0 <= c
    BY <2>1, <2>2
  <2> QED
    BY <1>4, <2>3 DEF a, b, c
<1>6. port.inbox = Bytes(q) /\ port.frame = Bytes(r)
  BY <1>1, <1>4 DEF Reads
<1>7. Reads(new, p, port, f, r, q, k, j)
  BY <1>1, <1>4, <1>5, <1>6 DEF Reads
<1> QED
  BY <1>4, <1>7 DEF IsTraced

(* Send: what arrives begins the last frame sent *)
LEMMA TracedSent ==
  ASSUME NEW l, NEW new, IsLine(l), IsLine(new), NEW p, NEW old, NEW port, NEW f,
         IsTraced(l, p, old, f), f \in [DOMAIN l.served -> DOMAIN l.sent],
         NEW piece \in Pieces, l.left = 0, new.sent = Append(l.sent, <<p, piece.starts>>),
         new.served = l.served,
         port.frame = old.frame, port.pc = old.pc, port.inbox = old.inbox \o piece.bytes
  PROVE  IsTraced(new, p, port, f)
<1>1. PICK r \in Seq(Pieces), s \in Seq(Pieces), k \in Nat, j \in Nat : Reads(l, p, old, f, r, s, k, j)
  BY DEF IsTraced
<1> DEFINE one == <<piece>>
           q == s \o one
           n == Len(l.sent)
<1>2. /\ n \in Nat /\ Len(new.sent) = n + 1 /\ DOMAIN l.sent = 1 .. n /\ DOMAIN new.sent = 1 .. n + 1
      /\ new.sent[n + 1] = <<p, piece.starts>> /\ \A i \in 1 .. n : new.sent[i] = l.sent[i]
  BY SMTT(60) DEF IsLine
<1>3. /\ one \in Seq(Pieces) /\ Len(one) = 1 /\ Bytes(one) = piece.bytes /\ one[1] = piece
  BY OnePiece
<1> HIDE DEF one
<1>4. /\ q \in Seq(Pieces) /\ Bytes(q) = Bytes(s) \o piece.bytes /\ Len(q) = Len(s) + 1
      /\ (s # << >> => (Starts(q) <=> Starts(s)) /\ q[1] = s[1])
      /\ (s = << >> => q[1] = piece)
  <2>1. q \in Seq(Pieces) /\ Bytes(q) = Bytes(s) \o Bytes(one) /\ Len(q) = Len(s) + Len(one)
    BY <1>3, BytesOfBoth
  <2>2. /\ s # << >> => (Starts(q) <=> Starts(s)) /\ q[1] = s[1]
        /\ s = << >> => q = one
    BY <1>3, StartsAsFirst
  <2> HIDE DEF q
  <2> QED
    BY <1>3, <2>1, <2>2
<1> HIDE DEF q, n
<1>5. Len(r) + Len(q) + new.left <= 2 * Len(new.sent)
  <2> DEFINE a == Len(r)
             b == Len(s)
             d == new.left
  <2>1. a \in Nat /\ b \in Nat /\ d \in Nat /\ d <= 1
    BY DEF IsLine
  <2>2. a + b + 0 <= 2 * n
    BY <1>1 DEF Reads, n
  <2> HIDE DEF a, b, d
  <2>3. a + (b + 1) + d <= 2 * (n + 1)
    BY <1>2, <2>1, <2>2
  <2> QED
    BY <1>2, <1>4, <2>3 DEF a, b, d
<1>6. port.inbox = Bytes(q) /\ port.frame = Bytes(r)
  BY <1>1, <1>4 DEF Reads
<1> DEFINE m == IF s = << >> THEN n + 1 ELSE j
<1>7. Starts(r) => k \in 1 .. n /\ k \in 1 .. n + 1 /\ k < n + 1 /\ new.sent[k] = <<p, r[1].starts>>
  <2>1. Starts(r) => k \in 1 .. n /\ l.sent[k] = <<p, r[1].starts>>
    BY <1>1, <1>2 DEF Reads
  <2>2. \A i \in 1 .. n : i \in 1 .. n + 1 /\ i < n + 1
    BY <1>2
  <2> QED
    BY <1>2, <2>1, <2>2
<1>8. /\ m \in Nat
      /\ Starts(q) => m \in 1 .. n + 1 /\ new.sent[m] = <<p, q[1].starts>>
      /\ Starts(r) /\ Starts(q) => k < m
      /\ \A i \in DOMAIN l.served : l.served[i][1] = p => (Starts(q) => f[i] < m)
  <2>1. CASE s = << >>
    <3>1. m = n + 1 /\ q[1] = piece /\ m \in 1 .. n + 1 /\ m \in Nat
      BY <1>2, <1>4, <2>1
    <3>2. \A i \in DOMAIN l.served : f[i] < n + 1
      <4>1. \A i \in DOMAIN l.served : f[i] \in 1 .. n
        BY <1>2
      <4> QED
        BY <1>2, <4>1
    <3> HIDE DEF m
    <3> QED
      BY <1>2, <1>7, <3>1, <3>2
  <2>2. CASE s # << >>
    <3>1. m = j /\ (Starts(q) <=> Starts(s)) /\ q[1] = s[1]
      BY <1>4, <2>2
    <3> HIDE DEF m
    <3>2. Starts(q) => j \in 1 .. n /\ l.sent[j] = <<p, q[1].starts>>
      BY <1>1, <1>2, <3>1 DEF Reads
    <3>3. \A i \in 1 .. n : i \in 1 .. n + 1
      BY <1>2
    <3>4. Starts(q) => m \in 1 .. n + 1 /\ new.sent[m] = <<p, q[1].starts>>
      BY <1>2, <3>1, <3>2, <3>3
    <3>5. /\ Starts(r) /\ Starts(q) => k < m
          /\ \A i \in DOMAIN l.served : l.served[i][1] = p => (Starts(q) => f[i] < m)
      BY <1>1, <3>1 DEF Reads
    <3> QED
      BY <3>1, <3>4, <3>5
  <2> QED
    BY <2>1, <2>2
<1> HIDE DEF m
<1>9. Reads(new, p, port, f, r, q, k, m)
  <2>1. \A i \in DOMAIN new.served :
          new.served[i][1] = p => /\ Starts(r) /\ port.pc # "reply" => f[i] < k
                                  /\ Starts(q) => f[i] < m
    BY <1>1, <1>8 DEF Reads
  <2> QED
    BY <1>2, <1>5, <1>6, <1>7, <1>8, <2>1 DEF Reads
<1> QED
  BY <1>4, <1>8, <1>9 DEF IsTraced

(* Serve: what was read is a frame that was sent, and that none before it was *)
IsAnswered(l, new, p, old, port) ==
  /\ old.pc # "reply" /\ RTUAnswer(Units, old.frame) # NoReply
  /\ new.sent = l.sent /\ new.left = l.left
  /\ new.served = Append(l.served, <<p, old.frame>>)
  /\ port.frame = old.frame /\ port.inbox = old.inbox /\ port.pc = "reply"

LEMMA TracedServed ==
  ASSUME Recognisable, NEW l, NEW new, IsLine(l), IsLine(new), Len(l.sent) <= MaxSent,
         NEW p, NEW old, NEW port, NEW f, IsTraced(l, p, old, f), Matches(l, f),
         IsAnswered(l, new, p, old, port)
  PROVE  \E g : /\ Matches(new, g) /\ IsTraced(new, p, port, g)
                /\ \A i \in DOMAIN l.served : g[i] = f[i]
<1> USE DEF IsAnswered
<1>1. PICK r \in Seq(Pieces), s \in Seq(Pieces), k \in Nat, j \in Nat : Reads(l, p, old, f, r, s, k, j)
  BY DEF IsTraced
<1> DEFINE n == Len(l.served)
           m == Len(l.sent)
           g == [i \in 1 .. n + 1 |-> IF i <= n THEN f[i] ELSE k]
<1>2. n \in Nat /\ m \in Nat /\ DOMAIN l.served = 1 .. n /\ DOMAIN l.sent = 1 .. m
  BY DEF IsLine
<1>3. /\ DOMAIN new.served = 1 .. n + 1 /\ new.served[n + 1] = <<p, old.frame>>
      /\ \A i \in 1 .. n : new.served[i] = l.served[i]
  BY <1>2 DEF IsLine
<1>4. DOMAIN new.sent = 1 .. m
  BY <1>2
<1>5. Starts(r) /\ IsServedAs(old.frame, r[1].starts)
  <2> DEFINE a == Len(r)
             b == Len(s)
             c == l.left
  <2>1. a \in Nat /\ b \in Nat /\ c \in Nat /\ m <= MaxSent /\ MaxSent \in Nat
    BY LineAssumption DEF IsLine
  <2>2. a + b + c <= 2 * m
    BY <1>1 DEF Reads
  <2> HIDE DEF a, b, c, m
  <2>3. a <= 2 * MaxSent
    BY <1>2, <2>1, <2>2
  <2>4. Len(r) <= 2 * MaxSent /\ old.frame = Bytes(r)
    BY <1>1, <2>3 DEF Reads, a
  <2> QED
    BY <2>4, ReadIsRecognised
<1>6. k \in 1 .. m /\ l.sent[k] = <<p, r[1].starts>>
  BY <1>1, <1>2, <1>5 DEF Reads
<1> HIDE DEF n, m
<1>7. /\ f \in [1 .. n -> 1 .. m]
      /\ \A x, y \in 1 .. n : x < y => Apart(l, f, x, y)
      /\ \A x \in 1 .. n : IsOf(l, f, x)
  BY <1>2 DEF Matches
<1>8. /\ g \in [1 .. n + 1 -> 1 .. m] /\ g[n + 1] = k
      /\ \A i \in 1 .. n : g[i] = f[i] /\ i \in 1 .. n + 1
  BY <1>2, <1>6, <1>7
<1> HIDE DEF g
<1>9. \A x \in 1 .. n : IF l.served[x][1] = p THEN f[x] < k ELSE f[x] # k
  <2>1. \A x \in 1 .. n : l.served[x][1] = p => f[x] < k
    BY <1>1, <1>2, <1>5 DEF Reads
  <2>2. \A x \in 1 .. n : f[x] = k => l.served[x][1] = p
    BY <1>6, <1>7 DEF IsOf
  <2> QED
    BY <2>1, <2>2
<1>10. ASSUME NEW x \in 1 .. n + 1, NEW y \in 1 .. n + 1, x < y
       PROVE  Apart(new, g, x, y)
  <2>1. x \in 1 .. n /\ (y \in 1 .. n \/ y = n + 1)
    BY <1>2, <1>10, SMTT(60)
  <2>2. new.served[x] = l.served[x] /\ g[x] = f[x]
    BY <1>3, <1>8, <2>1
  <2>3. CASE y \in 1 .. n
    <3>1. new.served[y] = l.served[y] /\ g[y] = f[y]
      BY <1>3, <1>8, <2>3
    <3>2. Apart(l, f, x, y)
      BY <1>7, <1>10, <2>1, <2>3
    <3> QED
      BY <2>2, <3>1, <3>2 DEF Apart
  <2>4. CASE y = n + 1
    <3>1. new.served[y] = <<p, old.frame>> /\ g[y] = k
      BY <1>3, <1>8, <2>4
    <3>2. <<p, old.frame>>[1] = p
      OBVIOUS
    <3>3. new.served[y][1] = p
      BY <3>1, <3>2
    <3> QED
      BY <1>9, <2>1, <2>2, <3>1, <3>3 DEF Apart
  <2> QED
    BY <2>1, <2>3, <2>4
<1>11. ASSUME NEW x \in 1 .. n + 1
       PROVE  IsOf(new, g, x)
  <2>1. x \in 1 .. n \/ x = n + 1
    BY <1>2
  <2>2. CASE x \in 1 .. n
    BY <1>3, <1>7, <1>8, <2>2 DEF IsOf
  <2>3. CASE x = n + 1
    BY <1>3, <1>5, <1>6, <1>8, <2>3 DEF IsOf
  <2> QED
    BY <2>1, <2>2, <2>3
<1>12. Matches(new, g)
  <2>1. g \in [DOMAIN new.served -> DOMAIN new.sent]
    BY <1>3, <1>4, <1>8
  <2>2. \A x, y \in DOMAIN new.served : x < y => Apart(new, g, x, y)
    BY <1>3, <1>10
  <2>3. \A x \in DOMAIN new.served : IsOf(new, g, x)
    BY <1>3, <1>11
  <2> QED
    BY <2>1, <2>2, <2>3 DEF Matches
<1>13. \A i \in DOMAIN new.served :
         new.served[i][1] = p => /\ Starts(r) /\ port.pc # "reply" => g[i] < k
                                 /\ Starts(s) => g[i] < j
  <2>1. ASSUME NEW i \in 1 .. n + 1, new.served[i][1] = p, Starts(s)
        PROVE  g[i] < j
    <3>1. CASE i \in 1 .. n
      <4>1. l.served[i][1] = p /\ g[i] = f[i] /\ i \in DOMAIN l.served
        BY <1>2, <1>3, <1>8, <2>1, <3>1
      <4> QED
        BY <1>1, <2>1, <4>1 DEF Reads
    <3>2. CASE i = n + 1
      BY <1>1, <1>5, <1>8, <2>1, <3>2 DEF Reads
    <3> QED
      BY <1>2, <3>1, <3>2
  <2> QED
    BY <1>3, <2>1
<1>14. Reads(new, p, port, g, r, s, k, j)
  BY <1>1, <1>13 DEF Reads
<1>15. IsTraced(new, p, port, g)
  BY <1>14 DEF IsTraced
<1> QED
  BY <1>2, <1>8, <1>12, <1>15

(* The frames served are among those sent, however many more are *)
LEMMA MatchesMore ==
  ASSUME NEW l, NEW new, IsLine(l), IsLine(new), NEW f, Matches(l, f),
         new.served = l.served, GoesOn(l, new)
  PROVE  Matches(new, f)
<1> USE DEF GoesOn
<1>1. \A i \in DOMAIN l.sent : i \in DOMAIN new.sent
  BY SMTT(60) DEF IsLine
<1>2. f \in [DOMAIN new.served -> DOMAIN new.sent]
  BY <1>1 DEF Matches
<1>3. \A i \in DOMAIN l.served : new.sent[f[i]] = l.sent[f[i]]
  BY DEF Matches
<1> QED
  BY <1>2, <1>3 DEF Matches, Apart, IsOf

-----------------------------------------------------------------------------
(* Each step of the server.  In most of them nothing is sent or served, and     *)
(* each port keeps its buffers, takes what waits, or is new.                    *)

Takes(old, new) ==
  old.pc # "reply" /\ new.frame = old.frame \o old.inbox /\ new.inbox = << >>

Moves(old, new, p) ==
  \/ p \in DOMAIN old /\ (StaysTraced(old[p], new[p]) \/ Takes(old[p], new[p]))
  \/ new[p].frame = << >> /\ new[p].inbox = << >>

LEMMA TracedMoves ==
  ASSUME Traced, UNCHANGED <<rest, sent, served>>, \A p \in DOMAIN ports' : Moves(ports, ports', p)
  PROVE  Traced'
<1>1. Line' = Line
  BY DEF Line
<1>2. PICK f : Matches(Line, f) /\ \A p \in DOMAIN ports : IsTraced(Line, p, ports[p], f)
  BY DEF Traced
<1>3. IsLine(Line)
  BY DEF Traced
<1>4. ASSUME NEW p \in DOMAIN ports'
      PROVE  IsTraced(Line, p, ports'[p], f)
  BY <1>2, <1>3, <1>4, TracedStays, TracedRead, TracedEmpty DEF Moves, Takes
<1>5. \A p \in DOMAIN ports' : IsTraced(Line', p, ports'[p], f)
  BY <1>1, <1>4
<1>6. Matches(Line', f) /\ IsLine(Line')
  BY <1>1, <1>2, <1>3
<1> QED
  BY <1>5, <1>6 DEF Traced

(* What a step of one port does to the others *)
LEMMA OneMoves ==
  ASSUME NEW p \in DOMAIN ports, NEW x, ports' = [ports EXCEPT ![p] = x],
         StaysTraced(ports[p], x) \/ Takes(ports[p], x)
  PROVE  \A q \in DOMAIN ports' : Moves(ports, ports', q)
<1>1. DOMAIN ports' = DOMAIN ports /\ \A q \in DOMAIN ports : ports'[q] = IF q = p THEN x ELSE ports[q]
  OBVIOUS
<1> SUFFICES ASSUME NEW q \in DOMAIN ports
             PROVE  Moves(ports, ports', q)
  BY <1>1
<1>2. CASE q = p
  BY <1>1, <1>2 DEF Moves
<1>3. CASE q # p
  BY <1>1, <1>3 DEF Moves, StaysTraced
<1> QED
  BY <1>2, <1>3

LEMMA TracedReadLoop ==
  ASSUME Whole, Traced, NEW p \in DOMAIN ports,
         Unplug(p) \/ CheckContext(p) \/ Read(p) \/ ReadNothing(p) \/ WriteAnswer(p)
  PROVE  Traced'
<1> DEFINE w == ports[p]
<1>1. w \in Port
  BY DEF Whole, TypeOK
<1>2. UNCHANGED <<rest, sent, served>>
  BY DEF Unplug, CheckContext, Read, ReadNothing, WriteAnswer
<1>3. \/ ports' = [ports EXCEPT ![p] = [w EXCEPT !.failing = TRUE]]
      \/ w.pc = "check" /\ ports' = [ports EXCEPT ![p] = [w EXCEPT !.pc = IF w.cancelled THEN "done" ELSE "read"]]
      \/ /\ w.pc # "reply"
         /\ ports' = [ports EXCEPT ![p] = [w EXCEPT !.pc = "more", !.inbox = << >>, !.frame = w.frame \o w.inbox]]
      \/ w.pc = "read" /\ ports' = [ports EXCEPT ![p] = [w EXCEPT !.pc = "check"]]
      \/ w.pc = "more" /\ ports' = [ports EXCEPT ![p] = [w EXCEPT !.pc = "serve"]]
      \/ ports' = [ports EXCEPT ![p] = [w EXCEPT !.pc = "check", !.frame = << >>]]
  BY DEF Unplug, CheckContext, Read, ReadNothing, WriteAnswer, At
<1> HIDE DEF w
<1>4. \E x : ports' = [ports EXCEPT ![p] = x] /\ (StaysTraced(w, x) \/ Takes(w, x))
  <2>1. CASE ports' = [ports EXCEPT ![p] = [w EXCEPT !.failing = TRUE]]
    <3> DEFINE x == [w EXCEPT !.failing = TRUE]
    <3>1. StaysTraced(w, x)
      BY <1>1 DEF StaysTraced, Port
    <3> QED
      BY <2>1, <3>1
  <2>2. CASE w.pc = "check" /\ ports' = [ports EXCEPT ![p] = [w EXCEPT !.pc = IF w.cancelled THEN "done" ELSE "read"]]
    <3> DEFINE x == [w EXCEPT !.pc = IF w.cancelled THEN "done" ELSE "read"]
    <3>1. StaysTraced(w, x)
      BY <1>1, <2>2 DEF StaysTraced, Port
    <3> QED
      BY <2>2, <3>1
  <2>3. CASE /\ w.pc # "reply"
             /\ ports' = [ports EXCEPT ![p] = [w EXCEPT !.pc = "more", !.inbox = << >>, !.frame = w.frame \o w.inbox]]
    <3> DEFINE x == [w EXCEPT !.pc = "more", !.inbox = << >>, !.frame = w.frame \o w.inbox]
    <3>1. Takes(w, x)
      BY <1>1, <2>3 DEF Takes, Port
    <3> QED
      BY <2>3, <3>1
  <2>4. CASE w.pc = "read" /\ ports' = [ports EXCEPT ![p] = [w EXCEPT !.pc = "check"]]
    <3> DEFINE x == [w EXCEPT !.pc = "check"]
    <3>1. StaysTraced(w, x)
      BY <1>1, <2>4 DEF StaysTraced, Port
    <3> QED
      BY <2>4, <3>1
  <2>5. CASE w.pc = "more" /\ ports' = [ports EXCEPT ![p] = [w EXCEPT !.pc = "serve"]]
    <3> DEFINE x == [w EXCEPT !.pc = "serve"]
    <3>1. StaysTraced(w, x)
      BY <1>1, <2>5 DEF StaysTraced, Port
    <3> QED
      BY <2>5, <3>1
  <2>6. CASE ports' = [ports EXCEPT ![p] = [w EXCEPT !.pc = "check", !.frame = << >>]]
    <3> DEFINE x == [w EXCEPT !.pc = "check", !.frame = << >>]
    <3>1. StaysTraced(w, x)
      BY <1>1 DEF StaysTraced, Port
    <3> QED
      BY <2>6, <3>1
  <2> QED
    BY <1>3, <2>1, <2>2, <2>3, <2>4, <2>5, <2>6
<1> QED
  BY <1>2, <1>4, OneMoves, TracedMoves DEF w

(* Serve, answered or not *)
LEMMA TracedServe ==
  ASSUME Recognisable, Whole, Traced, NEW p \in DOMAIN ports, Serve(p)
  PROVE  Traced'
<1> DEFINE w == ports[p]
           bare == [w EXCEPT !.pc = "check", !.frame = << >>]
           late == [w EXCEPT !.pc = "reply"]
<1>1. w \in Port /\ w.pc = "serve" /\ p \in Nat /\ served \in Seq(Nat \X Seq(Byte))
  BY DEF Whole, TypeOK, Serve, At
<1>2. /\ UNCHANGED <<rest, sent>>
      /\ \/ ports' = [ports EXCEPT ![p] = bare] /\ served' = served
         \/ /\ RTUAnswer(Units, w.frame) # NoReply
            /\ ports' = [ports EXCEPT ![p] = late]
            /\ served' = Append(served, <<p, w.frame>>)
  BY DEF Serve
<1> HIDE DEF w
<1>3. StaysTraced(w, bare)
  BY <1>1 DEF StaysTraced, Port
<1>4. late.pc = "reply" /\ late.frame = w.frame /\ late.inbox = w.inbox /\ w.frame \in Seq(Byte)
  BY <1>1 DEF Port
<1> HIDE DEF bare, late
<1>5. CASE ports' = [ports EXCEPT ![p] = bare] /\ served' = served
  BY <1>2, <1>3, <1>5, OneMoves, TracedMoves DEF w
<1>6. CASE /\ RTUAnswer(Units, w.frame) # NoReply
           /\ ports' = [ports EXCEPT ![p] = late]
           /\ served' = Append(served, <<p, w.frame>>)
  <2> DEFINE l == Line
             new == Line'
  <2>1. PICK f : Matches(l, f) /\ \A q \in DOMAIN ports : IsTraced(l, q, ports[q], f)
    BY DEF Traced
  <2>2. /\ IsLine(l) /\ l.sent = sent /\ l.served = served /\ Len(sent) <= MaxSent
        /\ new.sent = sent /\ new.left = l.left /\ new.served = Append(served, <<p, w.frame>>)
    BY <1>2, <1>6 DEF Traced, Line
  <2> HIDE DEF l, new
  <2>3. IsLine(new)
    <3>1. <<p, w.frame>> \in Nat \X Seq(Byte)
      BY <1>1, <1>4
    <3>2. new.served \in Seq(Nat \X Seq(Byte))
      BY <1>1, <2>2, <3>1
    <3> QED
      BY <2>2, <3>2 DEF IsLine
  <2>4. PICK g : /\ Matches(new, g) /\ IsTraced(new, p, late, g)
                 /\ \A i \in DOMAIN l.served : g[i] = f[i]
    <3>1. IsTraced(l, p, w, f)
      BY <2>1 DEF w
    <3>2. IsAnswered(l, new, p, w, late)
      BY <1>1, <1>4, <1>6, <2>2 DEF IsAnswered
    <3>3. Len(l.sent) <= MaxSent
      BY <2>2
    <3> QED
      BY <2>1, <2>2, <2>3, <3>1, <3>2, <3>3, TracedServed
  <2>5. ASSUME NEW q \in DOMAIN ports, q # p
        PROVE  IsTraced(new, q, ports[q], g)
    <3> DEFINE n == Len(l.served)
    <3>1. /\ n \in Nat /\ DOMAIN l.served = 1 .. n /\ DOMAIN new.served = 1 .. n + 1
          /\ new.served[n + 1] = <<p, w.frame>> /\ \A i \in 1 .. n : new.served[i] = l.served[i]
      BY <1>1, <2>2
    <3>2. <<p, w.frame>>[1] = p
      OBVIOUS
    <3> HIDE DEF n
    <3>3. ASSUME NEW i \in DOMAIN new.served, new.served[i][1] = q
          PROVE  i \in DOMAIN l.served /\ l.served[i][1] = q /\ g[i] = f[i]
      <4>1. i \in 1 .. n
        <5>1. i # n + 1
          BY <2>5, <3>1, <3>2, <3>3
        <5> QED
          BY <3>1, <5>1
      <4> QED
        BY <2>4, <3>1, <3>3, <4>1
    <3>4. GoesOn(l, new)
      BY <2>2 DEF IsLine, GoesOn
    <3> QED
      BY <2>1, <2>2, <2>3, <3>3, <3>4, TracedAsBefore
  <2>6. \A q \in DOMAIN ports' : IsTraced(new, q, ports'[q], g)
    <3>1. DOMAIN ports' = DOMAIN ports /\ \A q \in DOMAIN ports : ports'[q] = IF q = p THEN late ELSE ports[q]
      BY <1>6
    <3> QED
      BY <2>4, <2>5, <3>1
  <2> QED
    BY <1>2, <2>2, <2>3, <2>4, <2>6 DEF Traced, new
<1> QED
  BY <1>2, <1>5, <1>6

LEMMA TracedSend ==
  ASSUME Whole, Traced, NEW p \in DOMAIN ports, NEW m \in Messages, Send(p, m)
  PROVE  Traced'
<1> DEFINE w == ports[p]
           line == Flipped(m.bytes, m.noise)
           first == SubSeq(line, 1, m.pause)
           late == SubSeq(line, m.pause + 1, Len(line))
           piece == [bytes |-> first, starts |-> m.bytes]
           x == [w EXCEPT !.inbox = w.inbox \o first]
           l == Line
           new == Line'
           n == Len(sent)
<1>1. w \in Port /\ p \in Nat /\ sent \in Seq(Nat \X Seq(Byte)) /\ m.bytes \in Seq(Byte)
  BY LineAssumption DEF Whole, TypeOK
<1>2. /\ ports' = [ports EXCEPT ![p] = x] /\ rest = << >> /\ rest' = late
      /\ sent' = Append(sent, <<p, m.bytes>>) /\ n < MaxSent /\ served' = served
  BY DEF Send
<1>3. piece \in Pieces /\ (late # << >> => IsRemains(late)) /\ piece.bytes = first /\ piece.starts = m.bytes
  BY CarriedPieces
<1>4. x.inbox = w.inbox \o first /\ x.frame = w.frame /\ x.pc = w.pc
  BY <1>1 DEF Port
<1>5. /\ IsLine(l) /\ l.sent = sent /\ l.served = served /\ l.left = 0
      /\ new.sent = sent' /\ new.served = served /\ new.left = IF rest' = << >> THEN 0 ELSE 1
  BY <1>2 DEF Traced, Line
<1>6. PICK f : Matches(l, f) /\ \A q \in DOMAIN ports : IsTraced(l, q, ports[q], f)
  BY DEF Traced
<1> HIDE DEF w, line, first, late, piece, x, l, new
<1>7. /\ n \in Nat /\ Len(sent') = n + 1 /\ DOMAIN sent = 1 .. n
      /\ \A i \in 1 .. n : sent'[i] = sent[i]
      /\ sent' \in Seq(Nat \X Seq(Byte))
  <2>1. <<p, m.bytes>> \in Nat \X Seq(Byte)
    BY <1>1
  <2> QED
    BY <1>1, <1>2, <2>1
<1> HIDE DEF n
<1>8. IsLine(new)
  <2>1. new.left \in {0, 1}
    BY <1>5
  <2>2. new.left <= 2 * (n + 1)
    BY <1>7, <2>1
  <2>3. l.served \in Seq(Nat \X Seq(Byte))
    BY <1>5 DEF IsLine
  <2> QED
    BY <1>5, <1>7, <2>1, <2>2, <2>3 DEF IsLine
<1>9. Len(sent') <= MaxSent
  <2>1. MaxSent \in Nat
    BY LineAssumption
  <2> QED
    BY <1>2, <1>7, <2>1
<1>10. GoesOn(l, new)
  <2>1. Len(l.sent) = n /\ Len(new.sent) = n + 1 /\ new.left \in {0, 1} /\ l.left = 0
    BY <1>5, <1>7 DEF n
  <2>2. n <= n + 1 /\ 2 * n - l.left <= 2 * (n + 1) - new.left
    BY <1>7, <2>1
  <2> QED
    BY <1>5, <1>7, <2>1, <2>2 DEF GoesOn
<1>11. Matches(new, f)
  BY <1>5, <1>6, <1>8, <1>10, MatchesMore
<1>12. IsTraced(new, p, x, f)
  <2>1. IsTraced(l, p, w, f) /\ f \in [DOMAIN l.served -> DOMAIN l.sent]
    BY <1>6 DEF w, Matches
  <2>2. new.sent = Append(l.sent, <<p, piece.starts>>) /\ new.served = l.served
    BY <1>2, <1>3, <1>5
  <2>3. x.inbox = w.inbox \o piece.bytes
    BY <1>3, <1>4
  <2> QED
    BY <1>3, <1>4, <1>5, <1>8, <2>1, <2>2, <2>3, TracedSent
<1>13. ASSUME NEW q \in DOMAIN ports
       PROVE  IsTraced(new, q, ports[q], f)
  <2>1. \A i \in DOMAIN new.served :
          new.served[i][1] = q => i \in DOMAIN l.served /\ l.served[i][1] = q /\ f[i] = f[i]
    BY <1>5
  <2> QED
    BY <1>5, <1>6, <1>8, <1>10, <2>1, TracedAsBefore
<1>14. \A q \in DOMAIN ports' : IsTraced(new, q, ports'[q], f)
  <2>1. DOMAIN ports' = DOMAIN ports /\ \A q \in DOMAIN ports : ports'[q] = IF q = p THEN x ELSE ports[q]
    BY <1>2
  <2> QED
    BY <1>12, <1>13, <2>1
<1> QED
  BY <1>2, <1>3, <1>8, <1>9, <1>11, <1>14 DEF Traced, new

LEMMA TracedSendRest ==
  ASSUME Whole, Traced, SendRest
  PROVE  Traced'
<1> DEFINE l == Line
           new == Line'
<1>1. \A p \in DOMAIN ports : ports[p] \in Port
  BY DEF Whole, TypeOK
<1>2. /\ DOMAIN ports' = DOMAIN ports /\ rest # << >> /\ rest' = << >> /\ sent' = sent /\ served' = served
      /\ \A p \in DOMAIN ports :
           ports'[p] = IF Usable(p) THEN [ports[p] EXCEPT !.inbox = @ \o rest] ELSE ports[p]
  BY DEF SendRest
<1>3. /\ IsLine(l) /\ l.sent = sent /\ l.served = served /\ l.left = 1
      /\ new.sent = sent /\ new.served = served /\ new.left = 0
  BY <1>2 DEF Traced, Line
<1>4. IsRemains(rest) /\ Len(sent) <= MaxSent
  BY <1>2 DEF Traced
<1>5. PICK f : Matches(l, f) /\ \A q \in DOMAIN ports : IsTraced(l, q, ports[q], f)
  BY DEF Traced
<1> HIDE DEF l, new
<1>6. IsLine(new)
  BY <1>3 DEF IsLine
<1>7. GoesOn(l, new)
  <2>1. Len(sent) \in Nat
    BY <1>3 DEF IsLine
  <2>2. Len(sent) <= Len(sent) /\ 2 * Len(sent) - 1 <= 2 * Len(sent) - 0
    BY <2>1
  <2> QED
    BY <1>3, <2>2 DEF GoesOn
<1>8. Matches(new, f)
  BY <1>3, <1>5, <1>6, <1>7, MatchesMore
<1>9. ASSUME NEW p \in DOMAIN ports
      PROVE  IsTraced(new, p, ports'[p], f)
  <2> DEFINE w == ports[p]
             x == [w EXCEPT !.inbox = @ \o rest]
  <2>1. x.inbox = w.inbox \o rest /\ x.frame = w.frame /\ x.pc = w.pc
    BY <1>1 DEF Port
  <2>2. ports'[p] = x \/ ports'[p] = w
    BY <1>2
  <2>3. IsTraced(l, p, w, f)
    BY <1>5
  <2> HIDE DEF w, x
  <2>4. CASE ports'[p] = x
    <3>1. IsTraced(new, p, x, f)
      <4>1. new.sent = l.sent /\ new.served = l.served
        BY <1>3
      <4> QED
        BY <1>3, <1>4, <2>1, <2>3, <4>1, TracedRest
    <3> QED
      BY <2>4, <3>1
  <2>5. CASE ports'[p] = w
    <3>1. \A i \in DOMAIN new.served :
            new.served[i][1] = p => i \in DOMAIN l.served /\ l.served[i][1] = p /\ f[i] = f[i]
      BY <1>3
    <3>2. IsTraced(new, p, w, f)
      BY <1>3, <1>6, <1>7, <2>3, <3>1, TracedAsBefore
    <3> QED
      BY <2>5, <3>2
  <2> QED
    BY <2>2, <2>4, <2>5
<1> QED
  BY <1>2, <1>4, <1>6, <1>8, <1>9 DEF Traced, new

(* Connect and Disconnect: the port that is closed keeps its buffers, the one   *)
(* that is opened has none.                                                     *)
LEMMA TracedConnects ==
  ASSUME Whole, Traced, UNCHANGED <<rest, sent, served>>,
         \/ ports' = Closed
         \/ \E name, baud : ports' = Append(Closed, NewPort(name, baud))
  PROVE  Traced'
<1> DEFINE n == Len(ports)
           c == Closed
<1>1. /\ n \in Nat /\ DOMAIN ports = 1 .. n /\ c \in Seq(Port) /\ Len(c) = n /\ DOMAIN c = 1 .. n
      /\ \A p \in 1 .. n : ports[p] \in Port
  BY WholeClosed DEF Whole, TypeOK
<1>2. ASSUME NEW p \in 1 .. n
      PROVE  StaysTraced(ports[p], c[p])
  <2> DEFINE w == ports[p]
             x == [w EXCEPT !.open = FALSE, !.cancelled = TRUE]
  <2>1. c[p] = x \/ c[p] = w
    BY <1>1 DEF Closed
  <2>2. w \in Port
    BY <1>1
  <2> HIDE DEF w
  <2>3. StaysTraced(w, x)
    BY <2>2 DEF StaysTraced, Port
  <2>4. StaysTraced(w, w)
    BY DEF StaysTraced
  <2> QED
    BY <2>1, <2>3, <2>4 DEF w
<1> HIDE DEF c, n
<1>3. CASE ports' = c
  <2>1. \A p \in DOMAIN ports' : Moves(ports, ports', p)
    BY <1>1, <1>2, <1>3 DEF Moves
  <2> QED
    BY <2>1, TracedMoves
<1>4. ASSUME NEW name, NEW baud, ports' = Append(c, NewPort(name, baud))
      PROVE  Traced'
  <2> DEFINE x == NewPort(name, baud)
  <2>1. x.frame = << >> /\ x.inbox = << >>
    BY DEF NewPort
  <2> HIDE DEF x
  <2>2. DOMAIN ports' = 1 .. n + 1 /\ ports'[n + 1] = x /\ \A p \in 1 .. n : ports'[p] = c[p]
    BY <1>1, <1>4 DEF x
  <2>3. ASSUME NEW p \in 1 .. n + 1
        PROVE  Moves(ports, ports', p)
    <3>1. p \in 1 .. n \/ p = n + 1
      BY <1>1
    <3>2. CASE p \in 1 .. n
      BY <1>1, <1>2, <2>2, <3>2 DEF Moves
    <3>3. CASE p = n + 1
      BY <2>1, <2>2, <3>3 DEF Moves
    <3> QED
      BY <3>1, <3>2, <3>3
  <2> QED
    BY <2>2, <2>3, TracedMoves
<1> QED
  BY <1>3, <1>4 DEF c

LEMMA InitTraced == Init => Traced
<1> SUFFICES ASSUME Init
             PROVE  Traced
  OBVIOUS
<1> DEFINE none == << >>
<1>1. ports = none /\ rest = none /\ sent = none /\ served = none
  BY DEF Init
<1>2. DOMAIN none = {} /\ none \in Seq(Nat \X Seq(Byte)) /\ Len(none) = 0
  OBVIOUS
<1>3. Line.sent = none /\ Line.served = none /\ Line.left = 0
  BY <1>1 DEF Line
<1> HIDE DEF none
<1>4. IsLine(Line)
  BY <1>2, <1>3 DEF IsLine
<1>5. Len(sent) <= MaxSent
  BY <1>1, <1>2, LineAssumption
<1> DEFINE f == [i \in {} |-> 0]
<1>6. Matches(Line, f)
  BY <1>2, <1>3 DEF Matches
<1>7. rest = << >>
  BY <1>1 DEF none
<1> HIDE DEF f
<1> QED
  BY <1>1, <1>2, <1>4, <1>5, <1>6, <1>7 DEF Traced

LEMMA StepTraced == Recognisable /\ Whole /\ Traced /\ [Next]_vars => Traced'
<1> SUFFICES ASSUME Recognisable, Whole, Traced, [Next]_vars
             PROVE  Traced'
  OBVIOUS
<1>1. ASSUME NEW name \in Names, NEW baud \in Bauds, Connect(name, baud)
      PROVE  Traced'
  BY <1>1, TracedConnects DEF Connect, Open, FailToOpen
<1>2. CASE Disconnect
  BY <1>2, TracedConnects DEF Disconnect
<1>3. ASSUME NEW p \in DOMAIN ports, Unplug(p)
      PROVE  Traced'
  BY <1>3, TracedReadLoop
<1>4. ASSUME NEW p \in DOMAIN ports, ReadLoop(p)
      PROVE  Traced'
  BY <1>4, TracedReadLoop, TracedServe DEF ReadLoop
<1>5. ASSUME NEW p \in DOMAIN ports, NEW m \in Messages, Send(p, m)
      PROVE  Traced'
  BY <1>5, TracedSend
<1>6. CASE SendRest
  BY <1>6, TracedSendRest
<1>7. CASE UNCHANGED vars
  <2>1. UNCHANGED <<rest, sent, served, ports>>
    BY <1>7 DEF vars
  <2>2. \A p \in DOMAIN ports' : Moves(ports, ports', p)
    BY <2>1 DEF Moves, StaysTraced
  <2> QED
    BY <2>1, <2>2, TracedMoves
<1> QED
  BY <1>1, <1>2, <1>3, <1>4, <1>5, <1>6, <1>7 DEF Next

(* readLoop and processRequest: whenever the master's messages can be told      *)
(* apart, what is served is what it sent, each frame at most once and in order, *)
(* wherever it pauses, and whatever ports are opened, closed or fail meanwhile. *)
THEOREM ServedWereSent ==
  ASSUME Recognisable
  PROVE  Spec => []OnlySentFramesAreServed
<1>1. Init => Whole /\ Traced
  BY InitWhole, InitTraced
<1>2. (Whole /\ Traced) /\ [Next]_vars => (Whole /\ Traced)'
  BY StepWhole, StepTraced
<1>3. Whole /\ Traced => OnlySentFramesAreServed
  BY TracedIsSent
<1> QED
  BY <1>1, <1>2, <1>3, PTL DEF Spec
=============================================================================
