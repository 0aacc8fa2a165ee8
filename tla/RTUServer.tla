------------------------------ MODULE RTUServer -------------------------------
(* The Modbus RTU server (pkg/modbus/server_rtu.go): a serial port that main    *)
(* and the dashboard connect and disconnect, and a read loop for each port ever *)
(* opened, which takes what arrives between two silences for one frame.         *)
(*                                                                              *)
(* The master on the line may pause inside a frame, or send the next one before *)
(* the silence is noticed; the line may flip bits; an adapter may fail.  Time   *)
(* is only order: 20 ms of silence may be noticed whenever nothing has arrived. *)
EXTENDS WireFormat

CONSTANTS Names,       \* serial ports of the computer
          Bauds,       \* baud rates asked for
          Messages,    \* what the master sends: the bytes of a frame, the bits of
                       \* it that the line flips, the bytes before a pause
          Units,       \* ids of the installed meters
          MaxPorts,    \* no port is opened more often than this
          MaxSent      \* messages the master sends

Nil    == 0
NoName == ""

ASSUME LineAssumption ==
  /\ \A m \in Messages : /\ m = [bytes |-> m.bytes, noise |-> m.noise, pause |-> m.pause]
                         /\ m.bytes \in Seq(Byte) /\ m.noise \subseteq Nat
                         /\ m.pause \in 1 .. Len(m.bytes)
  /\ Units \subseteq Byte \ {0} /\ Units # {}
  /\ MaxPorts \in Nat /\ MaxSent \in Nat /\ Bauds \subseteq Nat

VARIABLES server,   \* RTUServer's fields
          ports,    \* all ports opened so far, each with its read loop
          rest,     \* what the master still has to send of a frame
          sent,     \* the frames the master meant to send, with the port
          served,   \* the frames that were answered, with the port
          asked,    \* the port on which the master waits for an answer
          up        \* the process runs

vars == <<server, ports, rest, sent, served, asked, up>>

Port == [name : Names, baud : Nat, open : BOOLEAN, cancelled : BOOLEAN,
         failing : BOOLEAN, inbox : Seq(Byte), frame : Seq(Byte),
         pc : {"check", "read", "more", "serve", "reply", "done"}]

NewPort(name, baud) ==
  [name |-> name, baud |-> baud, open |-> TRUE, cancelled |-> FALSE, failing |-> FALSE,
   inbox |-> << >>, frame |-> << >>, pc |-> "check"]

Init ==
  /\ server = [connected |-> FALSE, port |-> Nil, name |-> NoName, baud |-> 9600]
  /\ ports = << >>
  /\ rest = << >> /\ sent = << >> /\ served = << >> /\ asked = Nil
  /\ up = TRUE

-----------------------------------------------------------------------------
(* Connect and Disconnect hold portMu *)

(* The connected port, if any, closed and its loop's context cancelled *)
Closed ==
  [p \in DOMAIN ports |->
     IF p = server.port THEN [ports[p] EXCEPT !.open = FALSE, !.cancelled = TRUE]
     ELSE ports[p]]

Open(name, baud) ==
  LET rate == IF baud = 0 THEN 9600 ELSE baud
  IN /\ Len(ports) < MaxPorts
     /\ ports' = Append(Closed, NewPort(name, rate))
     /\ server' = [connected |-> TRUE, port |-> Len(ports) + 1, name |-> name, baud |-> rate]

(* Variant: the name goes too *)
FailToOpenUnnamed ==
  /\ ports' = Closed
  /\ server' = [server EXCEPT !.connected = FALSE, !.port = Nil, !.name = "none"]

(* Variant: the fields still tell of the port that was closed *)
FailToOpenQuietly ==
  /\ ports' = Closed
  /\ server' = server

(* No name was given, or the port is missing or taken: the previous one has     *)
(* been closed, and its name and baud rate stay.                                *)
FailToOpen ==
  /\ ports' = Closed
  /\ server' = [server EXCEPT !.connected = FALSE, !.port = Nil]

Connect(name, baud) ==
  /\ Open(name, baud) \/ FailToOpen
  /\ UNCHANGED <<rest, sent, served, asked, up>>

Disconnect ==
  /\ server.connected
  /\ ports' = Closed
  /\ server' = [server EXCEPT !.connected = FALSE, !.port = Nil]
  /\ UNCHANGED <<rest, sent, served, asked, up>>

(* The adapter is unplugged: every use of the port is an error from then on *)
Unplug(p) ==
  /\ ports[p].open /\ ~ports[p].failing
  /\ ports' = [ports EXCEPT ![p].failing = TRUE]
  /\ UNCHANGED <<server, rest, sent, served, asked, up>>

-----------------------------------------------------------------------------
(* The master on the line of port p *)

Usable(p) == ports[p].open /\ ~ports[p].failing

Quiet(p) == ports[p].inbox = << >> /\ ports[p].pc \in {"check", "read"}

(* The bytes of a frame with some of its bits flipped, bit 0 first *)
Flipped(bytes, noise) ==
  [i \in DOMAIN bytes |->
     ByteOf(Xor(BitsOf(bytes[i]), {b \in 0 .. 7 : 8 * (i - 1) + b \in noise}))]

(* The master waits for an answer when it sent a frame to a meter that is       *)
(* there, in one go, over a quiet line, and nothing disturbed it.               *)
Send(p, m) ==
  /\ Usable(p) /\ rest = << >> /\ Len(sent) < MaxSent
  /\ LET line == Flipped(m.bytes, m.noise)
     IN /\ ports' = [ports EXCEPT ![p].inbox = @ \o SubSeq(line, 1, m.pause)]
        /\ rest' = SubSeq(line, m.pause + 1, Len(line))
  /\ sent' = Append(sent, <<p, m.bytes>>)
  /\ asked' = IF /\ Quiet(p) /\ m.pause = Len(m.bytes) /\ m.noise = {}
                 /\ RTUAnswer(Units, m.bytes) # NoReply
              THEN p ELSE Nil
  /\ UNCHANGED <<server, served, up>>

(* What follows a pause goes to whichever port is open by then *)
SendRest ==
  /\ rest # << >> /\ rest' = << >>
  /\ ports' = [p \in DOMAIN ports |->
                 IF Usable(p) THEN [ports[p] EXCEPT !.inbox = @ \o rest] ELSE ports[p]]
  /\ UNCHANGED <<server, sent, served, asked, up>>

-----------------------------------------------------------------------------
(* readLoop *)

At(p, pc) == ports[p].pc = pc

(* Variant: the context is not looked at *)
IgnoreContext(p) ==
  /\ At(p, "check")
  /\ ports' = [ports EXCEPT ![p].pc = "read"]
  /\ UNCHANGED <<server, rest, sent, served, asked, up>>

CheckContext(p) ==
  /\ At(p, "check")
  /\ ports' = [ports EXCEPT ![p].pc = IF ports[p].cancelled THEN "done" ELSE "read"]
  /\ UNCHANGED <<server, rest, sent, served, asked, up>>

Arrived(p) == Usable(p) /\ ports[p].inbox # << >>

(* The first bytes of a frame, and those that follow before the silence *)
Read(p) ==
  /\ At(p, "read") \/ At(p, "more")
  /\ Arrived(p)
  /\ ports' = [ports EXCEPT ![p].pc = "more", ![p].inbox = << >>,
                            ![p].frame = @ \o ports[p].inbox]
  /\ UNCHANGED <<server, rest, sent, served, asked, up>>

(* An error, or 20 ms without a byte: nothing to process yet, or the frame's end *)
ReadNothing(p) ==
  /\ ~Arrived(p)
  /\ \/ At(p, "read") /\ ports' = [ports EXCEPT ![p].pc = "check"]
     \/ At(p, "more") /\ ports' = [ports EXCEPT ![p].pc = "serve"]
  /\ UNCHANGED <<server, rest, sent, served, asked, up>>

(* Variant: fewer than four bytes are kept for the next frame *)
ServeKeeping(p) ==
  /\ At(p, "serve")
  /\ \E answer \in {RTUAnswer(Units, ports[p].frame)} :
       /\ up' = (answer # Panic)
       /\ IF answer = NoReply
          THEN /\ ports' = [ports EXCEPT ![p].pc = "check",
                                        ![p].frame = IF Len(@) < 4 THEN @ ELSE << >>]
               /\ UNCHANGED served
          ELSE /\ ports' = [ports EXCEPT ![p].pc = "reply"]
               /\ served' = Append(served, <<p, ports[p].frame>>)
  /\ UNCHANGED <<server, rest, sent, asked>>

(* What ends the process does not answer either *)
Serve(p) ==
  /\ At(p, "serve")
  /\ \E answer \in {RTUAnswer(Units, ports[p].frame)} :
       /\ up' = (answer # Panic)
       /\ IF answer = NoReply
          THEN /\ ports' = [ports EXCEPT ![p].pc = "check", ![p].frame = << >>]
               /\ UNCHANGED served
          ELSE /\ ports' = [ports EXCEPT ![p].pc = "reply"]
               /\ served' = Append(served, <<p, ports[p].frame>>)
  /\ UNCHANGED <<server, rest, sent, asked>>

(* Variant: what was answered stays in the buffer *)
WriteAnswerKeeping(p) ==
  /\ At(p, "reply")
  /\ ports' = [ports EXCEPT ![p].pc = "check"]
  /\ asked' = IF Usable(p) /\ asked = p THEN Nil ELSE asked
  /\ UNCHANGED <<server, rest, sent, served, up>>

(* 5 ms later; the port may have been closed meanwhile, and the write fails *)
WriteAnswer(p) ==
  /\ At(p, "reply")
  /\ ports' = [ports EXCEPT ![p].pc = "check", ![p].frame = << >>]
  /\ asked' = IF Usable(p) /\ asked = p THEN Nil ELSE asked
  /\ UNCHANGED <<server, rest, sent, served, up>>

ReadLoop(p) == CheckContext(p) \/ Read(p) \/ ReadNothing(p) \/ Serve(p) \/ WriteAnswer(p)

Next ==
  /\ up
  /\ \/ \E name \in Names, baud \in Bauds : Connect(name, baud)
     \/ Disconnect
     \/ \E p \in DOMAIN ports :
          \/ Unplug(p)
          \/ ReadLoop(p)
          \/ \E m \in Messages : Send(p, m)
     \/ SendRest

Spec == Init /\ [][Next]_vars

(* Read returns within its timeout, and a goroutine that can run does *)
Fairness == \A p \in 1 .. MaxPorts : WF_vars(up /\ p \in DOMAIN ports /\ ReadLoop(p))

FairSpec == Spec /\ Fairness

-----------------------------------------------------------------------------

TypeOK ==
  /\ server \in [connected : BOOLEAN, port : Nat, name : Names \cup {NoName}, baud : Nat]
  /\ ports \in Seq(Port)
  /\ rest \in Seq(Byte) /\ sent \in Seq(Nat \X Seq(Byte)) /\ served \in Seq(Nat \X Seq(Byte))
  /\ asked \in 0 .. Len(ports) /\ up \in BOOLEAN

(* The status tells which port is open, however connecting went: connected, it  *)
(* is one port, of the name and at the baud rate shown; else none.  A computer  *)
(* that had two of them open, or one that nobody knows of, could not free it.   *)
StatusTellsPort ==
  /\ {p \in DOMAIN ports : ports[p].open} = IF server.connected THEN {server.port} ELSE {}
  /\ server.connected => /\ ports[server.port].name = server.name
                         /\ ports[server.port].baud = server.baud

(* Wherever the master pauses, whatever it sends without waiting, whatever bits *)
(* the line flips: what is served is a frame the master sent, as it was sent,   *)
(* each at most once, and in order on each port.  Two frames read as one, or a  *)
(* part of one, fail the checksum; only stray zeroes at the end of a frame do   *)
(* not.  (The loop of a port just closed may serve its last frame after the     *)
(* first one of the next port.)                                                 *)
IsServedAs(read, frame) ==
  /\ Len(frame) <= Len(read)
  /\ \A i \in DOMAIN read : read[i] = IF i <= Len(frame) THEN frame[i] ELSE 0

OnlySentFramesAreServed ==
  \E f \in [DOMAIN served -> DOMAIN sent] :
    /\ \A i, j \in DOMAIN served :
         i < j => IF served[i][1] = served[j][1] THEN f[i] < f[j] ELSE f[i] # f[j]
    /\ \A i \in DOMAIN served :
         /\ served[i][1] = sent[f[i]][1]
         /\ IsServedAs(served[i][2], sent[f[i]][2])

(* What the line may carry of a message before a silence: what comes before the *)
(* master's pause, which begins a frame, and what comes after it, which does    *)
(* not.                                                                         *)
Pieces ==
  {[bytes |-> SubSeq(Flipped(m.bytes, m.noise), 1, m.pause), starts |-> m.bytes] : m \in Messages}
    \cup
  {[bytes |-> SubSeq(Flipped(m.bytes, m.noise), m.pause + 1, Len(m.bytes)), starts |-> << >>] :
     m \in {m \in Messages : m.pause < Len(m.bytes)}}

Bytes(pieces) == Stream([i \in DOMAIN pieces |-> pieces[i].bytes])

(* The read loop has but the checksum and the function code to know a frame by. *)
(* This says that they suffice for what the master sends: no two messages, no   *)
(* part of one, and none with flipped bits, in whatever order they are read as  *)
(* one frame, are answered, unless the first is whole and followed by zeroes.   *)
(* No 16 bits can do that for all messages.                                     *)
Recognisable ==
  \A n \in 1 .. 2 * MaxSent : \A pieces \in [1 .. n -> Pieces] :
    RTUAnswer(Units, Bytes(pieces)) # NoReply =>
      pieces[1].starts # << >> /\ IsServedAs(Bytes(pieces), pieces[1].starts)

(* While a master waits for its answer, its frame is whole and alone: no byte   *)
(* of an earlier fragment, of noise or of another frame stands before it in the *)
(* read loop's buffer, and none follows.                                        *)
AwaitedFrameIsWhole ==
  asked # Nil /\ Usable(asked) =>
    LET port == ports[asked]
    IN /\ rest = << >> /\ sent[Len(sent)] = <<asked, port.frame \o port.inbox>>
       /\ \/ port.pc \in {"check", "read"} /\ port.frame = << >>
          \/ port.pc \in {"more", "serve", "reply"} /\ port.inbox = << >>

(* The checksum by its definition: the data, in the order of transmission and   *)
(* with the first 16 coefficients inverted, times x^16, modulo                  *)
(* x^16 + x^15 + x^2 + 1; a polynomial is the set of its exponents, and bit i   *)
(* of the register the coefficient of x^(15-i).                                 *)
Dividend(data) ==
  LET n == 8 * Len(data)
  IN Xor({n + 15 - k : k \in {j \in 0 .. n - 1 : j % 8 \in BitsOf(data[j \div 8 + 1])}},
         n .. n + 15)

(* The k-th step of the division of n coefficients *)
Reduce(n, k) ==
  LET e == n + 16 - k
  IN [d \in SUBSET (0 .. n + 15) |->
        IF e \in d THEN Xor(d, {e, e - 1, e - 14, e - 16}) ELSE d]

Remainder(data) ==
  LET n == 8 * Len(data)
      left[k \in 0 .. n] == IF k = 0 THEN Dividend(data) ELSE Reduce(n, k)[left[k - 1]]
  IN {15 - i : i \in left[n]}

(* Whatever was read as a frame, the loop over its bits in CalculateCRC16       *)
(* leaves the remainder of the division.                                        *)
CRCIsRemainder ==
  \A p \in DOMAIN ports :
    At(p, "serve") => CalculateCRC16(ports[p].frame) = Remainder(ports[p].frame)

(* The read loop of a port that was closed ends, also when the adapter fails *)
Lingers(p) == p \in DOMAIN ports /\ ~ports[p].open /\ ~At(p, "done")

LoopsEnd == \A p \in 1 .. MaxPorts : Lingers(p) ~> (~Lingers(p) \/ ~up)

(* A master that sends an intact frame in one go over a quiet line, to a meter  *)
(* that is there, and waits, is answered, whatever fragments and noise came     *)
(* before, unless the port is closed or fails, or it sends again.               *)
MasterIsAnswered ==
  \A p \in 1 .. MaxPorts :
    (asked = p) ~> (asked # p \/ ~Usable(p) \/ ~up)
=============================================================================
