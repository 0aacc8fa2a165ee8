# A TLA+ development for the DDS238-2 ZN/S Modbus meter simulator

The program simulates a bus of DDS238-2 energy meters. A serial port, a TCP
listener and a web page reach the same meters, each from goroutines of its own,
while a simulation moves the meters' readings four times a second. This
directory holds TLA+ modules for the parts that decide what a meter does, TLC
configurations that check them on small instances, and proofs for every
instance. Paths below are relative to the repository.

| Module | Models |
| --- | --- |
| `Registers` | one meter as pure operators: state, register table, the two register functions, the simulation step, the dashboard's update |
| `Frames` | the RTU and the MBAP decoder, and the frames and the decoding of the built-in reader |
| `EnergyLedger` | abstract: what the energy counters of a set of meters promise |
| `RegisterManager`, `RegisterManagerMC` | one meter and everything that reaches it |
| `MeterBus`, `MeterBusMC` | the device manager, the goroutines that share it, the simulation's sweep |
| `WireFormat` | from bytes to requests: the CRC-16, and where the decoders look for the fields |
| `TCPServer`, `TCPServerMC` | the TCP listener, its connections, the byte stream of each |
| `RTUServer`, `RTUServerMC` | the serial port, its read loops, the bytes on the line |
| `PacketFeed` | abstract: what the packet inspector promises |
| `PacketHub`, `PacketHubMC` | the packet log's way to the browsers, and the websockets |
| `Dashboard`, `DashboardMC` | one page against the web API |
| `InductionLemmas` | natural induction and recursive definitions, for the proofs |
| `FramesProofs`, `RegisterManagerProofs`, `MeterBusProofs`, `TCPServerProofs`, `RTUServerProofs`, `PacketHubProofs`, `DashboardProofs` | the theorems |

## 1. Inventory

| Component | State | Operations | Hard behaviour, and what makes it correct |
| --- | --- | --- | --- |
| Register manager, `pkg/meter/registers.go` | `MeterState` under an `RWMutex` | `ReadHoldingRegisters`, `WriteMultipleRegisters`, `UpdateState`, `GetState` | ranges in 16-bit arithmetic, a reset decided inside the register loop, repeated writes. Counters balance, a write changes what it names, a read shows the state |
| Device manager, `pkg/meter/device_manager.go` | map from id to register manager under an `RWMutex` | `GetMeter`, `GetDefaultMeter`, `AddMeter`, `RemoveMeter`, `GetAllMeters` | meters go and come back while handlers hold pointers to them. One meter per id, never none, requests served by the meter they name |
| Simulation engine, `pkg/meter/simulation.go` | ticker, random source | `stepAll` over a snapshot, `stepMeter` | runs between any two accesses of a handler. Energy only with the relay closed, every meter reached |
| RTU decoder, `pkg/modbus/frame.go` | none | `ProcessRTUFrame`, `ProcessRTUFrameSingle` | lengths, byte arithmetic, address test before and apart from the access. Agrees with the MBAP decoder |
| Built-in reader, `pkg/modbus/client.go` | none | build, execute, decode | signs and two-word counters. Shows the meter's state |
| TCP server, `pkg/modbus/server_tcp.go` | listener, context, status under a mutex | `ListenOn`, `Stop`, one goroutine per connection, `processMBAPFrame` | re-binding under load, MBAP or raw RTU by inspection |
| RTU server, `pkg/modbus/server_rtu.go` | port, status under a mutex | `Connect`, `Disconnect`, `readLoop` | frame ends found by silence, reconnects, failing ports |
| Packet log, `server_rtu.go` and `web/server.go` | subscribers, set of websocket clients | `BroadcastLog`, `broadcastPacket`, `handleWebSocket` | two writers on one connection, a slow client, order of the log |
| Web API, `pkg/web/server.go` | none of its own | control, query, add, remove, serial and TCP handlers | look-ups with a fallback, then a later access |
| Dashboard, `pkg/web/static/app.js` | cached meters, selection, debounce timer | slider, relay button, add, remove, select | commands computed from a cache, updates sharing one timer |
| Checksum, `pkg/modbus/crc.go` | none | CRC-16 | the bitwise loop is the polynomial |
| Program start, `cmd/meter-sim/main.go` | flags | wires the parts | address narrowed to 8 bits, start-up order |

They interact by calls and shared state. Serial, TCP and web handlers call
`DeviceManager` for a pointer, release its lock, then call the
`RegisterManager` behind the pointer, which locks itself. `SimulationEngine`
does the same for a whole list. Every handler calls
`BroadcastLog`, which calls back into the web server, which writes to every
browser. Nothing is stored on disk.

`PROJECT.json` lists all components with their status, and every hazard at its
line with the properties that cover it, or the reason why none does.

## 2. Plan

The modules were written in this order, most important behaviour first; all of
them are done and described below.

1. Core: `Registers`, `Frames`, `EnergyLedger`, `RegisterManager`, `MeterBus`
   with their proofs.
2. `WireFormat`, and on it `TCPServer`: a listener that moves, connections that
   outlive it, MBAP or raw by inspection.
3. `RTUServer`: connect and disconnect, frames found by silence, noise.
4. `PacketFeed` and `PacketHub`, which implements it: two writers on one
   connection, clients that do not read.
5. `Dashboard`: cache, timers and selection against the API.

`TCPServer` and `RTUServer` compose a transport with the decoders of `Frames`;
`MeterBus` composes the decoders with meters that change under them.
`PacketHub` takes from the servers only in which order a handler logs and
answers.

Left for later: a `PacketHub` whose exchanges are those of `TCPServer`'s
connections; meters that change their address under an open page.

## 3. The modules and the code

### Registers

`Meter` is `MeterState`. Physical quantities are integers in the unit of their
register, so `math.Round(x * 100)` of the code is the value itself, and what is
left of the conversion is the split into words and the wrap to 16 or 32 bits
(`High`, `Low`). Energy is therefore booked in whole hundredths of a kWh; the
fractions that the code accumulates in floats, and their rounding, are not
modelled. The conversion of a float that does not fit an unsigned register is
the one of the shipped amd64 builds, a wrap. A name matters to the code only
in being one of the two solar names, and is the flag `solar`. Time stamps, log
texts and the state record's JSON form are left out.

`ReadHoldingRegisters` and `WriteMultipleRegisters` are the range checks, in
the order of the code and with its 16-bit `EndAddr`. `Written` is the state
after the loop of `WriteMultipleRegisters`, a recursive function whose one
round is `WriteWord`: the register's number is computed in 16 bits, and the
reset of the counters looks at the whole range from inside the loop, as in
the code.

`StepMeter` is `stepMeter` with the noise as an input: a `Deviation` holds one
draw for each of the four quantities, together with the reactive power, whose
square root is not computed; the code's condition for it to be 0 is. The
energy of the interval, power times time, is the input `gain`.

`ControlUpdate` is the closure of `handleControl`. A change is a function on
the fields the request carries.

### Frames

A request is a record of the fields that the decoders inspect (`Request`). Bytes
are not assembled: `size` is the length the decoders test, normalised so that
one number serves both, `byteCount` is the declared one, `intact` is the
checksum or the MBAP length test. `RTUReply` and `MBAPReply` are translated
separately, because the code has them separately: the RTU decoder compares the
byte count with the register count, the MBAP decoder leaves that to the
register function. A slice whose upper index wraps in a byte is a `Panic`, and so are
the table index of a wrapped read and the missing function code of a bare MBAP
header. A panic ends the process when it happens in a serial or TCP
goroutine. (In a web handler `net/http` recovers it; the locks are released by
`defer`.)

### RegisterManager

`st` is the meter, `wire` the last exchange, `up` whether the process runs. The actions are `RTUFrame`, `MBAPFrame`, `Control` and
`Tick`. Each is one lock access, hence one step.

### MeterBus

| Variable | Code |
| --- | --- |
| `meters` | `DeviceManager.meters`, ids to pointers |
| `heap` | the `RegisterManager`s ever allocated; a removed one lives on while a handler or the sweep holds it |
| `task` | where each handler goroutine is between two lock accesses, and the pointer it holds |
| `sweep` | the part of `stepAll`'s list still to be stepped |

| Action | Code, one lock access each |
| --- | --- |
| `Receive` | a frame, or a request to the web API, arrives |
| `ResolveSlave`, `ReadStation` | `handleQuery`: slave 0 is replaced by the default meter's address |
| `GetMeter`, `FallBack` | the look-up, and `GetDefaultMeter` where the caller falls back to it |
| `CheckAddress` | `ProcessRTUFrameSingle`'s `GetState`, address and checksum tests |
| `Apply` | the register access, or the dashboard's `UpdateState` |
| `AddMeter`, `RemoveMeter` | the device manager's operations, under its lock |
| `Tick`, `StepNext` | `GetAllMeters`, then one `stepMeter` after the other |

The kinds of request differ in their path: MBAP frames skip `CheckAddress`,
the reader and the control handler fall back for every id, RTU frames for 0
and MBAP frames for 0 and 255; a raw frame of the reader (`hex`) keeps its own
unit while the meter is found by the request's slave. Requests whose range or
slice wraps are excluded here (`Ordinary`): that they end the process is the
subject of `RegisterManager`, where they are included. Handlers that only
read, `handleMeters`, `handleState` and the websocket's push, change nothing
another goroutine could see, except that `handleState` may create meter #1
like any caller of `GetDefaultMeter`; `AtLeastOneMeter` shows that this
branch is never taken.

### WireFormat

Received data is a sequence of bytes. The CRC register is the set of its bits
that are 1, so an exclusive or is a symmetric difference (`MixIn`), and both
loops of `CalculateCRC16` are recursive functions. What it is compared with, the
division of polynomials (`Remainder`), is a property of `RTUServer`.
`RTURequest` and `MBAPRequest` cut a request of `Frames` out of the bytes at the
offsets of the code; a byte that was not received reads as 0, and is never
looked at, because the length tests of `Frames` come first. `Streams` holds the
bytes up to each of some pieces. `RTUAnswer` and `MBAPAnswer` look up the meter,
with the fallback of each decoder, and reply with a meter as it was made: what a
meter's registers hold changes nothing but the data of an answer.

### TCPServer

| Variable | Code |
| --- | --- |
| `server` | the fields of `TCPServer`; `cancel` and `ctx` are those of its listener |
| `listeners` | every `net.Listener` made by `ListenOn`, with the context made with it and its accept loop |
| `starting` | `main`'s goroutine has not called `Start` yet |
| `conns` | the goroutines of `handleConnection`, with what has arrived and what was read |

Each operation of the listener holds `mu`, hence is one step, with every way it
can end: `Disable`, `Bind`, `FailToBind`. A bind fails when another listener,
or another program, has the address. `Read` returns any piece of what has
arrived that fits the buffer (`BufferSize`) and ends at the end or at a length
in `Cuts`; `ReadEnds` is the end of the stream or the deadline. `Serve` is one of
the two decoders and what it logs before the answer is written; `Write` is
`conn.Write`, a step of its own, because it has no deadline: it waits until the
client has read (`ClientReads`) enough for the answer to fit (`Room`), or has
closed its end (`Leave`). A client may do neither. The text of an
address and its normalisation are left out; `""`, `"off"` and `"disabled"` are
one address, `Disabled`. `Stop` is not modelled: nothing calls it.

### RTUServer

| Variable | Code |
| --- | --- |
| `server` | `isConnected`, `port`, `portName`, `baudRate` |
| `ports` | every port opened, with its read loop: `frameBuf`, the place in `readLoop`, the context |
| `rest`, `sent`, `asked` | the master: what it has still to send after a pause, what it meant to send, and the port on which it waits for an answer |
| `served` | the frames that were answered, for the properties |

Time is only order: that 20 ms of silence are noticed (`ReadNothing`) may
happen whenever nothing has arrived, also between two bytes of a frame, and
need not happen between two frames. `Unplug` makes every use of the port an
error. The write of an answer that the port was closed under fails
(`WriteAnswer`).

### PacketHub

A message is written in two steps, because a writer can stand inside
`WriteMessage`: it waits there for room. The websocket library is external.
What the model takes from it is that it has a lock of its own around the
connection, and an unsynchronised flag `isWriting` by which it detects two
writers: `Enters` is a writer that does not see the flag (a data race, so this
is always possible), `Collides` one that sees it and panics. Two writers who
did not notice each other may mix their bytes (`Junk`). A writer that
finds the flag cleared at its end panics as well. A panic in a web handler is
recovered by `net/http` and runs the deferred `Unlock`; one in a serial or TCP
goroutine ends the process (`PanicIn`).

`todo` holds what an exchange has still to log, and to write to its master, in
the order of `readLoop`, `processMBAPFrame` or `handleQuery`. `lock` and
`left` are `broadcastPacket`: who holds `clientsMu`, and the clients the
loop has not come to. The set is ranged over in any order, as Go's map is.
`view` and `hub[b].joined` are for the properties. `PacketFeed` is what
the inspector promises: all packets in one order, an answer after its request,
every browser shown packets in that order and none twice.

### Dashboard

`page` holds the page's variables (`allMeters`, `selectedMeterId`,
`isUpdatingControls`, `debounceTimer`, the form and the add dialog's button).
`calls` and `answers` are sets, because each fetch has a connection of its own
and they overtake each other; `stream` is the websocket, in order. `Serve` is
the server's handler, one step: how it interleaves inside is the subject of
`MeterBus`. `Others` are the calls of other clients. `Fail` is a call that is lost
before it is served, or whose answer is lost; `Caught` is what the page's `catch`
clauses then do: nothing for a move, a switch or a list, while the add dialog
ends. No call is sent again.

Of the sliders only that of the current is kept. `updateControl` sends all of
them together; the others go the same way. For a meter that is to produce no
current the form shows the current measured, or 5.25 when that is 0 as well
(`Shown`); what is measured follows in the simulation's time, so it is an input
here, any of `Measures`, each time the form is loaded. A meter's key and its station
address are the same here. `timers` counts the 400 ms
timers that are set, and of these the last cannot fire before the 100 ms timer
that was set with it has (`TimerFires`).

### Definitions marked "Variant:"

A definition with this mark is a plausible mistake in the definition that
follows it. No specification uses it. `PROJECT.json` pairs each property of a
passing run with one of them: with the variant in place of the original, TLC
reports that property violated. This shows that no property holds whatever the
code does.

## 4. What the runs check

| Run | States | Shows |
| --- | --- | --- |
| `RegisterManager` | 27 102 | one meter, 32 requests by either transport, 5 updates, simulation steps |
| `MeterBus` | 86 618 | one handler, 4 requests that write addresses and counters, 2 meters, energy |
| `MeterBusFixed` | 704 540 | two handlers (symmetric), 6 requests, 3 meters |
| `RegisterManagerOutOfRange` | | finding: the wrapped read |
| `MeterBusReaddress` | | finding: the re-addressed meter is lost |
| `MeterBusControl` | | finding: an update reaches another meter |
| `TCPServer` | 187 071 | one connection, two addresses, two listeners, two requests cut and joined, a client that may not read |
| `TCPServerReadme` | | finding: a command of the manual is not answered over TCP |
| `RTUServer` | 54 815 | two ports one after the other, two messages of five kinds |
| `PacketHub` | 45 153 | three exchanges, one browser |
| `PacketHubWriters` | | finding: two writers on one websocket |
| `Dashboard` | 449 048 | two stations, two acts of the user, one event: another client's call, a failing call or a lost websocket |

Properties of `RegisterManager`: `EnergyBalance` (the total is the sum of both
directions through resets, presets, import and export), `LedgerSpec` (the
counters implement `EnergyLedger`: energy is booked only while the relay is
closed, and the counters are erased only together), `TransportsAgree`,
`DecodedReadMatchesState` (what the reader shows is the meter's state, sign and
high words included), `WriteReadsBack` (an acknowledged write does what its words
say: the counters are 0 when it writes zeroes to both words of the total from a
start there, and are not moved by any other words or start; the relay and the
address register read back as written, illegal bytes aside; nothing else moves),
`RetryIsHarmless` (a repeated write changes nothing more).

Properties of `MeterBus`, in its two runs: `AtLeastOneMeter`,
`EveryMeterAnswers` (a master that uses a meter's configured address reaches
it), `OnlyTheAddresseeServes` (whatever happened since the look-up, the meter
served has the address the request names), `LedgerSpec` for every meter
including removed ones, and `OpenRelaySettles` (a meter that is switched off
shows no load before long, unless it is switched on again or removed).

`EveryMeterAnswers` and `OnlyTheAddresseeServes` need that nobody writes an
address (`NoReaddressing`). `MeterBusFixed` has only such requests;
`MeterBusReaddress` shows what happens otherwise. `ControlChangesOnlyTheNamedMeter`
is checked only where it fails.

Properties of `TCPServer`: `StatusTellsTruth` (one listener is open exactly
while the status is active, at the address shown), `AtMostOneLateAnswer`,
`AnswersAreInOrder` (wherever the network cuts, each answer is to a request
that was sent, in order, none twice) and `OrphansEnd` (the connections of a
stopped listener end, or are held for ever by a client that sent more than it
reads answers to: `Stuck`, which the code cannot end). The server tells requests
apart only by the bytes of one read, so `AnswersAreInOrder` holds of requests
whose bytes leave no doubt; `Unambiguous` says what that means, `TCPServerMC`
has TLC evaluate it for the requests the run sends (`MCRequestsAssumption`), and
`TCPServerReadme` is a case of the other kind: of the read that the manual gives,
bytes 2 and 3 are zero as in an MBAP header, its length test passes, and what
is then taken for the unit, a byte of the checksum, names no meter.

Properties of `RTUServer`: `StatusTellsPort`, `OnlySentFramesAreServed` (what
is served is what the master sent, each at most once, whatever the pauses and
the noise), `AwaitedFrameIsWhole` (while a master waits for an answer, its frame
stands whole and alone in the read loop's buffer), `CRCIsRemainder`, `LoopsEnd`
and `MasterIsAnswered`. The read loop knows a frame only by its checksum and its function
code, and no 16 bits tell all messages apart; `Recognisable` says
of the messages a master sends that they do. `RTUServerMC` has TLC evaluate it for
the messages of the run (`MCMessagesAssumption`), over all sequences of pieces that a read
loop could take for one frame. Checking these properties
showed two things about the code that the properties therefore allow: the loop
of a port just closed may serve its last frame after the first one of the next
port, and zeroes that follow a frame inside the silence belong to a frame whose
checksum is right again, which is served like the frame without them.

Properties of `PacketHub`: `FeedSpec` (it implements `PacketFeed`),
`NoPacketMissed` (as long as no two writers met, a browser is sent every packet
since it came), `NoWriteAfterClose`, `BroadcastsEnd`, `GoneAreForgotten`.

Properties of `Dashboard`: `LastMoveIsKept` (the last move of a slider waits for
the page's timer or is on its way until the server has served it or its call
has failed; nothing else drops it), `DialogAwaitsAnswer` (while the add dialog is
disabled, the answer that enables it is still to come, also when calls fail),
`PageCatchesUp` and `FormCatchesUp` (the page and its form end up showing the
server's meters, whatever overtook what and whichever call failed),
`AddDialogEnds`. No property says that a last move reaches the server: the page
does not repeat a call that fails (app.js:623).

Bounds:

- Requests of `RegisterManagerMC` sit on the decoders' edges: counts of 0
  and 126 for reads, 124 and 125 for writes, the first and the last register,
  ranges that wrap, byte counts on both sides of where each decoder's slice
  wraps, a malformed length of each kind, an illegal
  and a legal byte in the address register. Longer lists of ordinary requests would
  reach no other branch.
- `MCGains` contains 70 000 and `MCEnergyBound` is 83 000, so that a counter
  passes 65 535 and the high word is used. The solar preset imports and
  exports, so all three counters differ.
- `MaxMeters` counts removed meters too. With 2 or 3 a meter can be removed
  and added again under the same id while a handler still holds the old one;
  a further meter adds one more of the same kind.
- `MeterBusFixed` has two handlers, enough for each to change the map, or a
  relay, between two accesses of the other; gains are 0 there, because
  counters are the business of `MeterBus`. `MeterBus` has one handler, because
  a ledger step is one access under one meter's lock whichever goroutine
  makes it; the simulation, additions and removals interleave with it.
- `TCPServer` has two listeners, so that one can be stopped while its connection
  lives on beside the next, and requests of both forms; `Cuts` has
  the length 7 at which an MBAP header is complete and its request is not. There
  is room for one answer (`Room`), so that the second of two pipelined requests
  finds none.
  Connections share nothing but the listener, so one is enough; the proofs have
  any number.
- `RTUServer` has two ports in sequence and two messages, enough for a frame
  to be joined with what is left of another, split by a pause, or go to a port
  opened after it was begun. The messages are a whole frame, the same with a pause
  before its fourth byte, with two flipped bits, one to another meter, and a
  stray zero.
- `PacketHub` has one browser and room for one message, so that a writer does
  wait; three exchanges are one that ends the process when it panics and two
  that leave the lock to each other. `PacketHubWriters` has two browsers.
- `Dashboard` has two stations, so that the selection can fall back, and a
  current of 0, which the form shows as another. Two acts of the user
  and one event overtake each other in every order. A meter that is to produce
  none measures none or 9 (`Measures`), so that the form can be wrong in two ways:
  it may go on showing a 9 that is no longer measured, or a 0.
- Deadlock is not checked in `RegisterManager` and `PacketHub`: after a panic
  the process is gone; nor in `Dashboard`, where the bounds on acts and events
  may be used up.

Fairness (`FairSpec`, used by `OpenRelaySettles`): the ticker goes on ticking
and the sweep goes on (`time.Ticker` and a loop that waits for nothing but
mutexes held for bounded work), and a handler that has started runs to its end.
`Receive`, `AddMeter` and `RemoveMeter` have no fairness: nobody has to use the
program. Go's `RWMutex` does not starve a waiting writer. Shutdown is not
modelled; after it there are no meters to look at.

Fairness of the other modules: goroutines that can run do, the kernel accepts or
refuses a queued connection, `Read` returns (60 s deadline over TCP, 20 ms on
the port), timers fire, a call is served and answered unless it fails, a page
re-opens its websocket. `conn.Write` over TCP is not assumed to end: `Write` is
enabled only while there is room or the client has gone, and no client has to
read or go. That a connection gets past the packets it logs, in `Serve` and
`Write`, rests on what `PacketHub` assumes. In
`PacketHub` a browser that stays reads, which is what `BroadcastsEnd` depends
on: one that stays and never reads stalls every handler that logs, because
`broadcastPacket` has no deadline. `EndSend` has strong fairness: writers wait in
line for the library's lock, so a handler that pushes again and again does not
overtake a broadcast for ever. `AcceptError` is not excluded by any fairness:
`OrphansEnd` holds although accepting may end at any time.

## 5. What is proved

Assumptions: the inputs have their types (`RequestsAssumption`,
`ChangesAssumption`, `SimulationAssumption`, `JobsAssumption`,
`MetersAssumption`, `AddrsAssumption`, `ConnectionsAssumption`,
`LineAssumption`, `HubAssumption`, `PageAssumption`), nothing about their
number. Sets of workers, jobs, requests, changes, noises, connections, messages,
browsers, exchanges and stations may be infinite.

`InductionLemmas`: induction over a set of numbers (`Induction`,
`InductionUpTo`: a set that contains 0, and with each number the next, contains
all), and that a function defined by recursion over the numbers exists and has
the values that its definition says (`Recursion`). An induction names the set of
the numbers for which the claim holds, because the provers cannot instantiate a
predicate.

`FramesProofs` has the lemmas about the operators: the types of replies and of
the meter after each operation, and that writing twice is writing once
(`WrittenIdempotent`), for all ranges, including those that wrap.

- `WrittenAtOnce`: the loop of `WriteMultipleRegisters` leaves what all its
  words at once make of the meter (`AtOnce`). By induction over the words: the
  range comes to no register twice, even where it wraps (`Position`), so the
  round that writes a register is the only one to do so, and the reset of the
  counters, which the loop may decide on twice, is decided alike. All that is
  proved about writes rests on it.

`RegisterManagerProofs`

- `TypeCorrect`, by one step per action.
- `EnergyIsBalanced`. Balance is inductive beside the type: every operation
  keeps the energy, erases it, or adds the same gain to the total and to one
  direction.
- `RetriesAreHarmless`. The property is not inductive by itself, because it
  says nothing of the write that the reply came from. The invariant is
  `WriteIsSettled`: after an acknowledgement, `Written` of the same words
  leaves the state as it is. It follows from `WrittenIdempotent`.
- `TransportsAlwaysAgree`, an action property, from the type invariant by
  cases on the function code.
- `CountersImplementLedger`: initial states map to ledgers with one account,
  each step to a command, a booking or a stutter.
- `ReadsDecode`, under `EnergyBounded`: simulated intervals stop before a total
  outgrows the 32 bits of its two registers, which the code does not prevent
  (a meter would need 43 million kWh). `DataIsExcerpt`
  says that a reply with data is a stretch of the meter's table as it is now,
  `RegisterDecodes` that each shown register of the table decodes to its field.
  The totals stay below the limit (`TotalBounded`), and with `EnergyBalance` so
  do their two parts.
- `WritesReadBack`, an action property, on the words written as well as on the
  registers: an acknowledgement comes from a write
  whose count is that of its words (`AckIsWrite`), the
  closed form of the write reaches exactly the registers it names, also when the
  range wraps (`NamedIsCovered`), and `WrittenTable` goes through the table
  register by register.

`MeterBusProofs`

- `TypeCorrect`: every pointer a handler, the map or the sweep holds is one of
  a meter that exists. `heap` only grows, so a pointer stays valid
  (`HeapKept`).
- `NeverWithoutMeters`: removal needs two meters, and nothing else shrinks the
  map. This needs the map to be finite, which `MapTyped` gives: its ids are
  bytes.
- `FixedMetersAnswer` and `FixedMetersAreServed`, under `NoReaddressing`. The
  inductive invariant `Settled` says that every installed meter has its key as
  its address, which is the first theorem's reason, and that every handler
  about to serve a frame for a unit in 1..247 holds a meter with that address.
  A pointer stays right when the meter is removed, because the address of a
  removed meter does not change either.
- `MetersImplementLedger`: the book has an account for each meter ever made.
  Making one is `Install`, whoever makes it; serving a request is a `Command`
  even when it changes nothing; a step of the sweep is an `Accrue` or a
  stutter.

`TCPServerProofs`, from `AddrsAssumption` and `ConnectionsAssumption`

- `TypeCorrect`, `StatusIsTrue`, `LateAnswersAreFew`. The invariant adds
  to the types and the status that a listener is open until its context is
  cancelled (`OpenUntilCancelled`), and for each connection that an answer given
  after the stop leaves it before the test of the context (`LateOK`), where it ends.
- `AnswersKeepOrder` (`AnswersAreInOrder`) under `Unambiguous`: for any requests
  of which it holds, any number of connections, any cuts. The property is not
  inductive, for it forgets the stream. The invariant over the first,
  `Framed`, says that the bytes of the requests sent are, in order, those
  already answered or dropped, those read and kept until the answer is written
  (`ChunkFits`), and those that have arrived; and that the requests answered so
  far lie in the first part (`AnswerOrder`). A piece that
  is answered then begins just behind it, with a request that comes after
  those (`ComesAfter`).

`RTUServerProofs`, from `LineAssumption`

- `StatusIsThePort`: the open ports are the one the status tells. A port that is
  opened gets a number beyond all others, and `Closed` closes the only one that
  is open.
- `TypeCorrect` and `AwaitedIsWhole`, from one inductive invariant, `Whole`.
  `AwaitedFrameIsWhole` is not inductive: it does not say that a read loop
  between two frames has an empty buffer, nor that a port is cancelled just when
  it is closed (`PortOK`), nor that the frame waited for is one that deserves an
  answer (`IsAwaited`), without which the loop could drop it. The type of the
  bytes needs that flipping bits of a byte, and appending a checksum, give bytes.
- `ChecksumIsRemainder`: for data of any length, the two loops of
  `CalculateCRC16` compute the remainder of the division of polynomials. Both
  sides are recursions; the invariant that ties them says that the register,
  mirrored, with the data not yet taken in, is what is left to divide
  after as many steps.
- `AppendedIsAccepted`: what `AppendCRC` appends to any data, `CheckCRC` accepts.
  It splits the register into two bytes and joins them again (`BitsOfByte`).
- `WrongByteIsNoticed`, `JoinedFramesAreNoticed`, `OnlyZeroesGoUnnoticed`: what the
  checksum notices, for frames of any length. One byte that was read wrong, and
  two frames read as one, are rejected; a single byte behind a frame is rejected
  unless it is 0. All three rest on the register never forgetting a difference:
  the inner loop maps different registers to different ones (`BitLoopTellsApart`),
  so two frames that are alike from some byte on have the same checksum only
  if they had it there (`SameChecksum`), and a frame that is accepted leaves the
  register at 0 (`AcceptedLeavesNothing`), from where data with a checksum of
  its own cannot come back to 0.
- `ServedWereSent` (`OnlySentFramesAreServed`) under `Recognisable`: for any
  messages of which it holds, any ports, pauses, noise, failures and reconnects,
  as many as there may be. The property is not inductive, for it forgets where
  the bytes in the buffers come from. The invariant over `Whole`, `Traced`, says
  that the buffer of each read loop, and what waits for it, are whole
  pieces of what the line carried, in order (`Reads`); that a piece which begins
  a frame is of the k-th frame sent, later than all that were answered on
  that port; and that there are no more pieces than two for each frame sent, less the one
  still to come. What is answered then begins with the start of a frame, by
  `Recognisable`, and that frame was not answered before (`TracedServed`). The loop of a
  port that was closed keeps its own pieces, which is why order holds only
  port by port.

`PacketHubProofs`, from `HubAssumption`

- `TypeCorrect`, `ClosedIsNotWritten`, `HubImplementsFeed`. The first inductive
  invariant has three parts. `Scripted`: what an exchange has still to log
  tells what it has published (so no packet is published twice, and no answer before
  its request). `Locked`: only the holder of `clientsMu` writes packets, to
  one browser at a time, and only to registered ones. `Sockets`, for each
  browser: it is registered and its handler is writing exactly at the
  places of `handleWebSocket` where it should be, and what it was shown and what
  is on its way are packets in order, below the one that is still to be
  written to it (`ViewOK`, `Bound`). That last bound is what makes a packet
  arrive at most once. Nothing in it assumes that writers do not collide, so
  the order holds even when they do.
- `PacketsAreDelivered` (`NoPacketMissed`), from a second invariant over the
  first, `Delivering`: as long as no two writers have met, the library's flag
  tells of the one writer there is and no messages are mixed up (`Calm`), and the
  packets shown and under way to a browser are, in order and without a gap, those
  since it came. The gap that a broadcast opens between publishing a packet and
  writing it to the last client is `LastSent`.

`DashboardProofs`, from `PageAssumption`

- `TypeCorrect`, `LastMoveKept`, `DialogAwaited`, from one invariant that adds
  to them only that the timers under way are no more than the user's acts. What
  has to be shown for each of the page's handlers is that it takes away no
  timer, call or answer that one of the promises rests on: a push, a late answer
  or a tab may overwrite the form, but not the move that waits to be sent.
  The type says that the server never has no meter, and that no list or message
  is empty (`AnswerType`), because the page takes the first of a list when it
  does not find its meter there. It does not say that the selected
  meter is one the page has: when an added meter is removed again before the list
  is fetched, or fetching the list fails, the page selects an address it does not
  know (app.js:688), until the next push.

## 6. Only model-checked

- `OpenRelaySettles`, `OrphansEnd`, `LoopsEnd`, `MasterIsAnswered`,
  `BroadcastsEnd`, `GoneAreForgotten`, `PageCatchesUp`, `FormCatchesUp`,
  `AddDialogEnds`: liveness, out of the prover's reach.
- That the requests of `TCPServer`'s run are `Unambiguous`, and the messages of `RTUServer`'s run `Recognisable`, is
  evaluated by TLC; the theorems take it as a hypothesis. By chance a piece of a
  frame, or pieces joined by noise, may have a checksum that is right; which
  messages are safe from that can only be computed.
- The findings: each is one counterexample.

## 7. Not modelled

- Rounding of floating-point sums, and the random distribution of the noise.
- The text of packet logs: `FormatHex`, `RegisterName`, `DescribeResponse`,
  `BreakdownFrame` and the C snippet.
- Listing of serial ports, static assets, routing and JSON of the web server,
  flags and banner, build scripts.
- Of the page: the reader sandbox, the packet table, the connection and
  TCP dialogs, which show what the server answered and keep no state but a
  flag; gauges and markup.
- Shutdown: the process ends 300 ms after it began.
- Time, except as order.

## 8. Running

    tlc -workers 2 -config MeterBus.cfg MeterBusMC
    tlapm MeterBusProofs.tla

A configuration belongs to the MC module of its specification, see
`PROJECT.json`. The slowest run takes about three minutes on two cores, the
slowest proof about four.
