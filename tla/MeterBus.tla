------------------------------- MODULE MeterBus -------------------------------
(* The DeviceManager and the goroutines that share it: RTU frames from the      *)
(* serial port or raw over TCP, MBAP frames, the dashboard's reader and control *)
(* handlers, meters added and removed, and the simulation's sweep.              *)
(*                                                                              *)
(* A handler takes the DeviceManager's lock to look a meter up and the meter's  *)
(* own lock later, once to read its address and once more to serve the request; *)
(* between two of these steps any other goroutine may run.  Meters are pointers *)
(* into heap: one that is removed lives on for whoever still holds it.          *)
EXTENDS Frames, FiniteSets

CONSTANTS Workers,      \* goroutines that serve requests
          Jobs,         \* the requests that may arrive
          InitialID,    \* the meter main starts with
          Additions,    \* the <<id, solar>> pairs the dashboard may ask to add
          MaxMeters,    \* no meter is added beyond this many, removed ones included
          Deviations, Gains, EnergyBound    \* as in RegisterManager

(* rtu, mbap: a frame; query: a preset or a composed read of the dashboard's    *)
(* reader; hex: a raw frame of the reader, for the meter slave names, whatever  *)
(* unit is in the frame; control: a dashboard update of meter slave.            *)
FrameKinds == {"rtu", "mbap", "query", "hex"}

(* Requests whose range or slice wraps are the subject of RegisterManager; an   *)
(* MBAP frame that is not all there is dropped before it reaches the bus.       *)
Ordinary(q) ==
  /\ q.size >= 0
  /\ q.start + q.count <= WordSize
  /\ ~SliceWraps(13, q.byteCount)

IsJob(job) ==
  /\ job = [kind |-> job.kind, slave |-> job.slave, what |-> job.what]
  /\ job.slave \in Byte
  /\ \/ job.kind = "control" /\ IsChange(job.what)
     \/ job.kind \in FrameKinds /\ job.what \in Request /\ Ordinary(job.what)
  /\ job.kind \in {"rtu", "mbap", "query"} => job.what.unit = job.slave
  /\ job.kind \in {"mbap", "query", "hex"} => job.what.intact

ASSUME JobsAssumption == \A job \in Jobs : IsJob(job)

ASSUME MetersAssumption ==
  InitialID \in Byte /\ Additions \subseteq Byte \X BOOLEAN /\ MaxMeters \in Nat

ASSUME SimulationAssumption ==
  Deviations \subseteq Deviation /\ Gains \subseteq Nat /\ 0 \in Gains /\ EnergyBound \in Nat

VARIABLES meters,   \* dm.meters: id -> pointer
          heap,     \* the meters ever created, in order
          task,     \* what each worker is doing
          sweep     \* what is left of the list stepAll works through

vars == <<meters, heap, task, sweep>>

Nil == 0

Doing(pc, rm, job) == [pc |-> pc, rm |-> rm, job |-> job]
NoJob == [kind |-> "none"]
Idle  == Doing("idle", Nil, NoJob)

Lowest(f) == {id \in DOMAIN f : \A other \in DOMAIN f : id <= other}

ResolvedID == IF InitialID = 0 THEN 1 ELSE InitialID

Init ==
  /\ meters = [id \in {ResolvedID} |-> 1]
  /\ heap = <<NewMeter(ResolvedID, ResolvedID = 2)>>
  /\ task = [w \in Workers |-> Idle]
  /\ sweep = << >>

-----------------------------------------------------------------------------
(* Serving a request *)

At(w, pc) == task[w].pc = pc

(* The steps still ahead of a handler that has its meter: a frame decoded as    *)
(* RTU is first compared with the meter's address.                              *)
Routed(job, p) ==
  Doing(IF job.kind \in {"rtu", "query", "hex"} THEN "address" ELSE "apply", p, job)

(* A reader request for slave 0 is first given the default meter's address *)
Receive(w) ==
  /\ At(w, "idle")
  /\ \E job \in Jobs :
       task' = [task EXCEPT ![w] =
         Doing(IF job.kind \in {"query", "hex"} /\ job.slave = 0 THEN "slave" ELSE "lookup",
               Nil, job)]
  /\ UNCHANGED <<meters, heap, sweep>>

(* Variant: an MBAP or RTU frame falls back for every unit *)
FallsBackAnyUnit(job) == job.kind \in FrameKinds \cup {"control"}

(* An unknown id: the reader and the control handler take the default meter for *)
(* any of them, an RTU frame for the broadcast address, an MBAP frame for units *)
(* 0 and 255.                                                                   *)
FallsBack(job) ==
  \/ job.kind \in {"query", "hex", "control"}
  \/ job.kind = "rtu" /\ job.slave = 0
  \/ job.kind = "mbap" /\ job.slave \in {0, 255}

GetMeter(w) ==
  /\ At(w, "lookup")
  /\ LET job == task[w].job
     IN task' = [task EXCEPT ![w] =
          IF job.slave \in DOMAIN meters THEN Routed(job, meters[job.slave])
          ELSE IF FallsBack(job) THEN Doing("default", Nil, job)
          ELSE Idle]
  /\ UNCHANGED <<meters, heap, sweep>>

(* dm.meters[id] = m, for a meter just made *)
Install(id, m) ==
  /\ heap' = Append(heap, m)
  /\ meters' = [x \in DOMAIN meters \cup {id} |-> IF x = id THEN Len(heap) + 1 ELSE meters[x]]

(* The default meter is the one with the lowest id; #1 is created if there is   *)
(* none.                                                                        *)
EnsureMeter ==
  IF DOMAIN meters = {} THEN Install(1, NewMeter(1, FALSE)) ELSE UNCHANGED <<meters, heap>>

FallBack(w) ==
  /\ At(w, "default")
  /\ EnsureMeter
  /\ \E id \in Lowest(meters') :
       task' = [task EXCEPT ![w] = Routed(task[w].job, meters'[id])]
  /\ UNCHANGED sweep

ResolveSlave(w) ==
  /\ At(w, "slave")
  /\ EnsureMeter
  /\ \E id \in Lowest(meters') :
       task' = [task EXCEPT ![w] = Doing("station", meters'[id], task[w].job)]
  /\ UNCHANGED sweep

(* Variant: the composed frame keeps unit 0 *)
ReaddressedStale(job, station) == [job EXCEPT !.slave = station]

(* handleQuery replaces slave 0 by what the default meter's address was; the    *)
(* frames it composes carry it, a raw frame keeps its own unit.                 *)
Readdressed(job, station) ==
  [kind  |-> job.kind,
   slave |-> station,
   what  |-> IF job.kind = "query" THEN [job.what EXCEPT !.unit = station] ELSE job.what]

ReadStation(w) ==
  /\ At(w, "station")
  /\ LET t == task[w]
     IN task' = [task EXCEPT ![w] =
          Doing("lookup", Nil, Readdressed(t.job, heap[t.rm].station))]
  /\ UNCHANGED <<meters, heap, sweep>>

(* ProcessRTUFrameSingle's GetState and its silent returns *)
CheckAddress(w) ==
  /\ At(w, "address")
  /\ LET t == task[w]
     IN task' = [task EXCEPT ![w] =
          IF Addresses(t.job.what, heap[t.rm].station) /\ t.job.what.intact
          THEN Doing("apply", t.rm, t.job) ELSE Idle]
  /\ UNCHANGED <<meters, heap, sweep>>

(* The access to the registers, under the meter's own lock *)
Served(s, job) ==
  CASE job.kind = "control" -> ControlUpdate(s, job.what)
    [] job.kind = "mbap"    -> After(s, job.what, MBAPReply(s, job.what))
    [] OTHER                -> After(s, job.what, RTUReply(s, job.what))

Apply(w) ==
  /\ At(w, "apply")
  /\ LET t == task[w]
     IN heap' = [heap EXCEPT ![t.rm] = Served(@, t.job)]
  /\ task' = [task EXCEPT ![w] = Idle]
  /\ UNCHANGED <<meters, sweep>>

Serve(w) ==
  \/ GetMeter(w) \/ FallBack(w) \/ ResolveSlave(w) \/ ReadStation(w)
  \/ CheckAddress(w) \/ Apply(w)

-----------------------------------------------------------------------------
(* Meters come and go *)

AddMeter(id, solar) ==
  /\ Len(heap) < MaxMeters
  /\ id \in 1 .. 247
  /\ id \notin DOMAIN meters
  /\ Install(id, IF solar THEN SolarMeter(id) ELSE NewMeter(id, FALSE))
  /\ UNCHANGED <<task, sweep>>

(* Variant: meters are not counted *)
RemoveMeterUncounted(id) ==
  /\ meters' = [m \in DOMAIN meters \ {id} |-> meters[m]]
  /\ UNCHANGED <<heap, task, sweep>>

RemoveMeter(id) ==
  /\ Cardinality(DOMAIN meters) > 1
  /\ meters' = [m \in DOMAIN meters \ {id} |-> meters[m]]
  /\ UNCHANGED <<heap, task, sweep>>

-----------------------------------------------------------------------------
(* The simulation: a tick takes the list of meters, which are then stepped in   *)
(* the order of their ids, each under its own lock.                             *)

(* Variant: only the default meter is stepped *)
TickDefault ==
  /\ sweep = << >>
  /\ sweep' = [id \in Lowest(meters) |-> meters[id]]
  /\ UNCHANGED <<meters, heap, task>>

Tick ==
  /\ sweep = << >>
  /\ sweep' = meters
  /\ UNCHANGED <<meters, heap, task>>

StepNext ==
  /\ sweep # << >>
  /\ \E id \in Lowest(sweep), d \in Deviations, gain \in Gains :
       /\ gain = 0 \/ heap[sweep[id]].energy.total + gain <= EnergyBound
       /\ heap' = [heap EXCEPT ![sweep[id]] = StepMeter(@, d, gain)]
       /\ sweep' = [m \in DOMAIN sweep \ {id} |-> sweep[m]]
  /\ UNCHANGED <<meters, task>>

Next ==
  \/ \E w \in Workers : Receive(w) \/ Serve(w)
  \/ \E addition \in Additions : AddMeter(addition[1], addition[2])
  \/ \E id \in DOMAIN meters : RemoveMeter(id)
  \/ Tick
  \/ StepNext

Spec == Init /\ [][Next]_vars

(* The ticker goes on ticking, and stepAll and a handler run to their end *)
Fairness == WF_vars(Tick) /\ WF_vars(StepNext) /\ \A w \in Workers : WF_vars(Serve(w))

FairSpec == Spec /\ Fairness

-----------------------------------------------------------------------------

Pointers == 1 .. Len(heap)

MapTyped(f, pointers) == DOMAIN f \subseteq Byte \ {0} /\ f \in [DOMAIN f -> pointers]

TaskTyped(t, pointers) ==
  /\ t = Doing(t.pc, t.rm, t.job)
  /\ t.pc \in {"idle", "slave", "station", "lookup", "default", "address", "apply"}
  /\ t.pc # "idle" => IsJob(t.job)
  /\ t.pc \in {"station", "address", "apply"} => t.rm \in pointers
  /\ t.pc \in {"slave", "station"} => t.job.kind \in {"query", "hex"}
  /\ t.pc = "address" => t.job.kind \in {"rtu", "query", "hex"}

TypeOK ==
  /\ heap \in Seq(Meter)
  /\ MapTyped(meters, Pointers)
  /\ MapTyped(sweep, Pointers)
  /\ DOMAIN task = Workers /\ \A w \in Workers : TaskTyped(task[w], Pointers)

(* However removals race with each other and with the handlers, the last meter  *)
(* stays, so that no handler ever has to create one (RemoveMeter's own count,   *)
(* GetDefaultMeter's first branch).                                             *)
AtLeastOneMeter == DOMAIN meters # {}

(* A master that uses the address a meter is configured with reaches that       *)
(* meter: the DeviceManager finds it under that address and it takes the frame  *)
(* for its own.                                                                 *)
RTUAnswers(unit) == unit \in DOMAIN meters /\ heap[meters[unit]].station = unit

EveryMeterAnswers ==
  \A id \in DOMAIN meters : RTUAnswers(heap[meters[id]].station)

(* EveryMeterAnswers, and OnlyTheAddresseeServes below, hold as long as no      *)
(* request and no update gives a meter another address: the DeviceManager keeps *)
(* a meter under the id it was added with.                                      *)
KeepsAddress(job) ==
  IF job.kind = "control" THEN "station" \notin DOMAIN job.what
  ELSE ~Covers(job.what.start, job.what.words, RegAddressBaud)

NoReaddressing == \A job \in Jobs : KeepsAddress(job)

(* Whatever was added, removed or re-created since a request was looked up, it  *)
(* is served by a meter that has the address the request names.                 *)
OnlyTheAddresseeServes ==
  \A w \in Workers :
    (/\ At(w, "apply")
     /\ task[w].job.kind \in FrameKinds
     /\ task[w].job.what.unit \in 1 .. 247)
      => heap[task[w].rm].station = task[w].job.what.unit

(* An update of the dashboard changes the meter it names, and no other one of   *)
(* the independent meters.                                                      *)
ControlChangesOnlyTheNamedMeter ==
  \A w \in Workers :
    (At(w, "apply") /\ task[w].job.kind = "control") =>
      \A id \in DOMAIN meters : meters[id] = task[w].rm => id = task[w].job.slave

(* The counters of every meter, installed or removed, keep the ledger's promise *)
(* while requests, updates and the sweep interleave.                            *)
Ledger == INSTANCE EnergyLedger WITH
            book    <- [p \in Pointers |-> Account(heap[p])],
            Opening <- {Account(NewMeter(1, FALSE)), Account(SolarMeter(1))},
            Amounts <- Gains

LedgerSpec == Ledger!Spec

(* A meter whose relay is opened shows no load before long, unless it is        *)
(* switched on again or removed: the sweep reaches every meter, also those      *)
(* added while one is under way.                                                *)
Installed(p) == \E id \in DOMAIN meters : meters[id] = p
Open(p)      == p \in Pointers /\ Installed(p) /\ ~heap[p].relay
Unpowered(p) == heap[p].reading.current = 0 /\ heap[p].reading.activePower = 0

OpenRelaySettles ==
  \A p \in 1 .. MaxMeters : Open(p) ~> (~Open(p) \/ Unpowered(p))
=============================================================================
