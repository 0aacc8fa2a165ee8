---------------------------- MODULE MeterBusProofs ----------------------------
(* What holds of the DeviceManager for any number of workers, any requests and  *)
(* any ids.                                                                     *)
EXTENDS MeterBus, FramesProofs, FiniteSetTheorems

(* The heap only grows, and it stays a sequence of meters *)
HeapKept == heap' \in Seq(Meter) /\ Len(heap') >= Len(heap)

LEMMA PointersKept ==
  ASSUME heap \in Seq(Meter), HeapKept
  PROVE  Pointers \subseteq Pointers'
  BY DEF HeapKept, Pointers

LEMMA MapKept ==
  ASSUME NEW f, NEW P, NEW Q, P \subseteq Q, MapTyped(f, P)
  PROVE  MapTyped(f, Q)
  BY DEF MapTyped

LEMMA MapShrinks ==
  ASSUME NEW f, NEW P, NEW id, MapTyped(f, P)
  PROVE  MapTyped([m \in DOMAIN f \ {id} |-> f[m]], P)
  BY DEF MapTyped

LEMMA TaskKept ==
  ASSUME NEW t, NEW P, NEW Q, P \subseteq Q, TaskTyped(t, P)
  PROVE  TaskTyped(t, Q)
  BY DEF TaskTyped

LEMMA Stored ==
  ASSUME heap \in Seq(Meter), NEW p \in Pointers, NEW m \in Meter,
         heap' = [heap EXCEPT ![p] = m]
  PROVE  HeapKept /\ Len(heap') = Len(heap)
  BY DEF HeapKept, Pointers

LEMMA Created ==
  ASSUME heap \in Seq(Meter), MapTyped(meters, Pointers),
         NEW id \in Byte \ {0}, NEW m \in Meter, Install(id, m)
  PROVE  HeapKept /\ MapTyped(meters', Pointers')
<1>1. heap' \in Seq(Meter) /\ Len(heap') = Len(heap) + 1
  BY DEF Install
<1>2. HeapKept
  BY <1>1 DEF HeapKept
<1>3. Len(heap) + 1 \in Pointers'
  BY <1>1 DEF Pointers
<1>4. Pointers \subseteq Pointers'
  BY <1>2, PointersKept
<1>5. meters' = [x \in DOMAIN meters \cup {id} |-> IF x = id THEN Len(heap) + 1 ELSE meters[x]]
  BY DEF Install
<1> DEFINE p == Len(heap) + 1
           P == Pointers
           Q == Pointers'
<1>6. p \in Q /\ P \subseteq Q /\ MapTyped(meters, P)
  BY <1>3, <1>4
<1>7. meters' = [x \in DOMAIN meters \cup {id} |-> IF x = id THEN p ELSE meters[x]]
  BY <1>5
<1> HIDE DEF p, P, Q
<1>8. MapTyped(meters', Q)
  BY <1>6, <1>7 DEF MapTyped
<1> QED
  BY <1>2, <1>8 DEF Q

LEMMA OneIsAnId == 1 \in Byte \ {0}
  BY Sizes, ByteMember

LEMMA Ensured ==
  ASSUME heap \in Seq(Meter), MapTyped(meters, Pointers), EnsureMeter
  PROVE  HeapKept /\ MapTyped(meters', Pointers')
<1>1. CASE DOMAIN meters = {}
  BY <1>1, OneIsAnId, NewMeterType, Created DEF EnsureMeter
<1>2. CASE DOMAIN meters # {}
  <2>1. meters' = meters /\ heap' = heap /\ Pointers' = Pointers
    BY <1>2 DEF EnsureMeter, Pointers
  <2> QED
    BY <2>1 DEF HeapKept
<1> QED
  BY <1>1, <1>2

-----------------------------------------------------------------------------

(* A worker that goes on to a well-typed task, the heap kept, keeps the type    *)
LEMMA WorkerStep ==
  ASSUME TypeOK, NEW w \in Workers, NEW t, HeapKept,
         MapTyped(meters', Pointers'), sweep' = sweep,
         TaskTyped(t, Pointers'), task' = [task EXCEPT ![w] = t]
  PROVE  TypeOK'
<1>1. Pointers \subseteq Pointers'
  BY PointersKept DEF TypeOK
<1>2. MapTyped(sweep', Pointers')
  BY <1>1, MapKept DEF TypeOK
<1>3. ASSUME NEW v \in Workers
      PROVE  TaskTyped(task'[v], Pointers')
  BY <1>1, TaskKept DEF TypeOK
<1>4. DOMAIN task' = Workers
  BY DEF TypeOK
<1> QED
  BY <1>2, <1>3, <1>4 DEF TypeOK, HeapKept

LEMMA IdleTyped == \A P : TaskTyped(Idle, P)
  BY DEF TaskTyped, Idle, Doing

LEMMA RoutedTyped ==
  ASSUME NEW P, NEW p \in P, NEW job, IsJob(job)
  PROVE  TaskTyped(Routed(job, p), P)
<1>1. job.kind \in FrameKinds \cup {"control"}
  BY DEF IsJob
<1> QED
  BY <1>1 DEF TaskTyped, Routed, Doing, FrameKinds

LEMMA DoingTyped ==
  ASSUME NEW P, NEW rm, NEW job, IsJob(job), NEW pc \in {"lookup", "default"}
  PROVE  TaskTyped(Doing(pc, rm, job), P)
  BY DEF TaskTyped, Doing

(* The reader's request is a request still when slave 0 has been replaced *)
LEMMA ReaddressedIsJob ==
  ASSUME NEW job, IsJob(job), job.kind \in {"query", "hex"}, NEW station \in Byte \ {0}
  PROVE  IsJob(Readdressed(job, station))
<1> DEFINE q == job.what
           r == [q EXCEPT !.unit = station]
           new == Readdressed(job, station)
<1>1. q \in Request /\ Ordinary(q) /\ q.intact
  BY DEF IsJob, FrameKinds
<1>2. /\ r \in Request /\ r.words = q.words /\ r.unit = station /\ r.size = q.size /\ r.start = q.start
      /\ r.count = q.count /\ r.byteCount = q.byteCount /\ r.intact = q.intact
  BY <1>1 DEF Request
<1>3. Ordinary(r)
  BY <1>1, <1>2 DEF Ordinary
<1>4. /\ new.kind = job.kind /\ new.slave = station
      /\ new.what = IF job.kind = "query" THEN r ELSE q
      /\ new = [kind |-> new.kind, slave |-> new.slave, what |-> new.what]
  BY DEF Readdressed
<1> HIDE DEF q, r, new
<1> QED
  BY <1>1, <1>2, <1>3, <1>4 DEF IsJob, FrameKinds, new

LEMMA ServedType ==
  ASSUME NEW s \in Meter, NEW job, IsJob(job)
  PROVE  Served(s, job) \in Meter
<1>1. /\ job.kind = "control" => IsChange(job.what)
      /\ job.kind # "control" => job.what \in Request
  BY DEF IsJob, FrameKinds
<1> QED
  BY <1>1, ControlUpdateType, AfterType DEF Served

-----------------------------------------------------------------------------

LEMMA ReceiveTyped ==
  ASSUME TypeOK, NEW w \in Workers, Receive(w)
  PROVE  TypeOK'
<1>1. PICK job \in Jobs :
        task' = [task EXCEPT ![w] =
          Doing(IF job.kind \in {"query", "hex"} /\ job.slave = 0 THEN "slave" ELSE "lookup",
                Nil, job)]
  BY DEF Receive
<1>2. heap' = heap /\ meters' = meters /\ sweep' = sweep /\ Pointers' = Pointers
  BY DEF Receive, Pointers
<1>3. IsJob(job)
  BY JobsAssumption
<1>4. TaskTyped(Doing(IF job.kind \in {"query", "hex"} /\ job.slave = 0
                      THEN "slave" ELSE "lookup", Nil, job), Pointers')
  BY <1>3 DEF TaskTyped, Doing
<1> QED
  BY <1>1, <1>2, <1>4, WorkerStep DEF TypeOK, HeapKept

LEMMA GetMeterTyped ==
  ASSUME TypeOK, NEW w \in Workers, GetMeter(w)
  PROVE  TypeOK'
<1> DEFINE job == task[w].job
           t   == IF job.slave \in DOMAIN meters THEN Routed(job, meters[job.slave])
                  ELSE IF FallsBack(job) THEN Doing("default", Nil, job)
                  ELSE Idle
<1>1. heap' = heap /\ meters' = meters /\ sweep' = sweep /\ Pointers' = Pointers
  BY DEF GetMeter, Pointers
<1>2. task' = [task EXCEPT ![w] = t]
  BY DEF GetMeter
<1>3. IsJob(job)
  BY DEF TypeOK, TaskTyped, GetMeter, At
<1>4. job.slave \in DOMAIN meters => meters[job.slave] \in Pointers
  BY DEF TypeOK, MapTyped
<1>5. TaskTyped(t, Pointers)
  BY <1>3, <1>4, RoutedTyped, DoingTyped, IdleTyped
<1> HIDE DEF t
<1> QED
  BY <1>1, <1>2, <1>5, WorkerStep DEF TypeOK, HeapKept

LEMMA FallBackTyped ==
  ASSUME TypeOK, NEW w \in Workers, FallBack(w)
  PROVE  TypeOK'
<1>1. HeapKept /\ MapTyped(meters', Pointers')
  BY Ensured DEF FallBack, TypeOK
<1>2. PICK id \in DOMAIN meters' :
        task' = [task EXCEPT ![w] = Routed(task[w].job, meters'[id])]
  BY DEF FallBack, Lowest
<1>3. IsJob(task[w].job)
  BY DEF TypeOK, TaskTyped, FallBack, At
<1>4. meters'[id] \in Pointers'
  BY <1>1 DEF MapTyped
<1>5. TaskTyped(Routed(task[w].job, meters'[id]), Pointers')
  BY <1>3, <1>4, RoutedTyped
<1>6. sweep' = sweep
  BY DEF FallBack
<1> QED
  BY <1>1, <1>2, <1>5, <1>6, WorkerStep

LEMMA ResolveSlaveTyped ==
  ASSUME TypeOK, NEW w \in Workers, ResolveSlave(w)
  PROVE  TypeOK'
<1>1. HeapKept /\ MapTyped(meters', Pointers')
  BY Ensured DEF ResolveSlave, TypeOK
<1>2. PICK id \in DOMAIN meters' :
        task' = [task EXCEPT ![w] = Doing("station", meters'[id], task[w].job)]
  BY DEF ResolveSlave, Lowest
<1>3. IsJob(task[w].job) /\ task[w].job.kind \in {"query", "hex"}
  BY DEF TypeOK, TaskTyped, ResolveSlave, At
<1>4. meters'[id] \in Pointers'
  BY <1>1 DEF MapTyped
<1>5. TaskTyped(Doing("station", meters'[id], task[w].job), Pointers')
  BY <1>3, <1>4 DEF TaskTyped, Doing
<1>6. sweep' = sweep
  BY DEF ResolveSlave
<1> QED
  BY <1>1, <1>2, <1>5, <1>6, WorkerStep

LEMMA ReadStationTyped ==
  ASSUME TypeOK, NEW w \in Workers, ReadStation(w)
  PROVE  TypeOK'
<1> DEFINE job == task[w].job
           station == heap[task[w].rm].station
<1>1. heap' = heap /\ meters' = meters /\ sweep' = sweep /\ Pointers' = Pointers
  BY DEF ReadStation, Pointers
<1>2. task' = [task EXCEPT ![w] = Doing("lookup", Nil, Readdressed(job, station))]
  BY DEF ReadStation
<1>3. IsJob(job) /\ job.kind \in {"query", "hex"} /\ task[w].rm \in Pointers
  BY DEF TypeOK, TaskTyped, ReadStation, At
<1>4. heap[task[w].rm] \in Meter
  BY <1>3 DEF TypeOK, Pointers
<1>5. station \in Byte \ {0}
  BY <1>4 DEF Meter
<1>6. TaskTyped(Doing("lookup", Nil, Readdressed(job, station)), Pointers)
  BY <1>3, <1>5, ReaddressedIsJob, DoingTyped
<1> QED
  BY <1>1, <1>2, <1>6, WorkerStep DEF TypeOK, HeapKept

LEMMA CheckAddressTyped ==
  ASSUME TypeOK, NEW w \in Workers, CheckAddress(w)
  PROVE  TypeOK'
<1> DEFINE o == task[w]
           t == IF Addresses(o.job.what, heap[o.rm].station) /\ o.job.what.intact
                THEN Doing("apply", o.rm, o.job) ELSE Idle
<1>1. heap' = heap /\ meters' = meters /\ sweep' = sweep /\ Pointers' = Pointers
  BY DEF CheckAddress, Pointers
<1>2. task' = [task EXCEPT ![w] = t]
  BY DEF CheckAddress
<1>3. IsJob(o.job) /\ o.rm \in Pointers
  BY DEF TypeOK, TaskTyped, CheckAddress, At
<1>4. TaskTyped(Doing("apply", o.rm, o.job), Pointers)
  BY <1>3 DEF TaskTyped, Doing
<1>5. TaskTyped(t, Pointers)
  BY <1>4, IdleTyped
<1> HIDE DEF t
<1> QED
  BY <1>1, <1>2, <1>5, WorkerStep DEF TypeOK, HeapKept

LEMMA ApplyTyped ==
  ASSUME TypeOK, NEW w \in Workers, Apply(w)
  PROVE  TypeOK'
<1> DEFINE o == task[w]
           m == Served(heap[o.rm], o.job)
<1>1. IsJob(o.job) /\ o.rm \in Pointers
  BY DEF TypeOK, TaskTyped, Apply, At
<1>2. heap[o.rm] \in Meter
  BY <1>1 DEF TypeOK, Pointers
<1>3. m \in Meter
  BY <1>1, <1>2, ServedType
<1>4. /\ heap' = [heap EXCEPT ![o.rm] = m]
      /\ task' = [task EXCEPT ![w] = Idle]
      /\ meters' = meters /\ sweep' = sweep
  BY DEF Apply
<1> HIDE DEF m, o
<1>5. HeapKept /\ Len(heap') = Len(heap)
  BY <1>1, <1>3, <1>4, Stored DEF TypeOK
<1>6. Pointers' = Pointers
  BY <1>5 DEF Pointers
<1> QED
  BY <1>4, <1>5, <1>6, IdleTyped, WorkerStep DEF TypeOK

LEMMA LegalIDs == \A id \in 1 .. 247 : id \in Byte \ {0}
<1> SUFFICES ASSUME NEW id \in 1 .. 247
             PROVE  id \in Int /\ 0 <= id /\ id < ByteSize /\ id # 0
  BY ByteMember
<1> QED
  BY Sizes

LEMMA AddMeterTyped ==
  ASSUME TypeOK, NEW id, NEW solar, AddMeter(id, solar)
  PROVE  TypeOK'
<1> DEFINE m == IF solar THEN SolarMeter(id) ELSE NewMeter(id, FALSE)
<1>1. id \in Byte \ {0}
  BY LegalIDs DEF AddMeter
<1>2. m \in Meter
  BY <1>1, SolarMeterType, NewMeterType
<1>3. Install(id, m) /\ task' = task /\ sweep' = sweep
  BY DEF AddMeter
<1> HIDE DEF m
<1>4. HeapKept /\ MapTyped(meters', Pointers')
  BY <1>1, <1>2, <1>3, Created DEF TypeOK
<1>5. Pointers \subseteq Pointers'
  BY <1>4, PointersKept DEF TypeOK
<1>6. MapTyped(sweep', Pointers') /\ \A w \in Workers : TaskTyped(task'[w], Pointers')
  BY <1>3, <1>5, MapKept, TaskKept DEF TypeOK
<1> QED
  BY <1>3, <1>4, <1>6 DEF TypeOK, HeapKept

LEMMA StepNextTyped ==
  ASSUME TypeOK, StepNext
  PROVE  TypeOK'
<1>1. PICK id \in DOMAIN sweep, d \in Deviations, gain \in Gains :
        /\ heap' = [heap EXCEPT ![sweep[id]] = StepMeter(heap[sweep[id]], d, gain)]
        /\ sweep' = [m \in DOMAIN sweep \ {id} |-> sweep[m]]
  BY DEF StepNext, Lowest
<1> DEFINE q == sweep[id]
           m == StepMeter(heap[q], d, gain)
<1>2. q \in Pointers
  BY DEF TypeOK, MapTyped
<1>3. heap[q] \in Meter
  BY <1>2 DEF TypeOK, Pointers
<1>4. m \in Meter
  BY <1>3, StepMeterType, SimulationAssumption
<1>5. heap' = [heap EXCEPT ![q] = m]
  BY <1>1
<1> HIDE DEF q, m
<1>6. HeapKept /\ Len(heap') = Len(heap)
  BY <1>2, <1>4, <1>5, Stored DEF TypeOK
<1>7. Pointers' = Pointers
  BY <1>6 DEF Pointers
<1>8. MapTyped(sweep', Pointers)
  BY <1>1, MapShrinks DEF TypeOK
<1>9. meters' = meters /\ task' = task
  BY DEF StepNext
<1> QED
  BY <1>6, <1>7, <1>8, <1>9 DEF TypeOK, HeapKept

LEMMA ResolvedIsAnId == ResolvedID \in Byte \ {0}
  BY MetersAssumption, OneIsAnId DEF ResolvedID

(* Every pointer a handler, the map or the sweep holds leads to a meter, every  *)
(* id is one, and every handler is at a step its request can be at.             *)
THEOREM TypeCorrect == Spec => []TypeOK
<1>1. Init => TypeOK
  <2> SUFFICES ASSUME Init
               PROVE  TypeOK
    OBVIOUS
  <2> DEFINE m == NewMeter(ResolvedID, ResolvedID = 2)
  <2>1. m \in Meter
    BY ResolvedIsAnId, NewMeterType
  <2>2. heap = <<m>>
    BY DEF Init
  <2> HIDE DEF m
  <2>3. heap \in Seq(Meter) /\ Len(heap) = 1 /\ 1 \in Pointers
    BY <2>1, <2>2 DEF Pointers
  <2>4. MapTyped(meters, Pointers)
    BY <2>3, ResolvedIsAnId DEF Init, MapTyped
  <2>5. MapTyped(sweep, Pointers)
    BY DEF Init, MapTyped
  <2>6. DOMAIN task = Workers /\ \A w \in Workers : TaskTyped(task[w], Pointers)
    BY IdleTyped DEF Init
  <2> QED
    BY <2>3, <2>4, <2>5, <2>6 DEF TypeOK
<1>2. TypeOK /\ [Next]_vars => TypeOK'
  <2> SUFFICES ASSUME TypeOK, [Next]_vars
               PROVE  TypeOK'
    OBVIOUS
  <2>1. ASSUME NEW w \in Workers, Receive(w) \/ Serve(w)
        PROVE  TypeOK'
    BY <2>1, ReceiveTyped, GetMeterTyped, FallBackTyped, ResolveSlaveTyped,
       ReadStationTyped, CheckAddressTyped, ApplyTyped DEF Serve
  <2>2. ASSUME NEW addition \in Additions, AddMeter(addition[1], addition[2])
        PROVE  TypeOK'
    BY <2>2, AddMeterTyped
  <2>3. ASSUME NEW id \in DOMAIN meters, RemoveMeter(id)
        PROVE  TypeOK'
    <3>1. MapTyped(meters', Pointers)
      BY <2>3, MapShrinks DEF RemoveMeter, TypeOK
    <3> QED
      BY <2>3, <3>1 DEF RemoveMeter, TypeOK, Pointers
  <2>4. CASE Tick
    BY <2>4 DEF Tick, TypeOK, Pointers
  <2>5. CASE StepNext
    BY <2>5, StepNextTyped
  <2>6. CASE UNCHANGED vars
    BY <2>6 DEF vars, TypeOK, Pointers
  <2> QED
    BY <2>1, <2>2, <2>3, <2>4, <2>5, <2>6 DEF Next
<1> QED
  BY <1>1, <1>2, PTL DEF Spec

-----------------------------------------------------------------------------

(* The last meter is never removed: a removal counts the meters itself, under   *)
(* the lock it removes under.                                                   *)
THEOREM NeverWithoutMeters == Spec => []AtLeastOneMeter
<1>1. Init => AtLeastOneMeter
  BY DEF Init, AtLeastOneMeter
<1>2. AtLeastOneMeter /\ [Next]_vars => AtLeastOneMeter'
  <2> SUFFICES ASSUME AtLeastOneMeter, [Next]_vars
               PROVE  DOMAIN meters' # {}
    BY DEF AtLeastOneMeter
  <2>1. EnsureMeter => DOMAIN meters' # {}
    BY DEF EnsureMeter, AtLeastOneMeter
  <2>2. ASSUME NEW w \in Workers, Receive(w) \/ Serve(w)
        PROVE  DOMAIN meters' # {}
    BY <2>1, <2>2 DEF AtLeastOneMeter, Receive, Serve, GetMeter, FallBack, ResolveSlave,
                      ReadStation, CheckAddress, Apply
  <2>3. ASSUME NEW id, NEW solar, AddMeter(id, solar)
        PROVE  DOMAIN meters' # {}
    BY <2>3 DEF AddMeter, Install
  <2>4. ASSUME NEW id \in DOMAIN meters, RemoveMeter(id)
        PROVE  DOMAIN meters' # {}
    <3> DEFINE ids == DOMAIN meters
               n   == Cardinality({id})
    <3>1. Cardinality(ids) > 1
      BY <2>4 DEF RemoveMeter
    <3>2. n = 1
      BY FS_Singleton
    <3>3. ids = {id} => Cardinality(ids) = n
      OBVIOUS
    <3> HIDE DEF n
    <3>4. DOMAIN meters # {id}
      BY <3>1, <3>2, <3>3
    <3> QED
      BY <2>4, <3>4 DEF RemoveMeter
  <2>5. CASE Tick \/ StepNext \/ UNCHANGED vars
    BY <2>5 DEF Tick, StepNext, vars, AtLeastOneMeter
  <2> QED
    BY <2>2, <2>3, <2>4, <2>5 DEF Next
<1> QED
  BY <1>1, <1>2, PTL DEF Spec

-----------------------------------------------------------------------------

(* While nobody gives a meter another address, a meter's address is its id, and *)
(* a handler that is about to serve a request holds a meter the request names.  *)

LEMMA ReaddressedKeeps ==
  ASSUME NEW job, KeepsAddress(job), job.kind \in {"query", "hex"}, NEW station
  PROVE  KeepsAddress(Readdressed(job, station))
<1> DEFINE new == Readdressed(job, station)
           r   == [job.what EXCEPT !.unit = station]
<1>1. r.start = job.what.start /\ r.words = job.what.words
  OBVIOUS
<1>2. new.kind = job.kind /\ new.what = IF job.kind = "query" THEN r ELSE job.what
  BY DEF Readdressed
<1> HIDE DEF new, r
<1> QED
  BY <1>1, <1>2 DEF KeepsAddress, new

LEMMA ServedKeepsStation ==
  ASSUME NEW s \in Meter, NEW job, IsJob(job), KeepsAddress(job)
  PROVE  Served(s, job).station = s.station
<1>1. CASE job.kind = "control"
  BY <1>1 DEF Served, KeepsAddress, ControlUpdate
<1>2. ASSUME job.kind # "control", NEW reply
      PROVE  After(s, job.what, reply).station = s.station
  <2>1. job.what \in Request /\ ~Covers(job.what.start, job.what.words, RegAddressBaud)
    BY <1>2 DEF IsJob, KeepsAddress
  <2>2. Written(s, job.what.start, job.what.words).station = s.station
    BY <2>1, RequestIsWrite, WrittenFields, SMTT(60) DEF Changes4
  <2> QED
    BY <2>2 DEF After
<1> QED
  BY <1>1, <1>2 DEF Served

AddressIsID == \A id \in DOMAIN meters : heap[meters[id]].station = id

(* What a handler at step pc has already found out *)
Informed(t, h) ==
  /\ t.pc # "idle" => KeepsAddress(t.job)
  /\ (t.pc = "default" /\ t.job.kind = "mbap") => t.job.what.unit \notin 1 .. 247
  /\ (t.pc = "apply" /\ t.job.kind \in FrameKinds /\ t.job.what.unit \in 1 .. 247)
       => h[t.rm].station = t.job.what.unit

Settled == AddressIsID /\ \A w \in Workers : Informed(task[w], heap)

StationsKept == \A p \in Pointers : p \in Pointers' /\ heap'[p].station = heap[p].station

LEMMA InformedKept ==
  ASSUME NEW t, TaskTyped(t, Pointers), StationsKept, Informed(t, heap)
  PROVE  Informed(t, heap')
  BY DEF TaskTyped, StationsKept, Informed

LEMMA WorkerSettles ==
  ASSUME TypeOK, Settled, NEW w \in Workers, NEW t, StationsKept, AddressIsID',
         task' = [task EXCEPT ![w] = t], Informed(t, heap')
  PROVE  Settled'
<1>1. ASSUME NEW v \in Workers
      PROVE  Informed(task'[v], heap')
  BY InformedKept DEF TypeOK, Settled
<1> QED
  BY <1>1 DEF Settled

LEMMA NothingStored ==
  ASSUME heap' = heap, meters' = meters, Settled
  PROVE  StationsKept /\ AddressIsID'
  BY DEF StationsKept, Settled, AddressIsID, Pointers

LEMMA InstallSettles ==
  ASSUME TypeOK, Settled, NEW id \in Byte \ {0}, NEW m \in Meter, m.station = id,
         Install(id, m)
  PROVE  StationsKept /\ AddressIsID'
<1>1. /\ Len(heap') = Len(heap) + 1
      /\ heap'[Len(heap) + 1] = m
      /\ \A p \in Pointers : heap'[p] = heap[p]
  BY DEF TypeOK, Install, Pointers
<1>2. StationsKept
  BY <1>1 DEF TypeOK, StationsKept, Pointers
<1>3. \A a \in DOMAIN meters : meters[a] \in Pointers /\ heap[meters[a]].station = a
  BY DEF TypeOK, MapTyped, Settled, AddressIsID
<1>4. \A a \in DOMAIN meters' :
        meters'[a] = IF a = id THEN Len(heap) + 1 ELSE meters[a]
  BY DEF Install
<1>5. DOMAIN meters' = DOMAIN meters \cup {id}
  BY DEF Install
<1>6. ASSUME NEW a \in DOMAIN meters'
      PROVE  heap'[meters'[a]].station = a
  BY <1>1, <1>3, <1>4, <1>5, <1>6
<1> QED
  BY <1>2, <1>6 DEF AddressIsID

LEMMA NewStations ==
  \A id \in Byte \ {0} :
    /\ \A solar : NewMeter(id, solar).station = id
    /\ SolarMeter(id).station = id
  BY DEF NewMeter, SolarMeter

LEMMA EnsureSettles ==
  ASSUME TypeOK, Settled, EnsureMeter
  PROVE  StationsKept /\ AddressIsID'
<1>1. CASE DOMAIN meters = {}
  BY <1>1, OneIsAnId, NewMeterType, NewStations, InstallSettles DEF EnsureMeter
<1>2. CASE DOMAIN meters # {}
  BY <1>2, NothingStored DEF EnsureMeter
<1> QED
  BY <1>1, <1>2

LEMMA NoSuchIDs == 0 \notin 1 .. 247 /\ 255 \notin 1 .. 247
  OBVIOUS

LEMMA GetMeterSettles ==
  ASSUME TypeOK, Settled, NEW w \in Workers, GetMeter(w)
  PROVE  Settled'
<1> DEFINE job == task[w].job
           t   == IF job.slave \in DOMAIN meters THEN Routed(job, meters[job.slave])
                  ELSE IF FallsBack(job) THEN Doing("default", Nil, job)
                  ELSE Idle
<1>1. heap' = heap /\ meters' = meters /\ task' = [task EXCEPT ![w] = t]
  BY DEF GetMeter
<1>2. IsJob(job) /\ KeepsAddress(job)
  BY DEF TypeOK, TaskTyped, GetMeter, At, Settled, Informed
<1>3. job.kind \in {"rtu", "mbap", "query"} => job.what.unit = job.slave
  BY <1>2 DEF IsJob
<1>4. CASE job.slave \in DOMAIN meters
  <2>1. heap[meters[job.slave]].station = job.slave
    BY <1>4 DEF Settled, AddressIsID
  <2>2. Informed(Routed(job, meters[job.slave]), heap)
    BY <1>2, <1>3, <2>1 DEF Informed, Routed, Doing, FrameKinds
  <2> QED
    BY <1>1, <1>4, <2>2, NothingStored, WorkerSettles
<1>5. CASE job.slave \notin DOMAIN meters /\ FallsBack(job)
  <2>1. job.kind = "mbap" => job.what.unit \notin 1 .. 247
    <3>1. job.kind = "mbap" => job.slave \in {0, 255}
      BY <1>5 DEF FallsBack
    <3> QED
      BY <1>3, <3>1, NoSuchIDs, ZenonT(60)
  <2>2. Informed(Doing("default", Nil, job), heap)
    BY <1>2, <2>1 DEF Informed, Doing
  <2> QED
    BY <1>1, <1>5, <2>2, NothingStored, WorkerSettles
<1>6. CASE job.slave \notin DOMAIN meters /\ ~FallsBack(job)
  <2>1. Informed(Idle, heap)
    BY DEF Informed, Idle, Doing
  <2> QED
    BY <1>1, <1>6, <2>1, NothingStored, WorkerSettles
<1> QED
  BY <1>4, <1>5, <1>6

LEMMA FallBackSettles ==
  ASSUME TypeOK, Settled, NEW w \in Workers, FallBack(w)
  PROVE  Settled'
<1> DEFINE job == task[w].job
<1>1. StationsKept /\ AddressIsID'
  BY EnsureSettles DEF FallBack
<1>2. PICK id \in DOMAIN meters' : task' = [task EXCEPT ![w] = Routed(job, meters'[id])]
  BY DEF FallBack, Lowest
<1>3. /\ KeepsAddress(job)
      /\ job.kind = "mbap" => job.what.unit \notin 1 .. 247
      /\ job.kind \in FrameKinds \cup {"control"}
  BY ZenonT(60) DEF TypeOK, TaskTyped, IsJob, FallBack, At, Settled, Informed
<1>4. Informed(Routed(job, meters'[id]), heap')
  BY <1>3 DEF Informed, Routed, Doing, FrameKinds
<1> QED
  BY <1>1, <1>2, <1>4, WorkerSettles

LEMMA ResolveSlaveSettles ==
  ASSUME TypeOK, Settled, NEW w \in Workers, ResolveSlave(w)
  PROVE  Settled'
<1>1. StationsKept /\ AddressIsID'
  BY EnsureSettles DEF ResolveSlave
<1>2. PICK id \in DOMAIN meters' :
        task' = [task EXCEPT ![w] = Doing("station", meters'[id], task[w].job)]
  BY DEF ResolveSlave, Lowest
<1>3. KeepsAddress(task[w].job)
  BY DEF ResolveSlave, At, Settled, Informed
<1>4. Informed(Doing("station", meters'[id], task[w].job), heap')
  BY <1>3 DEF Informed, Doing
<1> QED
  BY <1>1, <1>2, <1>4, WorkerSettles

LEMMA ReadStationSettles ==
  ASSUME TypeOK, Settled, NEW w \in Workers, ReadStation(w)
  PROVE  Settled'
<1> DEFINE new == Readdressed(task[w].job, heap[task[w].rm].station)
<1>1. heap' = heap /\ meters' = meters /\ task' = [task EXCEPT ![w] = Doing("lookup", Nil, new)]
  BY DEF ReadStation
<1>2. KeepsAddress(task[w].job) /\ task[w].job.kind \in {"query", "hex"}
  BY DEF TypeOK, TaskTyped, ReadStation, At, Settled, Informed
<1>3. KeepsAddress(new)
  BY <1>2, ReaddressedKeeps
<1> HIDE DEF new
<1>4. Informed(Doing("lookup", Nil, new), heap)
  BY <1>3 DEF Informed, Doing
<1> QED
  BY <1>1, <1>4, NothingStored, WorkerSettles

LEMMA CheckAddressSettles ==
  ASSUME TypeOK, Settled, NEW w \in Workers, CheckAddress(w)
  PROVE  Settled'
<1> DEFINE o == task[w]
           goes == Addresses(o.job.what, heap[o.rm].station) /\ o.job.what.intact
           t == IF goes THEN Doing("apply", o.rm, o.job) ELSE Idle
<1>1. heap' = heap /\ meters' = meters /\ task' = [task EXCEPT ![w] = t]
  BY DEF CheckAddress
<1>2. KeepsAddress(o.job)
  BY DEF CheckAddress, At, Settled, Informed
<1>3. goes => (o.job.what.unit \in 1 .. 247 => heap[o.rm].station = o.job.what.unit)
  BY NoSuchIDs, ZenonT(60) DEF Addresses
<1> HIDE DEF goes
<1>4. Informed(t, heap)
  BY <1>2, <1>3 DEF Informed, Doing, Idle
<1> HIDE DEF t
<1> QED
  BY <1>1, <1>4, NothingStored, WorkerSettles

(* A meter is stored over a pointer with its address kept *)
LEMMA StoreSettles ==
  ASSUME TypeOK, Settled, NEW p \in Pointers, NEW m \in Meter, m.station = heap[p].station,
         heap' = [heap EXCEPT ![p] = m], meters' = meters
  PROVE  StationsKept /\ AddressIsID'
<1>1. HeapKept /\ Len(heap') = Len(heap)
  BY Stored DEF TypeOK
<1>2. \A q \in Pointers : heap'[q].station = heap[q].station
  BY DEF TypeOK, Pointers
<1>3. StationsKept
  BY <1>1, <1>2 DEF StationsKept, Pointers
<1>4. \A a \in DOMAIN meters : meters[a] \in Pointers
  BY DEF TypeOK, MapTyped
<1> QED
  BY <1>2, <1>3, <1>4 DEF Settled, AddressIsID

LEMMA ApplySettles ==
  ASSUME TypeOK, Settled, NEW w \in Workers, Apply(w)
  PROVE  Settled'
<1> DEFINE o == task[w]
           m == Served(heap[o.rm], o.job)
<1>1. IsJob(o.job) /\ o.rm \in Pointers /\ KeepsAddress(o.job)
  BY DEF TypeOK, TaskTyped, Apply, At, Settled, Informed
<1>2. heap[o.rm] \in Meter
  BY <1>1 DEF TypeOK, Pointers
<1>3. m \in Meter /\ m.station = heap[o.rm].station
  BY <1>1, <1>2, ServedType, ServedKeepsStation
<1>4. /\ heap' = [heap EXCEPT ![o.rm] = m]
      /\ task' = [task EXCEPT ![w] = Idle]
      /\ meters' = meters
  BY DEF Apply
<1> HIDE DEF m
<1>5. StationsKept /\ AddressIsID'
  BY <1>1, <1>3, <1>4, StoreSettles
<1>6. Informed(Idle, heap')
  BY DEF Informed, Idle, Doing
<1> QED
  BY <1>4, <1>5, <1>6, WorkerSettles

LEMMA StepNextSettles ==
  ASSUME TypeOK, Settled, StepNext
  PROVE  StationsKept /\ AddressIsID'
<1>1. PICK id \in DOMAIN sweep, d \in Deviations, gain \in Gains :
        heap' = [heap EXCEPT ![sweep[id]] = StepMeter(heap[sweep[id]], d, gain)]
  BY DEF StepNext, Lowest
<1> DEFINE q == sweep[id]
           m == StepMeter(heap[q], d, gain)
<1>2. q \in Pointers
  BY DEF TypeOK, MapTyped
<1>3. heap[q] \in Meter
  BY <1>2 DEF TypeOK, Pointers
<1>4. m \in Meter /\ m.station = heap[q].station
  BY <1>3, StepMeterType, StepMeterFields, SimulationAssumption
<1>5. heap' = [heap EXCEPT ![q] = m] /\ meters' = meters
  BY <1>1 DEF StepNext
<1> HIDE DEF q, m
<1> QED
  BY <1>2, <1>4, <1>5, StoreSettles

LEMMA AddMeterSettles ==
  ASSUME TypeOK, Settled, NEW id, NEW solar, AddMeter(id, solar)
  PROVE  StationsKept /\ AddressIsID'
<1> DEFINE m == IF solar THEN SolarMeter(id) ELSE NewMeter(id, FALSE)
<1>1. id \in Byte \ {0}
  BY LegalIDs DEF AddMeter
<1>2. m \in Meter /\ m.station = id
  BY <1>1, SolarMeterType, NewMeterType, NewStations
<1>3. Install(id, m)
  BY DEF AddMeter
<1> HIDE DEF m
<1> QED
  BY <1>1, <1>2, <1>3, InstallSettles

LEMMA SettledKept ==
  ASSUME TypeOK, Settled, StationsKept, AddressIsID', task' = task
  PROVE  Settled'
  BY InformedKept DEF TypeOK, Settled

(* The inductive invariant behind the two theorems below *)
LEMMA StaysSettled ==
  ASSUME NoReaddressing
  PROVE  Spec => []Settled
<1>1. Init => Settled
  <2> SUFFICES ASSUME Init
               PROVE  Settled
    OBVIOUS
  <2>1. AddressIsID
    BY ResolvedIsAnId, NewStations DEF Init, AddressIsID
  <2> QED
    BY <2>1 DEF Init, Settled, Informed, Idle, Doing
<1>2. TypeOK /\ Settled /\ [Next]_vars => Settled'
  <2> SUFFICES ASSUME TypeOK, Settled, [Next]_vars
               PROVE  Settled'
    OBVIOUS
  <2>1. ASSUME NEW w \in Workers, Receive(w)
        PROVE  Settled'
    <3>1. PICK job \in Jobs, pc \in {"slave", "lookup"} :
            task' = [task EXCEPT ![w] = Doing(pc, Nil, job)]
      BY <2>1 DEF Receive
    <3>2. Informed(Doing(pc, Nil, job), heap)
      BY DEF NoReaddressing, Informed, Doing
    <3>3. heap' = heap /\ meters' = meters
      BY <2>1 DEF Receive
    <3> QED
      BY <3>1, <3>2, <3>3, NothingStored, WorkerSettles
  <2>2. ASSUME NEW w \in Workers, Serve(w)
        PROVE  Settled'
    BY <2>2, GetMeterSettles, FallBackSettles, ResolveSlaveSettles, ReadStationSettles,
       CheckAddressSettles, ApplySettles DEF Serve
  <2>3. ASSUME NEW addition \in Additions, AddMeter(addition[1], addition[2])
        PROVE  Settled'
    BY <2>3, AddMeterSettles, SettledKept DEF AddMeter
  <2>4. ASSUME NEW id \in DOMAIN meters, RemoveMeter(id)
        PROVE  Settled'
    BY <2>4 DEF RemoveMeter, Settled, AddressIsID
  <2>5. CASE Tick
    BY <2>5, NothingStored, SettledKept DEF Tick
  <2>6. CASE StepNext
    BY <2>6, StepNextSettles, SettledKept DEF StepNext
  <2>7. CASE UNCHANGED vars
    BY <2>7, NothingStored, SettledKept DEF vars
  <2> QED
    BY <2>1, <2>2, <2>3, <2>4, <2>5, <2>6, <2>7 DEF Next
<1> QED
  BY <1>1, <1>2, TypeCorrect, PTL DEF Spec

(* While nobody gives a meter another address, every meter answers under the    *)
(* address it has.                                                              *)
THEOREM FixedMetersAnswer ==
  ASSUME NoReaddressing
  PROVE  Spec => []EveryMeterAnswers
<1>1. Settled => EveryMeterAnswers
  BY SMTT(60) DEF Settled, AddressIsID, EveryMeterAnswers, RTUAnswers
<1> QED
  BY <1>1, StaysSettled, PTL

(* ... and a request is served by a meter with the address it names, whatever   *)
(* is added and removed while it is on its way.                                 *)
THEOREM FixedMetersAreServed ==
  ASSUME NoReaddressing
  PROVE  Spec => []OnlyTheAddresseeServes
<1>1. Settled => OnlyTheAddresseeServes
  BY DEF Settled, Informed, OnlyTheAddresseeServes, At
<1> QED
  BY <1>1, StaysSettled, PTL

-----------------------------------------------------------------------------
(* The counters of all meters implement EnergyLedger: a meter created is an     *)
(* account installed, a request or an update a command, a step of the sweep an  *)
(* accrual or a stutter, and every other step a stutter.                        *)

Book == [p \in Pointers |-> Account(heap[p])]
Opening == {Account(NewMeter(1, FALSE)), Account(SolarMeter(1))}

LEMMA OpeningAccounts ==
  ASSUME NEW id
  PROVE  /\ \A solar : Account(NewMeter(id, solar)) \in Opening
         /\ Account(SolarMeter(id)) \in Opening
<1>1. ASSUME NEW solar
      PROVE  Account(NewMeter(id, solar)) = Account(NewMeter(1, FALSE))
  BY DEF Account, NewMeter
<1>2. Account(SolarMeter(id)) = Account(SolarMeter(1))
  BY DEF Account, SolarMeter, NewMeter
<1> QED
  BY <1>1, <1>2 DEF Opening

LEMMA BookIsSequence ==
  ASSUME heap \in Seq(Meter)
  PROVE  /\ DOMAIN Book = Pointers
         /\ Len(Book) = Len(heap)
         /\ \A p \in Pointers : Book[p] = Account(heap[p])
  BY DEF Book, Pointers

LEMMA BookGrows ==
  ASSUME heap \in Seq(Meter), NEW id, NEW m, Install(id, m)
  PROVE  Book' = Append(Book, Account(m))
<1>1. /\ Len(heap') = Len(heap) + 1
      /\ heap'[Len(heap) + 1] = m
      /\ \A p \in Pointers : heap'[p] = heap[p]
  BY DEF Install, Pointers
<1>2. Book' = [p \in 1 .. Len(heap) + 1 |-> Account(heap'[p])]
  BY <1>1 DEF Book, Pointers
<1>3. \A p \in 1 .. Len(heap) + 1 :
        Account(heap'[p]) = IF p = Len(heap) + 1 THEN Account(m) ELSE Account(heap[p])
  BY <1>1 DEF Pointers
<1>4. Len(heap) \in Nat
  OBVIOUS
<1> DEFINE n == Len(heap)
           A(p) == Account(heap[p])
           B(p) == Account(heap'[p])
           a == Account(m)
<1>5. n \in Nat /\ Book' = [p \in 1 .. n + 1 |-> B(p)] /\ Book = [p \in 1 .. n |-> A(p)]
  BY <1>2, <1>4 DEF Book, Pointers
<1>6. \A p \in 1 .. n + 1 : B(p) = IF p = n + 1 THEN a ELSE A(p)
  BY <1>3
<1> HIDE DEF n, A, B, a
<1>7. Append([p \in 1 .. n |-> A(p)], a) = [p \in 1 .. n + 1 |-> IF p = n + 1 THEN a ELSE A(p)]
  BY <1>5
<1> QED
  BY <1>5, <1>6, <1>7 DEF a

LEMMA BookChanges ==
  ASSUME heap \in Seq(Meter), NEW p \in Pointers, NEW m \in Meter,
         heap' = [heap EXCEPT ![p] = m]
  PROVE  Book' = [Book EXCEPT ![p] = Account(m)]
<1>1. Pointers' = Pointers
  BY Stored DEF Pointers
<1>2. \A q \in Pointers : heap'[q] = IF q = p THEN m ELSE heap[q]
  BY DEF Pointers
<1>3. Book' = [q \in Pointers |-> Account(heap'[q])]
  BY <1>1 DEF Book
<1>4. \A q \in Pointers : Account(heap'[q]) = IF q = p THEN Account(m) ELSE Account(heap[q])
  BY <1>2
<1> QED
  BY <1>3, <1>4 DEF Book

LEMMA BookKept ==
  ASSUME heap' = heap
  PROVE  Book' = Book
  BY DEF Book, Pointers

(* One account of a book, accrued *)
LEMMA BookAccrued ==
  ASSUME NEW book, NEW p \in DOMAIN book, NEW gain
  PROVE  /\ [book EXCEPT ![p] = Imported(book[p], gain)]
              = [book EXCEPT ![p].import = @ + gain, ![p].total = @ + gain]
         /\ [book EXCEPT ![p] = Exported(book[p], gain)]
              = [book EXCEPT ![p].export = @ + gain, ![p].total = @ + gain]
  BY DEF Imported, Exported

LEMMA ServedEnergy ==
  ASSUME NEW s \in Meter, NEW job, IsJob(job)
  PROVE  Served(s, job).energy \in {s.energy, Erased}
<1>1. job.kind # "control" => job.what \in Request
  BY DEF IsJob
<1> QED
  BY <1>1, AfterEnergy, ControlEnergy DEF Served

LEMMA InstallIsInstalled ==
  ASSUME heap \in Seq(Meter), NEW id, NEW m, Account(m) \in Opening, Install(id, m)
  PROVE  Ledger!Next
<1>1. Book' = Append(Book, Account(m))
  BY BookGrows
<1>2. Ledger!Install
  BY <1>1 DEF Ledger!Install, Book, Opening
<1> QED
  BY <1>2 DEF Ledger!Next

LEMMA EnsureIsInstalled ==
  ASSUME heap \in Seq(Meter), EnsureMeter
  PROVE  Ledger!Next \/ Book' = Book
<1>1. CASE DOMAIN meters = {}
  BY <1>1, OpeningAccounts, InstallIsInstalled DEF EnsureMeter
<1>2. CASE DOMAIN meters # {}
  BY <1>2, BookKept DEF EnsureMeter
<1> QED
  BY <1>1, <1>2

LEMMA ApplyIsCommand ==
  ASSUME TypeOK, NEW w \in Workers, Apply(w)
  PROVE  Ledger!Next
<1> DEFINE p == task[w].rm
           s == heap[p]
           t == Served(s, task[w].job)
<1>1. heap \in Seq(Meter) /\ p \in Pointers /\ IsJob(task[w].job)
  BY DEF TypeOK, TaskTyped, Apply, At
<1>2. s \in Meter
  BY <1>1 DEF Pointers
<1>3. t \in Meter /\ t.energy \in {s.energy, Erased}
  BY <1>1, <1>2, ServedType, ServedEnergy
<1>4. heap' = [heap EXCEPT ![p] = t]
  BY DEF Apply
<1> HIDE DEF t
<1>5. Book' = [Book EXCEPT ![p] = Account(t)]
  BY <1>1, <1>3, <1>4, BookChanges
<1>6. p \in DOMAIN Book /\ Book[p] = Account(s)
  BY <1>1, BookIsSequence
<1>7. t.relay \in BOOLEAN
  BY <1>3 DEF Meter
<1>8. \/ Account(t) = [Account(s) EXCEPT !.relay = t.relay]
      \/ Account(t) = ErasedAccount(t.relay)
  BY <1>2, <1>3, AccountCommanded
<1>9. \/ Book' = [Book EXCEPT ![p].relay = t.relay]
      \/ Book' = [Book EXCEPT ![p] = ErasedAccount(t.relay)]
  <2> DEFINE b == Book
  <2>1. p \in DOMAIN b /\ b[p] = Account(s)
    BY <1>6
  <2> HIDE DEF b, p, s
  <2>2. \/ Account(t) = [b[p] EXCEPT !.relay = t.relay]
        \/ Account(t) = ErasedAccount(t.relay)
    BY <1>8, <2>1
  <2>3. Book' = [b EXCEPT ![p] = Account(t)]
    BY <1>5 DEF b
  <2> QED
    BY <2>2, <2>3 DEF b
<1>10. Ledger!Command(p)
  BY <1>7, <1>9 DEF Ledger!Command, Book, ErasedAccount
<1> QED
  BY <1>6, <1>10 DEF Ledger!Next, Book

LEMMA StepNextIsAccrual ==
  ASSUME TypeOK, StepNext
  PROVE  Ledger!Next \/ Book' = Book
<1>1. PICK id \in DOMAIN sweep, d \in Deviations, gain \in Gains :
        heap' = [heap EXCEPT ![sweep[id]] = StepMeter(heap[sweep[id]], d, gain)]
  BY DEF StepNext, Lowest
<1> DEFINE p == sweep[id]
           s == heap[p]
           t == StepMeter(s, d, gain)
<1>2. heap \in Seq(Meter) /\ p \in Pointers
  BY DEF TypeOK, MapTyped
<1>3. s \in Meter /\ d \in Deviation /\ gain \in Nat
  BY <1>2, SimulationAssumption DEF Pointers
<1>4. t \in Meter
  BY <1>3, StepMeterType
<1>5. \/ Account(t) = Account(s)
      \/ s.relay /\ (\/ Account(t) = Imported(Account(s), gain)
                     \/ Account(t) = Exported(Account(s), gain))
  BY <1>3, AccrueStep
<1>6. heap' = [heap EXCEPT ![p] = t]
  BY <1>1
<1>7. p \in DOMAIN Book /\ Book[p] = Account(s) /\ DOMAIN Book = Pointers
  BY <1>2, BookIsSequence
<1> HIDE DEF p, t
<1>8. Book' = [Book EXCEPT ![p] = Account(t)]
  BY <1>2, <1>4, <1>6, BookChanges
<1>9. CASE Account(t) = Account(s)
  BY <1>7, <1>8, <1>9 DEF Book
<1>10. CASE s.relay /\ (\/ Account(t) = Imported(Account(s), gain)
                        \/ Account(t) = Exported(Account(s), gain))
  <2>1. \/ Book' = [Book EXCEPT ![p].import = @ + gain, ![p].total = @ + gain]
        \/ Book' = [Book EXCEPT ![p].export = @ + gain, ![p].total = @ + gain]
    <3> DEFINE b == Book
    <3>1. p \in DOMAIN b /\ b[p] = Account(s)
      BY <1>7, SMTT(60)
    <3> HIDE DEF b, s
    <3>2. /\ [b EXCEPT ![p] = Imported(b[p], gain)]
               = [b EXCEPT ![p].import = @ + gain, ![p].total = @ + gain]
          /\ [b EXCEPT ![p] = Exported(b[p], gain)]
               = [b EXCEPT ![p].export = @ + gain, ![p].total = @ + gain]
      BY <3>1, BookAccrued, ZenonT(60)
    <3>3. \/ Account(t) = Imported(b[p], gain)
          \/ Account(t) = Exported(b[p], gain)
      BY <1>10, <3>1
    <3>4. \/ Book' = [b EXCEPT ![p] = Imported(b[p], gain)]
          \/ Book' = [b EXCEPT ![p] = Exported(b[p], gain)]
      BY <1>8, <3>3 DEF b
    <3> QED
      BY <3>2, <3>4 DEF b
  <2>2. Book[p].relay
    BY <1>7, <1>10 DEF Account
  <2>3. Ledger!Accrue(p)
    BY <2>1, <2>2 DEF Ledger!Accrue, Book
  <2> QED
    BY <1>7, <2>3 DEF Ledger!Next, Book
<1> QED
  BY <1>5, <1>9, <1>10

(* Every meter, installed or removed, keeps the ledger's promise while          *)
(* requests, updates and the sweep interleave.                                  *)
THEOREM MetersImplementLedger == Spec => LedgerSpec
<1>1. Init => Ledger!Init
  <2> SUFFICES ASSUME Init
               PROVE  Book \in Seq(Opening)
    BY DEF Ledger!Init, Book, Opening
  <2>1. Len(heap) = 1 /\ Account(heap[1]) \in Opening
    BY OpeningAccounts DEF Init
  <2>2. Book = [p \in 1 .. 1 |-> Account(heap[p])]
    BY <2>1 DEF Book, Pointers
  <2> QED
    BY <2>1, <2>2
<1>2. TypeOK /\ [Next]_vars => [Ledger!Next]_Book
  <2> SUFFICES ASSUME TypeOK, [Next]_vars
               PROVE  Ledger!Next \/ Book' = Book
    OBVIOUS
  <2>0. heap \in Seq(Meter)
    BY DEF TypeOK
  <2>1. ASSUME NEW w \in Workers, Receive(w) \/ Serve(w)
        PROVE  Ledger!Next \/ Book' = Book
    <3>1. CASE heap' = heap
      BY <3>1, BookKept
    <3>2. CASE EnsureMeter
      BY <2>0, <3>2, EnsureIsInstalled
    <3>3. CASE Apply(w)
      BY <3>3, ApplyIsCommand
    <3> QED
      BY <2>1, <3>1, <3>2, <3>3
      DEF Receive, Serve, GetMeter, FallBack, ResolveSlave, ReadStation, CheckAddress
  <2>2. ASSUME NEW addition \in Additions, AddMeter(addition[1], addition[2])
        PROVE  Ledger!Next
    BY <2>0, <2>2, OpeningAccounts, InstallIsInstalled DEF AddMeter
  <2>3. ASSUME heap' = heap
        PROVE  Book' = Book
    BY <2>3, BookKept
  <2>4. CASE StepNext
    BY <2>4, StepNextIsAccrual
  <2> QED
    BY <2>1, <2>2, <2>3, <2>4 DEF Next, RemoveMeter, Tick, vars
<1> QED
  BY <1>1, <1>2, TypeCorrect, PTL DEF Spec, LedgerSpec, Ledger!Spec, Book
=============================================================================
