------------------------------ MODULE PacketHub -------------------------------
(* The packet log's way to the browsers: handlers of requests call BroadcastLog *)
(* (pkg/modbus/server_rtu.go), whose one subscriber, broadcastPacket, writes    *)
(* the packet to every websocket with clientsMu held (pkg/web/server.go).  The  *)
(* goroutine of each websocket, handleWebSocket, writes the meters' states to   *)
(* the same connection four times a second, without the lock.                   *)
(*                                                                              *)
(* A message is written in two steps: it enters the connection, and it leaves   *)
(* when the browser's buffer has room.  The websocket library (external) allows *)
(* one writer at a time, and keeps a flag, isWriting, without a lock: a writer  *)
(* that finds it set at its start, or cleared at its end, panics; one that does *)
(* not see it in time mixes its bytes with the other's.  net/http recovers a    *)
(* panic of a web handler; one of the Modbus goroutines ends the process.       *)
EXTENDS Integers, Sequences, FiniteSets

CONSTANTS Browsers,    \* browsers that may open the page, once each
          Exchanges,   \* requests that are served and logged
          Kind,        \* of an exchange: serial (or raw over TCP), mbap, query
          Room         \* messages the network buffers for a browser

ASSUME HubAssumption ==
  /\ Kind \in [Exchanges -> {"serial", "mbap", "query"}]
  /\ Room \in Nat \ {0}
  /\ "free" \notin Exchanges /\ "handler" \notin Exchanges

VARIABLES todo,    \* what an exchange has still to log, and to write to its master
          lock,    \* the exchange that holds clientsMu, or Free
          left,    \* the browsers it has still to write to
          feed,    \* the packets in the order they were broadcast
          hub,     \* the websockets and their handlers
          view,    \* the packets each browser was shown, as places in feed
          up       \* the process runs

vars == <<todo, lock, left, feed, hub, view, up>>

Free    == "free"
Handler == "handler"
Meters  == 0       \* a message with the meters' states; a packet is its place in feed
Junk    == -1      \* what two writers made of theirs

(* Variant: the answer is logged first *)
ScriptSwapped(kind) ==
  CASE kind = "serial" -> <<"write", "tx", "rx">>
    [] kind = "mbap"   -> <<"tx", "rx", "write">>
    [] kind = "query"  -> <<"rx">>

(* The packets of an exchange and its answer to the master, in the order of     *)
(* readLoop and handleConnection, processMBAPFrame, handleQuery.                *)
Script(kind) ==
  CASE kind = "serial" -> <<"rx", "write", "tx">>
    [] kind = "mbap"   -> <<"rx", "tx", "write">>
    [] kind = "query"  -> <<"rx">>

(* writing: who is inside WriteMessage; mixed: their bytes are mixed up;        *)
(* disturbed: there have been two; joined: how many packets came before.        *)
NoSocket == [pc |-> "none", registered |-> FALSE, gone |-> FALSE, queue |-> << >>,
             writing |-> {}, isWriting |-> FALSE, mixed |-> FALSE,
             disturbed |-> FALSE, joined |-> 0]

Init ==
  /\ todo = [e \in Exchanges |-> Script(Kind[e])]
  /\ lock = Free /\ left = {} /\ feed = << >>
  /\ hub = [b \in Browsers |-> NoSocket]
  /\ view = [b \in Browsers |-> << >>]
  /\ up = TRUE

Registered == {b \in Browsers : hub[b].registered}

-----------------------------------------------------------------------------
(* Writing to a websocket *)

Busy(socket) == socket.writing # {}

Disturbed(socket) == [socket EXCEPT !.disturbed = TRUE]

Enters(socket, writer) ==
  [socket EXCEPT !.writing = @ \cup {writer}, !.isWriting = TRUE,
                 !.mixed = @ \/ Busy(socket), !.disturbed = @ \/ Busy(socket)]

(* Entering fails with a panic; the other's message may be spoilt already *)
Collides(socket) == {Disturbed(socket), [Disturbed(socket) EXCEPT !.mixed = TRUE]}

Leaves(socket, writer) ==
  [socket EXCEPT !.writing = @ \ {writer}, !.isWriting = FALSE,
                 !.mixed = @ /\ socket.writing # {writer}]

(* The message as it arrives *)
Sends(socket, message) ==
  [socket EXCEPT !.queue = Append(@, IF socket.mixed THEN Junk ELSE message)]

Fails(socket)   == socket.gone \/ socket.pc = "closed"
HasRoom(socket) == Len(socket.queue) < Room

-----------------------------------------------------------------------------
(* broadcastPacket, called by an exchange *)

(* Variant: the browsers are looked up before the lock is taken *)
PublishUnlocked(e) ==
  /\ todo[e] # << >> /\ Head(todo[e]) \in {"rx", "tx"}
  /\ lock = Free
  /\ \/ left = {} /\ left' = Registered /\ UNCHANGED <<lock, feed>>
     \/ lock' = e /\ feed' = Append(feed, <<e, Head(todo[e])>>) /\ UNCHANGED left
  /\ UNCHANGED <<todo, hub, view, up>>

(* Variant: a packet without a direction *)
PublishUndirected(e) ==
  /\ todo[e] # << >> /\ Head(todo[e]) \in {"rx", "tx"}
  /\ lock = Free /\ lock' = e
  /\ left' = Registered
  /\ feed' = Append(feed, <<e, "">>)
  /\ UNCHANGED <<todo, hub, view, up>>

Publish(e) ==
  /\ todo[e] # << >> /\ Head(todo[e]) \in {"rx", "tx"}
  /\ lock = Free /\ lock' = e
  /\ left' = Registered
  /\ feed' = Append(feed, <<e, Head(todo[e])>>)
  /\ UNCHANGED <<todo, hub, view, up>>

(* Variant: a panic leaves clientsMu locked *)
PanicLocked(e) ==
  IF Kind[e] = "query"
  THEN /\ left' = {} /\ todo' = [todo EXCEPT ![e] = << >>]
       /\ UNCHANGED <<lock, up>>
  ELSE up' = FALSE /\ UNCHANGED <<todo, lock, left>>

(* handleQuery ends there, its deferred Unlock runs; the process ends otherwise *)
PanicIn(e) ==
  IF Kind[e] = "query"
  THEN /\ lock' = Free /\ left' = {} /\ todo' = [todo EXCEPT ![e] = << >>]
       /\ UNCHANGED up
  ELSE up' = FALSE /\ UNCHANGED <<todo, lock, left>>

Writing(e) == \E b \in Browsers : e \in hub[b].writing

StartSend(e, b) ==
  /\ lock = e /\ b \in left /\ ~Writing(e)
  /\ \/ /\ hub' = [hub EXCEPT ![b] = Enters(@, e)]
        /\ UNCHANGED <<todo, lock, left, up>>
     \/ /\ Busy(hub[b]) /\ hub[b].isWriting
        /\ \E socket \in Collides(hub[b]) : hub' = [hub EXCEPT ![b] = socket]
        /\ PanicIn(e)
  /\ UNCHANGED <<feed, view>>

(* An error of WriteMessage is ignored *)
EndSend(e, b) ==
  /\ e \in hub[b].writing
  /\ \/ /\ Fails(hub[b])
        /\ hub' = [hub EXCEPT ![b] = Leaves(@, e)]
     \/ /\ ~Fails(hub[b]) /\ HasRoom(hub[b])
        /\ hub' = [hub EXCEPT ![b] = Leaves(Sends(@, Len(feed)), e)]
  /\ IF hub[b].isWriting
     THEN left' = left \ {b} /\ UNCHANGED <<todo, lock, up>>
     ELSE PanicIn(e)
  /\ UNCHANGED <<feed, view>>

Finish(e) ==
  /\ lock = e /\ left = {} /\ todo[e] # << >>
  /\ lock' = Free
  /\ todo' = [todo EXCEPT ![e] = Tail(@)]
  /\ UNCHANGED <<left, feed, hub, view, up>>

(* The answer to the master; if it cannot be written to a port it is not logged *)
WriteAnswer(e) ==
  /\ todo[e] # << >> /\ Head(todo[e]) = "write"
  /\ \/ todo' = [todo EXCEPT ![e] = Tail(@)]
     \/ Kind[e] = "serial" /\ todo' = [todo EXCEPT ![e] = << >>]
  /\ UNCHANGED <<lock, left, feed, hub, view, up>>

Exchange(e) ==
  \/ Publish(e) \/ Finish(e) \/ WriteAnswer(e)
  \/ \E b \in Browsers : StartSend(e, b) \/ EndSend(e, b)

-----------------------------------------------------------------------------
(* handleWebSocket *)

At(b, pc) == hub[b].pc = pc

Goes(b, pc) == hub' = [hub EXCEPT ![b].pc = pc]

Upgrade(b) ==
  /\ At(b, "none") /\ Goes(b, "register")
  /\ UNCHANGED <<todo, lock, left, feed, view, up>>

Register(b) ==
  /\ At(b, "register") /\ lock = Free
  /\ hub' = [hub EXCEPT ![b] = [@ EXCEPT !.pc = "first", !.registered = TRUE,
                                         !.joined = Len(feed)]]
  /\ UNCHANGED <<todo, lock, left, feed, view, up>>

(* The first message, and then one at each tick *)
StartPush(b) ==
  /\ At(b, "first") \/ At(b, "wait")
  /\ \/ hub' = [hub EXCEPT ![b] = [Enters(@, Handler) EXCEPT
                     !.pc = IF At(b, "first") THEN "pushFirst" ELSE "push"]]
     \/ /\ Busy(hub[b]) /\ hub[b].isWriting
        /\ \E socket \in Collides(hub[b]) :
             hub' = [hub EXCEPT ![b] = [socket EXCEPT !.pc = "forget"]]
  /\ UNCHANGED <<todo, lock, left, feed, view, up>>

(* Variant: an error does not end the handler *)
AfterPushForever(b) == IF hub[b].isWriting THEN "wait" ELSE "forget"

(* An error ends the handler, though not at the first message; so does a panic *)
AfterPush(b) ==
  IF \/ ~hub[b].isWriting
     \/ At(b, "push") /\ Fails(hub[b])
  THEN "forget" ELSE "wait"

EndPush(b) ==
  /\ At(b, "pushFirst") \/ At(b, "push")
  /\ Fails(hub[b]) \/ HasRoom(hub[b])
  /\ LET sent == IF Fails(hub[b]) THEN hub[b] ELSE Sends(hub[b], Meters)
     IN hub' = [hub EXCEPT ![b] = [Leaves(sent, Handler) EXCEPT !.pc = AfterPush(b)]]
  /\ UNCHANGED <<todo, lock, left, feed, view, up>>

(* Variant: the connection is closed first *)
ForgetLast(b) ==
  /\ \/ At(b, "forget") /\ Goes(b, "close")
     \/ /\ At(b, "closed") /\ lock = Free
        /\ hub' = [hub EXCEPT ![b].registered = FALSE]
  /\ UNCHANGED <<todo, lock, left, feed, view, up>>

(* The deferred calls, last in first out *)
Forget(b) ==
  /\ At(b, "forget") /\ lock = Free
  /\ hub' = [hub EXCEPT ![b].pc = "close", ![b].registered = FALSE]
  /\ UNCHANGED <<todo, lock, left, feed, view, up>>

Close(b) ==
  /\ At(b, "close") /\ Goes(b, "closed")
  /\ UNCHANGED <<todo, lock, left, feed, view, up>>

Handle(b) == Register(b) \/ StartPush(b) \/ EndPush(b) \/ Forget(b) \/ Close(b)

-----------------------------------------------------------------------------
(* The browser reads, in its own time, or leaves; what is mixed up is dropped *)

Read(b) ==
  /\ hub[b].queue # << >> /\ ~hub[b].gone
  /\ hub' = [hub EXCEPT ![b].queue = Tail(@)]
  /\ LET message == Head(hub[b].queue)
     IN view' = IF message <= 0 THEN view
                ELSE [view EXCEPT ![b] = Append(@, message)]
  /\ UNCHANGED <<todo, lock, left, feed, up>>

Leave(b) ==
  /\ ~At(b, "none") /\ ~hub[b].gone
  /\ hub' = [hub EXCEPT ![b].gone = TRUE, ![b].queue = << >>]
  /\ UNCHANGED <<todo, lock, left, feed, view, up>>

Next ==
  /\ up
  /\ \/ \E e \in Exchanges : Exchange(e)
     \/ \E b \in Browsers : Upgrade(b) \/ Handle(b) \/ Read(b) \/ Leave(b)

Spec == Init /\ [][Next]_vars

(* Goroutines that can run do, the ticker ticks, a browser that stays reads.    *)
(* Writers wait in line for the connection's own lock, so that a handler that   *)
(* pushes again and again does not keep a broadcast from ending.                *)
Fairness ==
  /\ \A e \in Exchanges :
       /\ WF_vars(up /\ Exchange(e))
       /\ \A b \in Browsers : SF_vars(up /\ EndSend(e, b))
  /\ \A b \in Browsers : WF_vars(up /\ Handle(b)) /\ WF_vars(up /\ Read(b))

FairSpec == Spec /\ Fairness
-----------------------------------------------------------------------------

Socket == [pc : {"none", "register", "first", "pushFirst", "wait", "push",
                 "forget", "close", "closed"},
           registered : BOOLEAN, gone : BOOLEAN, queue : Seq(Int),
           writing : SUBSET (Exchanges \cup {Handler}),
           isWriting : BOOLEAN, mixed : BOOLEAN, disturbed : BOOLEAN, joined : Nat]

TypeOK ==
  /\ todo \in [Exchanges -> Seq({"rx", "tx", "write"})]
  /\ lock \in Exchanges \cup {Free} /\ left \subseteq Browsers
  /\ feed \in Seq(Exchanges \X {"rx", "tx"})
  /\ hub \in [Browsers -> Socket]
  /\ view \in [Browsers -> Seq(Nat)]
  /\ up \in BOOLEAN

(* The browsers are shown what PacketFeed promises, through every interleaving  *)
(* of exchanges, pushes, panics and browsers that come and go.                  *)
Feed     == INSTANCE PacketFeed
FeedSpec == Feed!Spec

(* Packets before + 1 to last, in order and each once: those read come first,   *)
(* the others are in the queue, among messages of other kinds.                  *)
Packets(queue) == {j \in DOMAIN queue : queue[j] > 0}

Delivered(shown, queue, before, last) ==
  /\ before + Len(shown) <= last
  /\ \A i \in DOMAIN shown : shown[i] = before + i
  /\ {queue[j] : j \in Packets(queue)} = before + Len(shown) + 1 .. last
  /\ \A i, j \in Packets(queue) : i < j => queue[i] < queue[j]

(* The last packet that was written to the browser, or would have been *)
LastSent(b) == IF b \in left THEN Len(feed) - 1 ELSE Len(feed)

(* As long as no two writers met, every packet broadcast since a browser came   *)
(* reaches it, and each once: registering and broadcasting exclude each other.  *)
NoPacketMissed ==
  (\A b \in Browsers : ~hub[b].disturbed) =>
    \A b \in Registered : ~hub[b].gone =>
      Delivered(view[b], hub[b].queue, hub[b].joined, LastSent(b))

(* A broadcast never writes to a connection that its handler has closed: the    *)
(* handler takes it out of the set first, and waits for broadcasts to do so.    *)
NoWriteAfterClose ==
  \A b \in Browsers : At(b, "closed") => b \notin left /\ hub[b].writing = {}

(* The websocket library's condition for using a connection: one writer at a    *)
(* time.  It fails: handleWebSocket writes without clientsMu.                   *)
OneWriterPerConnection == \A b \in Browsers : Cardinality(hub[b].writing) <= 1

(* A broadcast ends, and with it the wait of every handler that logs a packet   *)
(* and of every browser that comes or goes, if each browser reads or leaves     *)
(* (clientsMu is held through all the writes).                                  *)
BroadcastsEnd == \A e \in Exchanges : (lock = e) ~> (lock # e \/ ~up)

(* A browser that is gone is noticed, by the pushes alone, and forgotten *)
GoneAreForgotten ==
  \A b \in Browsers : (hub[b].gone /\ hub[b].registered) ~> (~hub[b].registered \/ ~up)
=============================================================================
