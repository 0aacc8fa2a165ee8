------------------------------ MODULE TCPServer -------------------------------
(* The Modbus TCP server (pkg/modbus/server_tcp.go): a listener that main and   *)
(* the dashboard move from address to address, its accept loop, and one         *)
(* goroutine for each connection, which reads whatever piece of the byte stream *)
(* has arrived, takes it for one request, MBAP or raw RTU, and answers it.      *)
(*                                                                              *)
(* The network may cut and join what clients send anywhere.  The meters do not  *)
(* change here: how handlers interleave on them is the subject of MeterBus.     *)
EXTENDS WireFormat, SequencesExt

CONSTANTS Conns,          \* connections that may be made
          Addrs,          \* addresses to listen on
          InitialAddr,    \* the -tcp flag
          Requests,       \* what clients send, as bytes
          Units,          \* ids of the installed meters
          MaxListeners,   \* no address is bound more often than this
          MaxSent,        \* requests of one connection
          Room,           \* answers that wait in the network for a client to read them
          Cuts            \* lengths at which the network may cut what has arrived

Disabled == "disabled"
Nil      == 0

ASSUME AddrsAssumption ==
  Disabled \notin Addrs /\ InitialAddr \in Addrs \cup {Disabled}

ASSUME ConnectionsAssumption ==
  /\ Requests \subseteq Seq(Byte)
  /\ Units \subseteq Byte \ {0} /\ Units # {}
  /\ MaxListeners \in Nat /\ MaxSent \in Nat /\ Room \in Nat \ {0} /\ Cuts \subseteq Nat

VARIABLES server,      \* TCPServer's fields; its cancel and ctx are its listener's
          listeners,   \* all listeners so far, each with the context made with it
          starting,    \* main's goroutine has not called Start yet
          conns,       \* the connections
          up           \* the process runs

vars == <<server, listeners, starting, conns, up>>

Listener == [addr : Addrs, open : BOOLEAN, cancelled : BOOLEAN, accepting : BOOLEAN]

(* inbox, chunk: what has arrived and what was read.  client: whether the other *)
(* end has closed.  unread: the answers it has not read.  sent, answers: what   *)
(* the client sent, and what was read when an answer was given.  late: the      *)
(* requests answered after the listener was stopped.                            *)
NoConn == [pc |-> "none", listener |-> Nil, inbox |-> << >>, chunk |-> << >>,
           client |-> "here", unread |-> 0, sent |-> << >>, answers |-> << >>, late |-> 0]

Init ==
  /\ server = [addr |-> InitialAddr, listener |-> Nil, active |-> FALSE, lastErr |-> FALSE]
  /\ listeners = << >>
  /\ starting = TRUE
  /\ conns = [c \in Conns |-> NoConn]
  /\ up = TRUE

-----------------------------------------------------------------------------
(* The listener: every operation holds s.mu *)

(* Variant: the context is not cancelled *)
StopLockedUncancelled ==
  [l \in DOMAIN listeners |->
     IF l = server.listener THEN [listeners[l] EXCEPT !.open = FALSE] ELSE listeners[l]]

StopLocked ==
  [l \in DOMAIN listeners |->
     IF l = server.listener
     THEN [listeners[l] EXCEPT !.open = FALSE, !.cancelled = TRUE] ELSE listeners[l]]

Bound(ls, addr) == \E l \in DOMAIN ls : ls[l].open /\ ls[l].addr = addr

(* Variant: the address is left as it was asked for, empty *)
DisableEmpty ==
  /\ listeners' = StopLocked
  /\ server' = [addr |-> "", listener |-> Nil, active |-> FALSE, lastErr |-> FALSE]

Disable ==
  /\ listeners' = StopLocked
  /\ server' = [addr |-> Disabled, listener |-> Nil, active |-> FALSE, lastErr |-> FALSE]

Bind(addr) ==
  /\ Len(listeners) < MaxListeners
  /\ ~Bound(StopLocked, addr)
  /\ listeners' = Append(StopLocked, [addr |-> addr, open |-> TRUE,
                                      cancelled |-> FALSE, accepting |-> TRUE])
  /\ server' = [addr |-> addr, listener |-> Len(listeners) + 1,
                active |-> TRUE, lastErr |-> FALSE]

(* Variant: the previous listener is kept until the new address is bound *)
FailToBindFirst(addr) ==
  /\ listeners' = listeners
  /\ server' = [server EXCEPT !.addr = addr, !.active = FALSE, !.lastErr = TRUE]

(* Another program has the address; the previous listener is gone all the same *)
FailToBind(addr) ==
  /\ listeners' = StopLocked
  /\ server' = [addr |-> addr, listener |-> Nil, active |-> FALSE, lastErr |-> TRUE]

ListenOn(addr) ==
  IF addr = Disabled THEN Disable ELSE Bind(addr) \/ FailToBind(addr)

(* main's goroutine; handleTCPUpdate *)
Start ==
  /\ starting /\ starting' = FALSE
  /\ ListenOn(InitialAddr)
  /\ UNCHANGED <<conns, up>>

Update(addr) == ListenOn(addr) /\ UNCHANGED <<starting, conns, up>>

-----------------------------------------------------------------------------
(* Accepting.  The kernel queues a connection for the listener and resets those *)
(* in the queue when the listener is closed.                                    *)

At(c, pc) == conns[c].pc = pc

Goes(c, pc) == conns' = [conns EXCEPT ![c].pc = pc]

Dial(c, l) ==
  /\ At(c, "none") /\ listeners[l].open
  /\ conns' = [conns EXCEPT ![c] = [NoConn EXCEPT !.pc = "queued", !.listener = l]]
  /\ UNCHANGED <<server, listeners, starting, up>>

Refused(c) ==
  /\ At(c, "queued") /\ ~listeners[conns[c].listener].open
  /\ Goes(c, "closed")
  /\ UNCHANGED <<server, listeners, starting, up>>

Accept(c) ==
  /\ At(c, "queued")
  /\ listeners[conns[c].listener].open /\ listeners[conns[c].listener].accepting
  /\ Goes(c, "check")
  /\ UNCHANGED <<server, listeners, starting, up>>

(* Any error ends the loop, that of a listener that is still open too *)
AcceptError(l) ==
  /\ listeners[l].accepting
  /\ listeners' = [listeners EXCEPT ![l].accepting = FALSE]
  /\ UNCHANGED <<server, starting, conns, up>>

-----------------------------------------------------------------------------
(* A connection *)

Live(c) == conns[c].pc \in {"queued", "check", "read", "serve", "write"}

Present(c) == Live(c) /\ conns[c].client = "here"

(* The client sends; it may send several requests without waiting *)
Send(c, bytes) ==
  /\ Present(c)
  /\ Len(conns[c].sent) < MaxSent
  /\ conns' = [conns EXCEPT ![c].inbox = @ \o bytes, ![c].sent = Append(@, bytes)]
  /\ UNCHANGED <<server, listeners, starting, up>>

(* It reads an answer, or closes its end; it need never do either *)
ClientReads(c) ==
  /\ Present(c) /\ conns[c].unread > 0
  /\ conns' = [conns EXCEPT ![c].unread = @ - 1]
  /\ UNCHANGED <<server, listeners, starting, up>>

Leave(c) ==
  /\ Present(c)
  /\ conns' = [conns EXCEPT ![c].client = "gone", ![c].unread = 0]
  /\ UNCHANGED <<server, listeners, starting, up>>

(* Variant: the context is not looked at *)
IgnoreContext(c) ==
  /\ At(c, "check") /\ Goes(c, "read")
  /\ UNCHANGED <<server, listeners, starting, up>>

CheckContext(c) ==
  /\ At(c, "check")
  /\ Goes(c, IF listeners[conns[c].listener].cancelled THEN "closed" ELSE "read")
  /\ UNCHANGED <<server, listeners, starting, up>>

BufferSize == 512

Cut(inbox) ==
  LET most == Smaller(Len(inbox), BufferSize)
  IN {n \in 1 .. most : n \in Cuts \/ n = most}

(* Variant: what was read stays in front of what is read next *)
ReadKeeping(c) ==
  /\ At(c, "read") /\ conns[c].inbox # << >>
  /\ \E n \in Cut(conns[c].inbox) :
       conns' = [conns EXCEPT ![c].pc = "serve", ![c].chunk = SubSeq(conns[c].inbox, 1, n)]
  /\ UNCHANGED <<server, listeners, starting, up>>

(* Read returns some of the bytes that have arrived, or, when there are none,   *)
(* the end of the stream or the 60 s deadline.                                  *)
Read(c) ==
  /\ At(c, "read") /\ conns[c].inbox # << >>
  /\ \E n \in Cut(conns[c].inbox) :
       LET inbox == conns[c].inbox
       IN conns' = [conns EXCEPT ![c].pc = "serve", ![c].chunk = SubSeq(inbox, 1, n),
                                 ![c].inbox = SubSeq(inbox, n + 1, Len(inbox))]
  /\ UNCHANGED <<server, listeners, starting, up>>

(* Variant: there is no deadline *)
ReadWaits(c) ==
  /\ At(c, "read") /\ conns[c].client = "gone"
  /\ Goes(c, "closed")
  /\ UNCHANGED <<server, listeners, starting, up>>

(* A client that closed may have had what has arrived thrown away as well *)
ReadEnds(c) ==
  /\ At(c, "read")
  /\ conns[c].inbox = << >> \/ conns[c].client = "gone"
  /\ Goes(c, "closed")
  /\ UNCHANGED <<server, listeners, starting, up>>

Answer(b) == IF IsMBAP(b) THEN MBAPAnswer(Units, b) ELSE RTUAnswer(Units, b)

(* ProcessRTUFrame or processMBAPFrame, and the packets logged before an answer *)
(* is written (both of an MBAP exchange, the first of the other).               *)
Serve(c) ==
  /\ At(c, "serve")
  /\ \E answer \in {Answer(conns[c].chunk)} :
       /\ up' = (answer # Panic)
       /\ conns' = [conns EXCEPT
            ![c].pc    = IF answer = NoReply THEN "check" ELSE "write",
            ![c].chunk = IF answer = NoReply THEN << >> ELSE @]
  /\ UNCHANGED <<server, listeners, starting>>

Answered(conn) ==
  [conn EXCEPT
     !.pc = "check", !.chunk = << >>,
     !.answers = Append(@, <<conn.chunk, Answer(conn.chunk)>>),
     !.unread = IF conn.client = "here" THEN @ + 1 ELSE @,
     !.late = IF listeners[conn.listener].open THEN @ ELSE @ + 1]

(* conn.Write waits for room, without a deadline; once the client has closed it *)
(* fails, which nobody looks at.  Then the second packet of a raw exchange is   *)
(* logged.                                                                      *)
Write(c) ==
  /\ At(c, "write")
  /\ conns[c].unread < Room \/ conns[c].client = "gone"
  /\ conns' = [conns EXCEPT ![c] = Answered(@)]
  /\ UNCHANGED <<server, listeners, starting, up>>

Handle(c) == CheckContext(c) \/ Read(c) \/ ReadEnds(c) \/ Serve(c) \/ Write(c)

Next ==
  /\ up
  /\ \/ Start
     \/ \E addr \in Addrs \cup {Disabled} : Update(addr)
     \/ \E l \in DOMAIN listeners : AcceptError(l)
     \/ \E c \in Conns :
          \/ \E l \in DOMAIN listeners : Dial(c, l)
          \/ Refused(c) \/ Accept(c) \/ Handle(c)
          \/ (\E bytes \in Requests : Send(c, bytes)) \/ ClientReads(c) \/ Leave(c)

Spec == Init /\ [][Next]_vars

(* The kernel goes on, and a goroutine that can: one whose Read has data, an    *)
(* end or a deadline, one whose packets the log takes (PacketHub: browsers      *)
(* read), one whose Write has room.  No client has to send, read or close.      *)
Fairness == \A c \in Conns : /\ WF_vars(up /\ (Refused(c) \/ Accept(c)))
                             /\ WF_vars(up /\ Handle(c))

FairSpec == Spec /\ Fairness

-----------------------------------------------------------------------------

ConnTyped(conn, ls) ==
  /\ DOMAIN conn = DOMAIN NoConn
  /\ conn.pc \in {"none", "queued", "check", "read", "serve", "write", "closed"}
  /\ conn.pc # "none" => conn.listener \in DOMAIN ls
  /\ conn.inbox \in Seq(Byte) /\ conn.chunk \in Seq(Byte)
  /\ conn.client \in {"here", "gone"} /\ conn.unread \in 0 .. Room
  /\ conn.late \in Nat

TypeOK ==
  /\ server \in [addr : Addrs \cup {Disabled}, listener : Nat,
                 active : BOOLEAN, lastErr : BOOLEAN]
  /\ listeners \in Seq(Listener)
  /\ starting \in BOOLEAN /\ up \in BOOLEAN
  /\ DOMAIN conns = Conns /\ \A c \in Conns : ConnTyped(conns[c], listeners)

(* The status the dashboard shows is what the network sees, whoever called      *)
(* ListenOn last and however binding went: while it is active, one listener is  *)
(* open, at the address shown; after an error and when disabled there is none,  *)
(* and an address given up can be bound again.                                  *)
StatusTellsTruth ==
  /\ server.lastErr \/ server.addr = Disabled => ~server.active
  /\ {l \in DOMAIN listeners : listeners[l].open}
       = IF server.active THEN {server.listener} ELSE {}
  /\ server.active => listeners[server.listener].addr = server.addr

(* A client of a listener that was stopped gets an answer to at most one more   *)
(* request, however fast it sends them (the context is looked at between two    *)
(* reads).                                                                      *)
AtMostOneLateAnswer == \A c \in Conns : conns[c].late <= 1

(* Wherever the network cuts and joins the stream, every answer is to a request *)
(* the client sent, in the order it sent them, and none is answered twice: a    *)
(* piece of one is never mistaken for another.                                  *)
AnswerTo == [request \in Requests |-> Answer(request)]

AnswersAreInOrder ==
  \A c \in Conns :
    LET answers == conns[c].answers
        sent    == conns[c].sent
    IN \E f \in [DOMAIN answers -> DOMAIN sent] :
         /\ \A i, j \in DOMAIN answers : i < j => f[i] < f[j]
         /\ \A i \in DOMAIN answers : /\ IsPrefix(sent[f[i]], answers[i][1])
                                      /\ answers[i][2] = AnswerTo[sent[f[i]]]

(* A connection knows a request only by what the bytes of one read look like.   *)
(* Unambiguous says that the bytes sent leave no doubt, however they are cut;   *)
(* without it the order of answers is lost.                                     *)
Sendings == UNION {[1 .. n -> Requests] : n \in 0 .. MaxSent}

(* A piece is answered only if it begins with a request, and as that request    *)
Unambiguous ==
  \A requests \in Sendings : \A i, j \in 0 .. Len(Stream(requests)) :
    LET piece == SubSeq(Stream(requests), i + 1, j)
    IN Answer(piece) # NoReply =>
         \E k \in DOMAIN requests : /\ Len(Streams(requests)[k - 1]) = i
                                    /\ IsPrefix(requests[k], piece)
                                    /\ Answer(piece) = Answer(requests[k])

(* The connections of a listener that was stopped end: the status "disabled"    *)
(* becomes true of them too, also when the client neither sends nor closes (the *)
(* deadline of Read and the context's test).  The one thing that can hold such  *)
(* a connection is a client that sent more than it reads answers to, and never  *)
(* reads again: Write has no deadline.                                          *)
Orphaned(c) ==
  conns[c].pc \in {"check", "read", "serve", "write"} /\ ~listeners[conns[c].listener].open

Stuck(c) == At(c, "write") /\ conns[c].unread = Room /\ conns[c].client = "here"

OrphansEnd == \A c \in Conns : Orphaned(c) ~> (~Orphaned(c) \/ ~up \/ []Stuck(c))
=============================================================================
