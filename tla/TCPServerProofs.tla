--------------------------- MODULE TCPServerProofs ----------------------------
(* What holds of the TCP server for any addresses, connections and requests.    *)
EXTENDS TCPServer, FramesProofs

(* Every listener is open or cancelled, and none that was stopped opens again *)
OpenUntilCancelled == \A l \in DOMAIN listeners : listeners[l].open = ~listeners[l].cancelled

StopsOnly ==
  /\ Len(listeners) <= Len(listeners')
  /\ \A l \in DOMAIN listeners :
       /\ l \in DOMAIN listeners'
       /\ listeners[l].cancelled => listeners'[l].cancelled
       /\ listeners'[l].open => listeners[l].open
       /\ listeners'[l].addr = listeners[l].addr

LEMMA StoppedTyped ==
  ASSUME NEW x \in Listener
  PROVE  [x EXCEPT !.open = FALSE, !.cancelled = TRUE] \in Listener
  BY DEF Listener

LEMMA FunctionIsSeq ==
  ASSUME NEW S, NEW n \in Nat, NEW f,
         f = [i \in 1 .. n |-> f[i]], \A i \in 1 .. n : f[i] \in S
  PROVE  f \in Seq(S) /\ Len(f) = n
  OBVIOUS

LEMMA StopLockedTyped ==
  ASSUME TypeOK
  PROVE  StopLocked \in Seq(Listener) /\ Len(StopLocked) = Len(listeners)
<1>1. listeners \in Seq(Listener) /\ DOMAIN listeners = 1 .. Len(listeners)
      /\ Len(listeners) \in Nat
  BY DEF TypeOK
<1> DEFINE n == Len(listeners)
           stopped == StopLocked
<1>2. stopped = [l \in 1 .. n |-> stopped[l]]
  BY <1>1 DEF StopLocked
<1>3. ASSUME NEW l \in 1 .. n
      PROVE  stopped[l] \in Listener
  <2>1. listeners[l] \in Listener
    BY <1>1
  <2>2. stopped[l] = IF l = server.listener
                     THEN [listeners[l] EXCEPT !.open = FALSE, !.cancelled = TRUE]
                     ELSE listeners[l]
    BY <1>1 DEF StopLocked
  <2> QED
    BY <2>1, <2>2, StoppedTyped
<1>4. n \in Nat
  BY <1>1
<1> HIDE DEF n, stopped
<1>5. stopped \in Seq(Listener) /\ Len(stopped) = n
  BY <1>2, <1>3, <1>4, FunctionIsSeq
<1> QED
  BY <1>5 DEF n, stopped

LEMMA StopLockedStops ==
  ASSUME TypeOK, OpenUntilCancelled, StatusTellsTruth
  PROVE  \A l \in DOMAIN StopLocked :
           /\ ~StopLocked[l].open /\ StopLocked[l].cancelled
           /\ StopLocked[l].addr = listeners[l].addr
<1> SUFFICES ASSUME NEW l \in DOMAIN listeners
    PROVE  /\ ~StopLocked[l].open /\ StopLocked[l].cancelled
           /\ StopLocked[l].addr = listeners[l].addr
  BY DEF StopLocked
<1>1. listeners[l] \in Listener
  BY DEF TypeOK
<1>2. CASE l = server.listener
  BY <1>1, <1>2 DEF StopLocked, Listener
<1>3. CASE l # server.listener
  <2>1. ~listeners[l].open
    BY <1>3 DEF StatusTellsTruth
  <2>2. listeners[l].cancelled
    BY <2>1, <1>1 DEF OpenUntilCancelled, Listener
  <2> QED
    BY <2>1, <2>2, <1>3 DEF StopLocked
<1> QED
  BY <1>2, <1>3

ListenersOK ==
  /\ server \in [addr : Addrs \cup {Disabled}, listener : Nat,
                 active : BOOLEAN, lastErr : BOOLEAN]
  /\ listeners \in Seq(Listener)
  /\ OpenUntilCancelled /\ StatusTellsTruth

(* Nothing is listening any more *)
LEMMA StopSettles ==
  ASSUME TypeOK, OpenUntilCancelled, StatusTellsTruth, listeners' = StopLocked,
         NEW addr \in Addrs \cup {Disabled}, NEW err \in BOOLEAN,
         server' = [addr |-> addr, listener |-> Nil, active |-> FALSE, lastErr |-> err]
  PROVE  ListenersOK' /\ StopsOnly
<1>1. listeners' \in Seq(Listener) /\ Len(listeners') = Len(listeners)
      /\ DOMAIN listeners' = DOMAIN listeners
  BY StopLockedTyped DEF TypeOK
<1>2. \A l \in DOMAIN listeners' : /\ ~listeners'[l].open /\ listeners'[l].cancelled
                                   /\ listeners'[l].addr = listeners[l].addr
  BY StopLockedStops
<1>3. server' \in [addr : Addrs \cup {Disabled}, listener : Nat,
                   active : BOOLEAN, lastErr : BOOLEAN]
  BY DEF Nil
<1>4. OpenUntilCancelled'
  <2>1. ASSUME NEW l \in DOMAIN listeners'
        PROVE  listeners'[l].open \in BOOLEAN
    <3>1. listeners'[l] \in Listener
      BY <1>1, <2>1
    <3> QED
      BY <3>1 DEF Listener
  <2> QED
    BY <1>2, <2>1 DEF OpenUntilCancelled
<1>5. StatusTellsTruth'
  <2>1. ~server'.active
    OBVIOUS
  <2>2. {l \in DOMAIN listeners' : listeners'[l].open} = {}
    BY <1>2
  <2> QED
    BY <2>1, <2>2 DEF StatusTellsTruth
<1>6. StopsOnly
  <2>1. Len(listeners) <= Len(listeners')
    BY <1>1 DEF TypeOK
  <2> QED
    BY <1>1, <1>2, <2>1 DEF StopsOnly
<1> QED
  BY <1>1, <1>3, <1>4, <1>5, <1>6 DEF ListenersOK

LEMMA BindSettles ==
  ASSUME TypeOK, OpenUntilCancelled, StatusTellsTruth,
         NEW addr \in Addrs, addr # Disabled, Bind(addr)
  PROVE  ListenersOK' /\ StopsOnly
<1> DEFINE ls == StopLocked
           n  == Len(listeners)
           x  == [addr |-> addr, open |-> TRUE, cancelled |-> FALSE, accepting |-> TRUE]
<1>1. ls \in Seq(Listener) /\ Len(ls) = n /\ n \in Nat
  BY StopLockedTyped DEF TypeOK
<1>2. \A l \in 1 .. n : /\ ~ls[l].open /\ ls[l].cancelled
                        /\ ls[l].addr = listeners[l].addr
  BY StopLockedStops, <1>1
<1>3. x \in Listener
  BY DEF Listener
<1>4. /\ listeners' = Append(ls, x)
      /\ server' = [addr |-> addr, listener |-> n + 1, active |-> TRUE, lastErr |-> FALSE]
  BY DEF Bind
<1>5. DOMAIN listeners = 1 .. n
  BY DEF TypeOK
<1>6. x.open /\ ~x.cancelled /\ x.addr = addr
  OBVIOUS
<1> HIDE DEF ls, n, x
<1>7. /\ listeners' \in Seq(Listener) /\ Len(listeners') = n + 1
      /\ DOMAIN listeners' = 1 .. n + 1
      /\ \A l \in 1 .. n : listeners'[l] = ls[l]
      /\ listeners'[n + 1] = x
  BY <1>1, <1>3, <1>4
<1>8. server' \in [addr : Addrs \cup {Disabled}, listener : Nat,
                   active : BOOLEAN, lastErr : BOOLEAN]
  BY <1>1, <1>4
<1>9. OpenUntilCancelled'
  <2>1. ASSUME NEW l \in DOMAIN listeners'
        PROVE  listeners'[l].open \in BOOLEAN /\ listeners'[l].cancelled \in BOOLEAN
    <3>1. listeners'[l] \in Listener
      BY <1>7, <2>1
    <3> QED
      BY <3>1 DEF Listener
  <2>2. ASSUME NEW l \in 1 .. n
        PROVE  ~listeners'[l].open /\ listeners'[l].cancelled
    BY <1>2, <1>7
  <2>3. listeners'[n + 1].open /\ ~listeners'[n + 1].cancelled
    BY <1>6, <1>7
  <2>4. \A l \in DOMAIN listeners' : l \in 1 .. n \/ l = n + 1
    BY <1>1, <1>7
  <2> QED
    BY <2>1, <2>2, <2>3, <2>4 DEF OpenUntilCancelled
<1>10. StatusTellsTruth'
  <2>1. /\ server'.active /\ ~server'.lastErr /\ server'.addr # Disabled
        /\ server'.listener = n + 1 /\ server'.addr = addr
    BY <1>4
  <2>2. {l \in DOMAIN listeners' : listeners'[l].open} = {n + 1}
    BY <1>1, <1>2, <1>6, <1>7
  <2>3. listeners'[n + 1].addr = addr
    BY <1>6, <1>7
  <2> QED
    BY <2>1, <2>2, <2>3 DEF StatusTellsTruth
<1>11. StopsOnly
  <2>1. Len(listeners) <= Len(listeners')
    BY <1>1, <1>7 DEF n
  <2> QED
    BY <2>1, <1>1, <1>2, <1>5, <1>7 DEF StopsOnly
<1> QED
  BY <1>7, <1>8, <1>9, <1>10, <1>11 DEF ListenersOK

LEMMA ListenOnSettles ==
  ASSUME TypeOK, OpenUntilCancelled, StatusTellsTruth,
         NEW addr \in Addrs \cup {Disabled}, ListenOn(addr)
  PROVE  ListenersOK' /\ StopsOnly
<1>1. CASE addr = Disabled
  BY <1>1, StopSettles DEF ListenOn, Disable
<1>2. CASE addr # Disabled /\ Bind(addr)
  BY <1>2, BindSettles
<1>3. CASE addr # Disabled /\ FailToBind(addr)
  BY <1>3, StopSettles DEF FailToBind
<1> QED
  BY <1>1, <1>2, <1>3 DEF ListenOn

-----------------------------------------------------------------------------
(* A connection that answered late is at its last test of the context, or past  *)
(* it.                                                                          *)
LateOK(conn, ls) ==
  conn.late # 0 => /\ conn.late = 1 /\ conn.pc \in {"check", "closed"}
                   /\ ls[conn.listener].cancelled

Inv ==
  /\ TypeOK /\ OpenUntilCancelled /\ StatusTellsTruth
  /\ \A c \in Conns : LateOK(conns[c], listeners)

LEMMA FieldsOfConn ==
  DOMAIN NoConn = {"pc", "listener", "inbox", "chunk", "client", "unread",
                    "sent", "answers", "late"}
  BY DEF NoConn

LEMMA ConnKept ==
  ASSUME StopsOnly, NEW conn, ConnTyped(conn, listeners), LateOK(conn, listeners)
  PROVE  ConnTyped(conn, listeners') /\ LateOK(conn, listeners')
<1>1. ConnTyped(conn, listeners')
  BY DEF ConnTyped, StopsOnly
<1>2. ASSUME conn.late # 0
      PROVE  /\ conn.late = 1 /\ conn.pc \in {"check", "closed"}
             /\ listeners'[conn.listener].cancelled
  <2>1. /\ conn.late = 1 /\ conn.pc \in {"check", "closed"}
        /\ listeners[conn.listener].cancelled
    BY <1>2 DEF LateOK
  <2>2. conn.listener \in DOMAIN listeners
    BY <2>1 DEF ConnTyped
  <2> QED
    BY <2>1, <2>2 DEF StopsOnly
<1> QED
  BY <1>1, <1>2 DEF LateOK

LEMMA ListenerStep ==
  ASSUME Inv, ListenersOK', StopsOnly, conns' = conns,
         starting' \in BOOLEAN, up' \in BOOLEAN
  PROVE  Inv'
<1>1. DOMAIN conns' = Conns
  BY DEF Inv, TypeOK
<1>2. \A c \in Conns : ConnTyped(conns'[c], listeners') /\ LateOK(conns'[c], listeners')
  BY ConnKept DEF Inv, TypeOK
<1> QED
  BY <1>1, <1>2 DEF Inv, TypeOK, ListenersOK

LEMMA ConnStep ==
  ASSUME Inv, NEW c \in Conns, NEW conn, ConnTyped(conn, listeners), LateOK(conn, listeners),
         conns' = [conns EXCEPT ![c] = conn],
         UNCHANGED <<server, listeners, starting>>, up' \in BOOLEAN
  PROVE  Inv'
<1>1. DOMAIN conns' = Conns
  BY DEF Inv, TypeOK
<1>2. \A d \in Conns : conns'[d] = IF d = c THEN conn ELSE conns[d]
  BY DEF Inv, TypeOK
<1>3. \A d \in Conns : ConnTyped(conns'[d], listeners) /\ LateOK(conns'[d], listeners)
  BY <1>2 DEF Inv, TypeOK
<1>4. OpenUntilCancelled' /\ StatusTellsTruth'
  BY DEF Inv, OpenUntilCancelled, StatusTellsTruth
<1>5. TypeOK'
  BY <1>1, <1>3 DEF Inv, TypeOK
<1> QED
  BY <1>3, <1>4, <1>5 DEF Inv

(* A step that changes a connection's pc only *)
LEMMA GoesStep ==
  ASSUME Inv, NEW c \in Conns, NEW pc \in {"check", "read", "closed"},
         ~At(c, "none"), Goes(c, pc),
         conns[c].late = 0 \/ pc \in {"check", "closed"},
         UNCHANGED <<server, listeners, starting, up>>
  PROVE  Inv'
<1> DEFINE x == conns[c]
           y == [x EXCEPT !.pc = pc]
<1>1. ConnTyped(x, listeners) /\ LateOK(x, listeners) /\ x.pc # "none"
  BY DEF Inv, TypeOK, At
<1>2. conns' = [conns EXCEPT ![c] = y]
  BY DEF Goes
<1>3. x.late = 0 \/ pc \in {"check", "closed"}
  OBVIOUS
<1> HIDE DEF x
<1>4. /\ DOMAIN y = DOMAIN x /\ y.pc = pc /\ y.listener = x.listener
      /\ y.inbox = x.inbox /\ y.chunk = x.chunk /\ y.late = x.late
      /\ y.client = x.client /\ y.unread = x.unread
  BY <1>1, FieldsOfConn DEF ConnTyped
<1> HIDE DEF y
<1>5. ConnTyped(y, listeners)
  BY <1>1, <1>4 DEF ConnTyped
<1>6. LateOK(y, listeners)
  BY <1>1, <1>3, <1>4 DEF LateOK
<1>7. up' \in BOOLEAN
  BY DEF Inv, TypeOK
<1> QED
  BY <1>2, <1>5, <1>6, <1>7, ConnStep

LEMMA Joined ==
  ASSUME NEW S, NEW s \in Seq(S), NEW u \in Seq(S)
  PROVE  s \o u \in Seq(S)
  OBVIOUS

LEMMA Split ==
  ASSUME NEW S, NEW s \in Seq(S), NEW n \in 1 .. Len(s)
  PROVE  SubSeq(s, 1, n) \in Seq(S) /\ SubSeq(s, n + 1, Len(s)) \in Seq(S)
  OBVIOUS

LEMMA DialStep ==
  ASSUME Inv, NEW c \in Conns, NEW l \in DOMAIN listeners, Dial(c, l)
  PROVE  Inv'
<1> DEFINE y == [NoConn EXCEPT !.pc = "queued", !.listener = l]
<1>1. /\ DOMAIN y = DOMAIN NoConn /\ y.pc = "queued" /\ y.listener = l
      /\ y.inbox = << >> /\ y.chunk = << >> /\ y.late = 0
      /\ y.client = "here" /\ y.unread = 0
  BY DEF NoConn
<1>2. conns' = [conns EXCEPT ![c] = y]
  BY DEF Dial
<1> HIDE DEF y
<1>3. ConnTyped(y, listeners)
  BY <1>1, ConnectionsAssumption DEF ConnTyped
<1>4. LateOK(y, listeners)
  BY <1>1 DEF LateOK
<1>5. up' \in BOOLEAN /\ UNCHANGED <<server, listeners, starting>>
  BY DEF Dial, Inv, TypeOK
<1> QED
  BY <1>2, <1>3, <1>4, <1>5, ConnStep

LEMMA SendStep ==
  ASSUME Inv, NEW c \in Conns, NEW bytes \in Requests, Send(c, bytes)
  PROVE  Inv'
<1> DEFINE x == conns[c]
           i == x.inbox \o bytes
           s == Append(x.sent, bytes)
           y == [x EXCEPT !.inbox = i, !.sent = s]
<1>1. ConnTyped(x, listeners) /\ LateOK(x, listeners)
  BY DEF Inv, TypeOK
<1>2. conns' = [conns EXCEPT ![c] = y]
  BY DEF Send
<1>3. bytes \in Seq(Byte)
  BY ConnectionsAssumption
<1>4. i \in Seq(Byte)
  BY <1>1, <1>3, Joined DEF ConnTyped
<1> HIDE DEF x, i, s
<1>5. /\ DOMAIN y = DOMAIN x /\ y.pc = x.pc /\ y.listener = x.listener
      /\ y.inbox = i /\ y.chunk = x.chunk /\ y.late = x.late
      /\ y.client = x.client /\ y.unread = x.unread
  BY <1>1, FieldsOfConn DEF ConnTyped
<1> HIDE DEF y
<1>6. ConnTyped(y, listeners)
  BY <1>1, <1>4, <1>5 DEF ConnTyped
<1>7. LateOK(y, listeners)
  BY <1>1, <1>5 DEF LateOK
<1>8. up' \in BOOLEAN /\ UNCHANGED <<server, listeners, starting>>
  BY DEF Send, Inv, TypeOK
<1> QED
  BY <1>2, <1>6, <1>7, <1>8, ConnStep

LEMMA CutIs ==
  ASSUME NEW s \in Seq(Byte), NEW n \in Cut(s)
  PROVE  n \in 1 .. Len(s)
<1> DEFINE len == Len(s)
<1>1. len \in Nat /\ n \in 1 .. Smaller(len, 512)
  BY DEF Cut, BufferSize
<1> HIDE DEF len
<1>2. Smaller(len, 512) <= len /\ Smaller(len, 512) \in Int
  BY <1>1 DEF Smaller
<1>3. n \in 1 .. len
  BY <1>1, <1>2
<1> QED
  BY <1>3 DEF len

LEMMA ReadStep ==
  ASSUME Inv, NEW c \in Conns, Read(c)
  PROVE  Inv'
<1> DEFINE x == conns[c]
<1>1. ConnTyped(x, listeners) /\ LateOK(x, listeners) /\ x.pc = "read"
  BY DEF Inv, TypeOK, Read, At
<1>2. PICK n \in Cut(x.inbox) :
        conns' = [conns EXCEPT ![c] =
                    [x EXCEPT !.pc = "serve", !.chunk = SubSeq(x.inbox, 1, n),
                              !.inbox = SubSeq(x.inbox, n + 1, Len(x.inbox))]]
  BY DEF Read
<1>3. n \in 1 .. Len(x.inbox)
  BY <1>1, CutIs DEF ConnTyped
<1> DEFINE h == SubSeq(x.inbox, 1, n)
           i == SubSeq(x.inbox, n + 1, Len(x.inbox))
           y == [x EXCEPT !.pc = "serve", !.chunk = h, !.inbox = i]
<1>4. h \in Seq(Byte) /\ i \in Seq(Byte)
  BY <1>1, <1>3, Split DEF ConnTyped
<1>5. conns' = [conns EXCEPT ![c] = y]
  BY <1>2
<1> HIDE DEF x, h, i
<1>6. /\ DOMAIN y = DOMAIN x /\ y.pc = "serve" /\ y.listener = x.listener
      /\ y.inbox = i /\ y.chunk = h /\ y.late = x.late
      /\ y.client = x.client /\ y.unread = x.unread
  BY <1>1, FieldsOfConn DEF ConnTyped
<1> HIDE DEF y
<1>7. ConnTyped(y, listeners)
  BY <1>1, <1>4, <1>6 DEF ConnTyped
<1>8. LateOK(y, listeners)
  BY <1>1, <1>6 DEF LateOK
<1>9. up' \in BOOLEAN /\ UNCHANGED <<server, listeners, starting>>
  BY DEF Read, Inv, TypeOK
<1> QED
  BY <1>5, <1>7, <1>8, <1>9, ConnStep

(* The client reads or closes *)
LEMMA ClientStep ==
  ASSUME Inv, NEW c \in Conns, ClientReads(c) \/ Leave(c)
  PROVE  Inv'
<1> DEFINE x == conns[c]
<1>1. ConnTyped(x, listeners) /\ LateOK(x, listeners)
  BY DEF Inv, TypeOK
<1>2. PICK client \in {"here", "gone"}, unread \in 0 .. Room :
        conns' = [conns EXCEPT ![c] = [x EXCEPT !.client = client, !.unread = unread]]
  <2>1. x.client \in {"here", "gone"} /\ x.unread \in 0 .. Room /\ DOMAIN x = DOMAIN NoConn
    BY <1>1 DEF ConnTyped
  <2> DEFINE y(client, unread) == [x EXCEPT !.client = client, !.unread = unread]
  <2>2. CASE ClientReads(c)
    <3>1. x.unread > 0 /\ conns' = [conns EXCEPT ![c] = [x EXCEPT !.unread = x.unread - 1]]
      BY <2>2 DEF ClientReads
    <3>2. [x EXCEPT !.unread = x.unread - 1] = y(x.client, x.unread - 1)
      BY <2>1, FieldsOfConn
    <3>3. x.unread - 1 \in 0 .. Room
      BY <2>1, <3>1, ConnectionsAssumption
    <3> QED
      BY <2>1, <3>1, <3>2, <3>3
  <2>3. CASE Leave(c)
    <3>1. conns' = [conns EXCEPT ![c] = y("gone", 0)]
      BY <2>3 DEF Leave
    <3>2. 0 \in 0 .. Room
      BY ConnectionsAssumption
    <3> QED
      BY <3>1, <3>2
  <2> QED
    BY <2>2, <2>3
<1> DEFINE y == [x EXCEPT !.client = client, !.unread = unread]
<1>3. conns' = [conns EXCEPT ![c] = y]
  BY <1>2
<1> HIDE DEF x
<1>4. /\ DOMAIN y = DOMAIN x /\ y.pc = x.pc /\ y.listener = x.listener
      /\ y.inbox = x.inbox /\ y.chunk = x.chunk /\ y.late = x.late
      /\ y.client = client /\ y.unread = unread
  BY <1>1, FieldsOfConn DEF ConnTyped
<1> HIDE DEF y
<1>5. ConnTyped(y, listeners)
  BY <1>1, <1>2, <1>4 DEF ConnTyped
<1>6. LateOK(y, listeners)
  BY <1>1, <1>4 DEF LateOK
<1>7. up' \in BOOLEAN /\ UNCHANGED <<server, listeners, starting>>
  BY DEF ClientReads, Leave, Inv, TypeOK
<1> QED
  BY <1>3, <1>5, <1>6, <1>7, ConnStep

LEMMA ServeStep ==
  ASSUME Inv, NEW c \in Conns, Serve(c)
  PROVE  Inv'
<1> DEFINE x == conns[c]
<1>1. ConnTyped(x, listeners) /\ LateOK(x, listeners) /\ x.pc = "serve"
  BY DEF Inv, TypeOK, Serve, At
<1>2. PICK pc \in {"check", "write"}, chunk \in {<< >>, x.chunk} :
        conns' = [conns EXCEPT ![c] = [x EXCEPT !.pc = pc, !.chunk = chunk]]
  BY DEF Serve
<1> DEFINE y == [x EXCEPT !.pc = pc, !.chunk = chunk]
<1>3. conns' = [conns EXCEPT ![c] = y]
  BY <1>2
<1>4. chunk \in Seq(Byte)
  <2>1. x.chunk \in Seq(Byte) /\ << >> \in Seq(Byte)
    BY <1>1 DEF ConnTyped
  <2>2. chunk = << >> \/ chunk = x.chunk
    OBVIOUS
  <2> QED
    BY <2>1, <2>2
<1> HIDE DEF x
<1>5. /\ DOMAIN y = DOMAIN x /\ y.pc = pc /\ y.listener = x.listener
      /\ y.inbox = x.inbox /\ y.chunk = chunk /\ y.late = x.late
      /\ y.client = x.client /\ y.unread = x.unread
  BY <1>1, FieldsOfConn DEF ConnTyped
<1> HIDE DEF y
<1>6. ConnTyped(y, listeners)
  BY <1>1, <1>2, <1>4, <1>5 DEF ConnTyped
<1>7. LateOK(y, listeners)
  BY <1>1, <1>5 DEF LateOK
<1>8. up' \in BOOLEAN /\ UNCHANGED <<server, listeners, starting>>
  BY DEF Serve
<1> QED
  BY <1>3, <1>6, <1>7, <1>8, ConnStep

(* A connection that has an answer to write has not answered late yet *)
LEMMA WriteStep ==
  ASSUME Inv, NEW c \in Conns, Write(c)
  PROVE  Inv'
<1> DEFINE x == conns[c]
           open == listeners[x.listener].open
           cancelled == listeners[x.listener].cancelled
           a == Append(x.answers, <<x.chunk, Answer(x.chunk)>>)
           unread == IF x.client = "here" THEN x.unread + 1 ELSE x.unread
           late == IF open THEN x.late ELSE x.late + 1
           y == [x EXCEPT !.pc = "check", !.chunk = << >>, !.answers = a,
                          !.unread = unread, !.late = late]
<1>1. /\ ConnTyped(x, listeners) /\ LateOK(x, listeners) /\ x.pc = "write"
      /\ x.unread < Room \/ x.client = "gone"
  BY DEF Inv, TypeOK, Write, At
<1>2. conns' = [conns EXCEPT ![c] = y]
  BY DEF Write, Answered
<1>3. unread \in 0 .. Room
  BY <1>1, ConnectionsAssumption DEF ConnTyped
<1>4. late = 0 \/ (late = 1 /\ ~open)
  BY <1>1 DEF LateOK
<1>5. x.listener \in DOMAIN listeners
  BY <1>1 DEF ConnTyped
<1>6. ~open => cancelled
  <2>1. listeners[x.listener] \in Listener
    BY <1>5 DEF Inv, TypeOK
  <2>2. cancelled \in BOOLEAN
    BY <2>1 DEF Listener
  <2> QED
    BY <1>5, <2>2 DEF Inv, OpenUntilCancelled
<1> HIDE DEF x, a, unread, late, open
<1>7. /\ DOMAIN y = DOMAIN x /\ y.pc = "check" /\ y.listener = x.listener
      /\ y.inbox = x.inbox /\ y.chunk = << >> /\ y.late = late
      /\ y.client = x.client /\ y.unread = unread
  BY <1>1, FieldsOfConn DEF ConnTyped
<1> HIDE DEF y
<1>8. ConnTyped(y, listeners)
  BY <1>1, <1>3, <1>4, <1>7 DEF ConnTyped
<1>9. LateOK(y, listeners)
  BY <1>4, <1>6, <1>7 DEF LateOK
<1>10. up' \in BOOLEAN /\ UNCHANGED <<server, listeners, starting>>
  BY DEF Write, Inv, TypeOK
<1> QED
  BY <1>2, <1>8, <1>9, <1>10, ConnStep

(* A listener that no longer accepts is open or not as before *)
LEMMA AcceptErrorStep ==
  ASSUME Inv, NEW l \in DOMAIN listeners, AcceptError(l)
  PROVE  Inv'
<1> DEFINE n == Len(listeners)
           x == [listeners[l] EXCEPT !.accepting = FALSE]
<1>1. /\ listeners \in Seq(Listener) /\ DOMAIN listeners = 1 .. n /\ n \in Nat
      /\ l \in 1 .. n
  BY DEF Inv, TypeOK
<1>2. listeners[l] \in Listener
  BY <1>1
<1>3. /\ x \in Listener /\ x.open = listeners[l].open
      /\ x.cancelled = listeners[l].cancelled /\ x.addr = listeners[l].addr
  BY <1>2 DEF Listener
<1>4. listeners' = [listeners EXCEPT ![l] = x]
  BY DEF AcceptError
<1> HIDE DEF x, n
<1>5. /\ listeners' \in Seq(Listener) /\ Len(listeners') = n /\ DOMAIN listeners' = 1 .. n
      /\ \A k \in 1 .. n : listeners'[k] = IF k = l THEN x ELSE listeners[k]
  BY <1>1, <1>3, <1>4 DEF n
<1>6. \A k \in 1 .. n : /\ listeners'[k].open = listeners[k].open
                        /\ listeners'[k].cancelled = listeners[k].cancelled
                        /\ listeners'[k].addr = listeners[k].addr
  BY <1>3, <1>5
<1>7. server' = server
  BY DEF AcceptError
<1>8. OpenUntilCancelled'
  BY <1>1, <1>5, <1>6 DEF Inv, OpenUntilCancelled
<1>9. StatusTellsTruth'
  <2>1. {k \in DOMAIN listeners' : listeners'[k].open}
          = {k \in DOMAIN listeners : listeners[k].open}
    BY <1>1, <1>5, <1>6
  <2>2. ASSUME server.active
        PROVE  listeners'[server.listener].addr = server.addr
    <3>1. server.listener \in 1 .. n
      BY <2>2, <1>1 DEF Inv, StatusTellsTruth
    <3> QED
      BY <2>2, <3>1, <1>6 DEF Inv, StatusTellsTruth
  <2> QED
    BY <1>7, <2>1, <2>2 DEF Inv, StatusTellsTruth
<1>10. StopsOnly
  BY <1>1, <1>5, <1>6 DEF StopsOnly, n
<1>11. ListenersOK'
  BY <1>5, <1>7, <1>8, <1>9 DEF ListenersOK, Inv, TypeOK
<1>12. conns' = conns /\ starting' \in BOOLEAN /\ up' \in BOOLEAN
  BY DEF AcceptError, Inv, TypeOK
<1> QED
  BY <1>10, <1>11, <1>12, ListenerStep

LEMMA InitHolds == Init => Inv
<1> SUFFICES ASSUME Init
    PROVE  Inv
  OBVIOUS
<1>1. server = [addr |-> InitialAddr, listener |-> Nil, active |-> FALSE, lastErr |-> FALSE]
      /\ listeners = << >>
  BY DEF Init
<1>2. ConnTyped(NoConn, listeners) /\ LateOK(NoConn, listeners)
  <2>1. /\ NoConn.pc = "none" /\ NoConn.inbox = << >> /\ NoConn.chunk = << >>
        /\ NoConn.late = 0 /\ NoConn.client = "here" /\ NoConn.unread = 0
    BY DEF NoConn
  <2> QED
    BY <2>1, ConnectionsAssumption DEF ConnTyped, LateOK
<1>3. DOMAIN conns = Conns /\ \A c \in Conns : conns[c] = NoConn
  BY DEF Init
<1>4. server \in [addr : Addrs \cup {Disabled}, listener : Nat,
                  active : BOOLEAN, lastErr : BOOLEAN]
  BY <1>1, AddrsAssumption DEF Nil
<1>5. TypeOK
  BY <1>1, <1>2, <1>3, <1>4 DEF Init, TypeOK
<1>6. OpenUntilCancelled /\ StatusTellsTruth
  BY <1>1 DEF OpenUntilCancelled, StatusTellsTruth
<1> QED
  BY <1>2, <1>3, <1>5, <1>6 DEF Inv

LEMMA HandleStep ==
  ASSUME Inv, NEW c \in Conns, Handle(c)
  PROVE  Inv'
<1>1. CASE CheckContext(c)
  <2>1. ASSUME NEW pc \in {"closed", "read"}, Goes(c, pc),
               pc = "closed" \/ ~listeners[conns[c].listener].cancelled
        PROVE  Inv'
    <3>1. ~At(c, "none")
      BY <1>1 DEF CheckContext, At
    <3>2. conns[c].late = 0 \/ pc \in {"check", "closed"}
      BY <2>1 DEF Inv, LateOK
    <3>3. pc \in {"check", "read", "closed"} /\ UNCHANGED <<server, listeners, starting, up>>
      BY <1>1 DEF CheckContext
    <3> QED
      BY <2>1, <3>1, <3>2, <3>3, GoesStep
  <2>2. CASE listeners[conns[c].listener].cancelled
    BY <1>1, <2>1, <2>2 DEF CheckContext
  <2>3. CASE ~listeners[conns[c].listener].cancelled
    BY <1>1, <2>1, <2>3 DEF CheckContext
  <2> QED
    BY <2>2, <2>3
<1>2. CASE Read(c)
  BY <1>2, ReadStep
<1>3. CASE ReadEnds(c)
  <2>1. ~At(c, "none") /\ Goes(c, "closed") /\ UNCHANGED <<server, listeners, starting, up>>
    BY <1>3 DEF ReadEnds, At
  <2> QED
    BY <2>1, GoesStep
<1>4. CASE Serve(c)
  BY <1>4, ServeStep
<1>5. CASE Write(c)
  BY <1>5, WriteStep
<1> QED
  BY <1>1, <1>2, <1>3, <1>4, <1>5 DEF Handle

LEMMA StepHolds == Inv /\ [Next]_vars => Inv'
<1> SUFFICES ASSUME Inv, [Next]_vars
    PROVE  Inv'
  OBVIOUS
<1>0. TypeOK /\ OpenUntilCancelled /\ StatusTellsTruth
  BY DEF Inv
<1>1. CASE Start
  <2>1. ListenersOK' /\ StopsOnly
    BY <1>0, <1>1, AddrsAssumption, ListenOnSettles DEF Start
  <2>2. conns' = conns /\ starting' \in BOOLEAN /\ up' \in BOOLEAN
    BY <1>0, <1>1 DEF Start, TypeOK
  <2> QED
    BY <2>1, <2>2, ListenerStep
<1>2. ASSUME NEW addr \in Addrs \cup {Disabled}, Update(addr)
      PROVE  Inv'
  <2>1. ListenersOK' /\ StopsOnly
    BY <1>0, <1>2, ListenOnSettles DEF Update
  <2>2. conns' = conns /\ starting' \in BOOLEAN /\ up' \in BOOLEAN
    BY <1>0, <1>2 DEF Update, TypeOK
  <2> QED
    BY <2>1, <2>2, ListenerStep
<1>3. ASSUME NEW l \in DOMAIN listeners, AcceptError(l)
      PROVE  Inv'
  BY <1>3, AcceptErrorStep
<1>4. ASSUME NEW c \in Conns, NEW l \in DOMAIN listeners, Dial(c, l)
      PROVE  Inv'
  BY <1>4, DialStep
<1>5. ASSUME NEW c \in Conns, Refused(c)
      PROVE  Inv'
  <2>1. ~At(c, "none") /\ Goes(c, "closed") /\ UNCHANGED <<server, listeners, starting, up>>
    BY <1>5 DEF Refused, At
  <2> QED
    BY <2>1, GoesStep
<1>6. ASSUME NEW c \in Conns, Accept(c)
      PROVE  Inv'
  <2>1. ~At(c, "none") /\ Goes(c, "check") /\ UNCHANGED <<server, listeners, starting, up>>
    BY <1>6 DEF Accept, At
  <2> QED
    BY <2>1, GoesStep
<1>7. ASSUME NEW c \in Conns, Handle(c)
      PROVE  Inv'
  BY <1>7, HandleStep
<1>8. ASSUME NEW c \in Conns, NEW bytes \in Requests, Send(c, bytes)
      PROVE  Inv'
  BY <1>8, SendStep
<1>9. ASSUME NEW c \in Conns, ClientReads(c) \/ Leave(c)
      PROVE  Inv'
  BY <1>9, ClientStep
<1>10. CASE UNCHANGED vars
  BY <1>10 DEF vars, Inv, TypeOK, OpenUntilCancelled, StatusTellsTruth
<1> QED
  BY <1>1, <1>2, <1>3, <1>4, <1>5, <1>6, <1>7, <1>8, <1>9, <1>10 DEF Next

LEMMA InvHolds == Spec => []Inv
  BY InitHolds, StepHolds, PTL DEF Spec

(* The types of the server's fields, its listeners and the connections, however *)
(* often addresses change and whatever arrives.                                 *)
THEOREM TypeCorrect == Spec => []TypeOK
<1>1. Inv => TypeOK
  BY DEF Inv
<1> QED
  BY <1>1, InvHolds, PTL

(* ListenOn leaves the status true of the network in every outcome: at most one *)
(* listener is open, and it is the one shown.                                   *)
THEOREM StatusIsTrue == Spec => []StatusTellsTruth
<1>1. Inv => StatusTellsTruth
  BY DEF Inv
<1> QED
  BY <1>1, InvHolds, PTL

(* A connection whose listener was stopped answers at most once more, for any   *)
(* number of connections and any requests: what it answers late is what it had  *)
(* read before it looked at its context.                                        *)
THEOREM LateAnswersAreFew == Spec => []AtMostOneLateAnswer
<1>1. Inv => AtMostOneLateAnswer
  BY DEF Inv, LateOK, AtMostOneLateAnswer
<1> QED
  BY <1>1, InvHolds, PTL
-----------------------------------------------------------------------------
(* The stream of a connection: what was answered or dropped, what was read and  *)
(* what has arrived are the bytes of the requests sent, in order.               *)

LEMMA NotEmpty ==
  ASSUME NEW a \in Seq(Byte), a # << >>
  PROVE  Len(a) # 0
  OBVIOUS

LEMMA AppendDeep ==
  ASSUME NEW a \in Seq(Byte), NEW b \in Seq(Byte), NEW c \in Seq(Byte), NEW d \in Seq(Byte)
  PROVE  (a \o (b \o c)) \o d = a \o (b \o (c \o d))
<1> DEFINE bc == b \o c
<1>1. bc \in Seq(Byte)
  OBVIOUS
<1>2. bc \o d = b \o (c \o d)
  BY SMTT(60)
<1> HIDE DEF bc
<1>3. (a \o bc) \o d = a \o (bc \o d)
  BY <1>1, SMTT(60)
<1> QED
  BY <1>2, <1>3, ZenonT(60) DEF bc

LEMMA Longer ==
  ASSUME NEW a \in Seq(Byte), NEW b \in Seq(Byte), NEW c, c = a \o b
  PROVE  Len(c) = Len(a) + Len(b) /\ Len(a) \in Nat /\ Len(b) \in Nat
  OBVIOUS

LEMMA PieceIs ==
  ASSUME NEW a \in Seq(Byte), NEW b \in Seq(Byte), NEW c \in Seq(Byte),
         NEW s, s = a \o (b \o c)
  PROVE  /\ b = SubSeq(s, Len(a) + 1, Len(a) + Len(b))
         /\ Len(a) \in 0 .. Len(s) /\ Len(a) + Len(b) \in 0 .. Len(s)
  OBVIOUS

LEMMA SplitJoins ==
  ASSUME NEW s \in Seq(Byte), NEW n \in 1 .. Len(s)
  PROVE  SubSeq(s, 1, n) \o SubSeq(s, n + 1, Len(s)) = s
  OBVIOUS

LEMMA StreamsAre ==
  ASSUME NEW requests \in Seq(Requests)
  PROVE  /\ requests \in Seq(Seq(Byte))
         /\ Streams(requests) \in [0 .. Len(requests) -> Seq(Byte)]
         /\ Streams(requests)[0] = << >>
         /\ \A n \in 1 .. Len(requests) :
              Streams(requests)[n] = Streams(requests)[n - 1] \o requests[n]
<1>1. Requests \subseteq Seq(Byte)
  BY ConnectionsAssumption
<1>2. requests \in Seq(Seq(Byte))
  BY <1>1
<1> QED
  BY <1>2, StreamsOfPieces

(* One more request leaves the stream before it as it was *)
LEMMA StreamsOfMore ==
  ASSUME NEW requests \in Seq(Requests), NEW bytes \in Requests
  PROVE  LET more == Append(requests, bytes)
         IN /\ \A n \in 0 .. Len(requests) : Streams(more)[n] = Streams(requests)[n]
            /\ Stream(more) = Stream(requests) \o bytes
<1>1. requests \in Seq(Seq(Byte)) /\ bytes \in Seq(Byte)
  BY StreamsAre, ConnectionsAssumption
<1> QED
  BY <1>1, StreamsOfOneMore

(* The stream grows with every request *)
LEMMA StreamsGrow ==
  ASSUME NEW requests \in Seq(Requests),
         NEW i \in 0 .. Len(requests), NEW j \in i .. Len(requests)
  PROVE  Len(Streams(requests)[i]) <= Len(Streams(requests)[j])
<1> DEFINE N == Len(requests)
           a == Streams(requests)
           longEnough == {n \in 0 .. N : n < i \/ Len(a[i]) <= Len(a[n])}
<1>1. N \in Nat /\ i \in 0 .. N /\ j \in 0 .. N /\ i <= j /\ 0 \in 0 .. N
  OBVIOUS
<1>2. /\ \A n \in 0 .. N : a[n] \in Seq(Byte) /\ Len(a[n]) \in Nat
      /\ \A n \in 1 .. N : a[n] = a[n - 1] \o requests[n]
  <2>1. a \in [0 .. N -> Seq(Byte)] /\ \A n \in 1 .. N : a[n] = a[n - 1] \o requests[n]
    BY StreamsAre
  <2> HIDE DEF a, N
  <2>2. ASSUME NEW n \in 0 .. N
        PROVE  a[n] \in Seq(Byte) /\ Len(a[n]) \in Nat
    <3>1. a[n] \in Seq(Byte)
      BY <2>1
    <3> QED
      BY <3>1
  <2> QED
    BY <2>1, <2>2
<1>3. \A n \in 1 .. N : requests[n] \in Seq(Byte)
  BY ConnectionsAssumption
<1> HIDE DEF a, N
<1>4. 0 \in longEnough
  BY <1>1, <1>2
<1>5. ASSUME NEW n \in 0 .. N - 1, n \in longEnough
      PROVE  n + 1 \in longEnough
  <2>1. n + 1 \in 1 .. N /\ n + 1 \in 0 .. N /\ (n + 1) - 1 = n /\ n \in 0 .. N /\ n \in Nat
    BY <1>1
  <2>2. a[n + 1] = a[n] \o requests[n + 1] /\ requests[n + 1] \in Seq(Byte)
    BY <1>2, <1>3, <2>1
  <2> DEFINE shorter == Len(a[n])
             longer == Len(a[n + 1])
             least == Len(a[i])
  <2>3. shorter \in Nat /\ longer \in Nat /\ least \in Nat /\ shorter <= longer
    <3>1. a[n] \in Seq(Byte) /\ longer \in Nat /\ least \in Nat
      BY <1>1, <1>2, <2>1
    <3>2. /\ longer = shorter + Len(requests[n + 1])
          /\ shorter \in Nat /\ Len(requests[n + 1]) \in Nat
      BY <2>2, <3>1, Longer
    <3> HIDE DEF shorter, longer, least
    <3> QED
      BY <3>1, <3>2
  <2>4. n < i \/ least <= shorter
    BY <1>5
  <2>5. n + 1 < i \/ least <= longer
    <3>1. CASE least <= shorter
      <4> HIDE DEF shorter, longer, least
      <4> QED
        BY <2>3, <3>1
    <3>2. CASE n < i
      <4>1. n + 1 < i \/ n + 1 = i
        BY <1>1, <2>1, <3>2
      <4>2. n + 1 = i => longer = least
        OBVIOUS
      <4> HIDE DEF shorter, longer, least
      <4> QED
        BY <2>3, <4>1, <4>2
    <3> QED
      BY <2>4, <3>1, <3>2
  <2> QED
    BY <2>1, <2>5
<1> HIDE DEF longEnough
<1>6. \A n \in 0 .. N : n \in longEnough
  BY <1>1, <1>4, <1>5, InductionUpTo
<1> QED
  BY <1>1, <1>6 DEF longEnough, a, N

LEMMA EmptyUnanswered == Answer(<< >>) = NoReply
<1>1. ~IsMBAP(<< >>)
  BY DEF IsMBAP
<1>2. RTUAnswer(Units, << >>) = NoReply
  BY DEF RTUAnswer
<1> QED
  BY <1>1, <1>2 DEF Answer

LEMMA SendingsAre ==
  ASSUME NEW requests \in Seq(Requests), Len(requests) <= MaxSent
  PROVE  requests \in Sendings /\ DOMAIN requests = 1 .. Len(requests)
<1>1. Len(requests) \in 0 .. MaxSent /\ requests \in [1 .. Len(requests) -> Requests]
  BY ConnectionsAssumption
<1> QED
  BY <1>1 DEF Sendings

(* f says which request each answer is to; the stream up to these is behind at *)
AnswerOrder(sent, answers, at, f) ==
  /\ f \in [DOMAIN answers -> DOMAIN sent]
  /\ \A i, j \in DOMAIN answers : i < j => f[i] < f[j]
  /\ \A i \in DOMAIN answers : /\ IsPrefix(sent[f[i]], answers[i][1])
                               /\ answers[i][2] = Answer(sent[f[i]])
                               /\ Len(Streams(sent)[f[i]]) <= at

AnswerPairs == {<<bytes, Answer(bytes)>> : bytes \in Seq(Byte)}

Follows(x, before) ==
  /\ Stream(x.sent) = before \o (x.chunk \o x.inbox)
  /\ Unambiguous => \E f : AnswerOrder(x.sent, x.answers, Len(before), f)

(* What was read is kept until it is answered, or found to need no answer *)
ChunkFits(pc, chunk) ==
  /\ pc \notin {"serve", "write"} => chunk = << >>
  /\ pc = "write" => Answer(chunk) # NoReply

Framed(x) ==
  /\ x.sent \in Seq(Requests) /\ Len(x.sent) <= MaxSent
  /\ x.answers \in Seq(AnswerPairs)
  /\ x.chunk \in Seq(Byte) /\ x.inbox \in Seq(Byte)
  /\ ChunkFits(x.pc, x.chunk)
  /\ \E before \in Seq(Byte) : Follows(x, before)

LEMMA NewFramed ==
  ASSUME NEW x, x.pc # "write",
         x.sent = << >>, x.answers = << >>, x.chunk = << >>, x.inbox = << >>
  PROVE  Framed(x)
<1>1. << >> \in Seq(Requests) /\ Len(<< >>) = 0 /\ << >> \in Seq(AnswerPairs) /\ << >> \in Seq(Byte)
  OBVIOUS
<1>2. Stream(<< >>) = << >>
  BY <1>1, StreamsAre DEF Stream
<1>3. AnswerOrder(<< >>, << >>, 0, << >>)
  BY DEF AnswerOrder
<1>4. << >> \o (<< >> \o << >>) = << >>
  BY <1>1, Assoc
<1>5. Follows(x, << >>)
  BY <1>1, <1>2, <1>3, <1>4 DEF Follows
<1>6. 0 <= MaxSent
  BY ConnectionsAssumption
<1> QED
  BY <1>1, <1>5, <1>6 DEF Framed, ChunkFits

LEMMA FramedKept ==
  ASSUME NEW x, NEW y, Framed(x), ChunkFits(y.pc, x.chunk),
         y.sent = x.sent, y.answers = x.answers, y.chunk = x.chunk, y.inbox = x.inbox
  PROVE  Framed(y)
  BY DEF Framed, Follows

LEMMA FramedReads ==
  ASSUME NEW x, NEW y, Framed(x), x.pc = "read", NEW n \in 1 .. Len(x.inbox),
         y.sent = x.sent, y.answers = x.answers, y.pc = "serve",
         y.chunk = SubSeq(x.inbox, 1, n),
         y.inbox = SubSeq(x.inbox, n + 1, Len(x.inbox))
  PROVE  Framed(y)
<1>1. x.chunk = << >> /\ x.inbox \in Seq(Byte)
  BY DEF Framed, ChunkFits
<1>2. y.chunk \in Seq(Byte) /\ y.inbox \in Seq(Byte)
  BY <1>1, Split
<1>3. y.chunk \o y.inbox = x.chunk \o x.inbox
  BY <1>1, SplitJoins, Assoc
<1> QED
  BY <1>2, <1>3 DEF Framed, Follows, ChunkFits

LEMMA FramedSends ==
  ASSUME NEW x, NEW y, Framed(x), NEW bytes \in Requests, Len(x.sent) < MaxSent,
         y.sent = Append(x.sent, bytes), y.answers = x.answers, y.pc = x.pc,
         y.chunk = x.chunk, y.inbox = x.inbox \o bytes
  PROVE  Framed(y)
<1> DEFINE sent == x.sent
           more == Append(sent, bytes)
           n    == Len(sent)
<1>1. /\ sent \in Seq(Requests) /\ n <= MaxSent /\ x.answers \in Seq(AnswerPairs)
      /\ x.chunk \in Seq(Byte) /\ x.inbox \in Seq(Byte)
      /\ ChunkFits(x.pc, x.chunk)
  BY DEF Framed
<1>2. PICK before \in Seq(Byte) : Follows(x, before)
  BY DEF Framed
<1>3. bytes \in Seq(Byte) /\ MaxSent \in Nat
  BY ConnectionsAssumption
<1>4. /\ more \in Seq(Requests) /\ Len(more) = n + 1 /\ n \in Nat
      /\ DOMAIN sent = 1 .. n /\ DOMAIN more = 1 .. n + 1
      /\ \A k \in 1 .. n : more[k] = sent[k]
  BY <1>1
<1>5. /\ \A k \in 0 .. n : Streams(more)[k] = Streams(sent)[k]
      /\ Stream(more) = Stream(sent) \o bytes
  BY <1>1, StreamsOfMore
<1>6. Stream(more) = before \o (x.chunk \o (x.inbox \o bytes))
  <2>1. Stream(sent) = before \o (x.chunk \o x.inbox)
    BY <1>2 DEF Follows
  <2>2. Stream(more) = Stream(sent) \o bytes
    BY <1>5
  <2>3. (before \o (x.chunk \o x.inbox)) \o bytes = before \o (x.chunk \o (x.inbox \o bytes))
    <3>1. /\ before \in Seq(Byte) /\ x.chunk \in Seq(Byte) /\ x.inbox \in Seq(Byte)
          /\ bytes \in Seq(Byte)
      BY <1>1, <1>3
    <3> DEFINE c == x.chunk
               d == x.inbox
    <3> HIDE DEF c, d
    <3> QED
      BY <3>1, AppendDeep, ZenonT(60) DEF c, d
  <2> QED
    BY <2>1, <2>2, <2>3
<1> HIDE DEF sent, more, n
<1>7. ASSUME NEW f, AnswerOrder(sent, x.answers, Len(before), f)
      PROVE  AnswerOrder(more, x.answers, Len(before), f)
  <2>1. f \in [DOMAIN x.answers -> 1 .. n]
    BY <1>4, <1>7 DEF AnswerOrder
  <2>2. f \in [DOMAIN x.answers -> DOMAIN more]
    BY <1>4, <2>1
  <2>3. ASSUME NEW i \in DOMAIN x.answers
        PROVE  more[f[i]] = sent[f[i]] /\ Streams(more)[f[i]] = Streams(sent)[f[i]]
    <3>1. f[i] \in 1 .. n /\ f[i] \in 0 .. n
      BY <1>4, <2>1
    <3> QED
      BY <1>4, <1>5, <3>1
  <2> QED
    BY <1>7, <2>2, <2>3 DEF AnswerOrder
<1>8. Unambiguous => \E f : AnswerOrder(more, x.answers, Len(before), f)
  BY <1>2, <1>7 DEF Follows, sent
<1>9. y.sent = more /\ Len(more) <= MaxSent /\ y.inbox \in Seq(Byte)
  <2>1. n < MaxSent
    BY DEF n, sent
  <2>2. x.inbox \o bytes \in Seq(Byte)
    BY <1>1, <1>3, Assoc
  <2> QED
    BY <1>3, <1>4, <2>1, <2>2 DEF more, sent
<1> QED
  BY <1>1, <1>4, <1>6, <1>8, <1>9 DEF Framed, Follows

(* A request whose stream begins where an answered piece does comes after all  *)
(* that were answered before.                                                   *)
LEMMA ComesAfter ==
  ASSUME NEW requests \in Seq(Requests), NEW k \in 1 .. Len(requests),
         NEW earlier \in 1 .. Len(requests), requests[k] # << >>,
         Len(Streams(requests)[earlier]) <= Len(Streams(requests)[k - 1])
  PROVE  earlier < k
<1> DEFINE N == Len(requests)
           a == Streams(requests)
<1>1. N \in Nat /\ k \in 1 .. N /\ earlier \in 1 .. N /\ k - 1 \in 0 .. N
  OBVIOUS
<1>2. a[k - 1] \in Seq(Byte) /\ a[k] = a[k - 1] \o requests[k] /\ a[earlier] \in Seq(Byte)
  <2>1. /\ a \in [0 .. N -> Seq(Byte)]
        /\ \A n \in 1 .. N : a[n] = a[n - 1] \o requests[n]
    BY StreamsAre
  <2>2. earlier \in 0 .. N
    BY <1>1
  <2> HIDE DEF a, N
  <2> QED
    BY <1>1, <2>1, <2>2
<1>3. requests[k] \in Seq(Byte)
  BY ConnectionsAssumption
<1>4. earlier < k \/ Len(a[k]) <= Len(a[earlier])
  <2>1. earlier < k \/ (k \in 0 .. N /\ earlier \in k .. N)
    BY <1>1
  <2> QED
    BY <2>1, StreamsGrow
<1>5. Len(a[earlier]) <= Len(a[k - 1])
  OBVIOUS
<1> DEFINE to == Len(a[k])
           from == Len(a[k - 1])
           size == Len(requests[k])
           past == Len(a[earlier])
<1>6. to = from + size /\ from \in Nat /\ size \in Nat
  BY <1>2, <1>3, Longer
<1>7. size # 0
  BY <1>3, NotEmpty
<1>8. past \in Nat
  BY <1>2
<1>9. (earlier < k \/ to <= past) /\ past <= from
  BY <1>4, <1>5
<1> HIDE DEF to, from, size, past
<1> QED
  BY <1>6, <1>7, <1>8, <1>9

LEMMA PrefixFits ==
  ASSUME NEW a \in Seq(Byte), NEW b \in Seq(Byte), IsPrefix(a, b)
  PROVE  Len(a) <= Len(b) /\ Len(a) \in Nat /\ Len(b) \in Nat
  BY DEF IsPrefix

(* One more answer, to a later request *)
LEMMA OrderGrows ==
  ASSUME NEW sent \in Seq(Requests), NEW answers \in Seq(AnswerPairs),
         NEW at \in Nat, NEW size \in Nat, NEW f, AnswerOrder(sent, answers, at, f),
         NEW k \in 1 .. Len(sent), NEW answer \in AnswerPairs,
         \A i \in DOMAIN answers : f[i] < k,
         IsPrefix(sent[k], answer[1]), answer[2] = Answer(sent[k]),
         Len(Streams(sent)[k]) <= at + size
  PROVE  \E g : AnswerOrder(sent, Append(answers, answer), at + size, g)
<1> DEFINE n == Len(answers)
           more == Append(answers, answer)
           g == [i \in 1 .. n + 1 |-> IF i = n + 1 THEN k ELSE f[i]]
<1>1. /\ n \in Nat /\ DOMAIN answers = 1 .. n /\ DOMAIN more = 1 .. n + 1
      /\ more[n + 1] = answer /\ \A i \in 1 .. n : more[i] = answers[i]
      /\ DOMAIN sent = 1 .. Len(sent)
  OBVIOUS
<1>2. g[n + 1] = k /\ \A i \in 1 .. n : g[i] = f[i]
  BY <1>1
<1>3. f \in [1 .. n -> DOMAIN sent]
  BY <1>1 DEF AnswerOrder
<1>4. g \in [1 .. n + 1 -> DOMAIN sent]
  BY <1>1, <1>3
<1> HIDE DEF g, more, n
<1>5. \A i \in 1 .. n + 1 : i \in 1 .. n \/ i = n + 1
  BY <1>1
<1>6. ASSUME NEW i \in 1 .. n + 1, NEW j \in 1 .. n + 1, i < j
      PROVE  g[i] < g[j]
  <2>1. i \in 1 .. n
    BY <1>1, <1>6
  <2>2. CASE j = n + 1
    BY <1>1, <1>2, <2>1, <2>2
  <2>3. CASE j \in 1 .. n
    BY <1>1, <1>2, <1>6, <2>1, <2>3 DEF AnswerOrder
  <2> QED
    BY <1>5, <2>2, <2>3
<1>7. ASSUME NEW i \in 1 .. n + 1
      PROVE  /\ IsPrefix(sent[g[i]], more[i][1])
             /\ more[i][2] = Answer(sent[g[i]])
             /\ Len(Streams(sent)[g[i]]) <= at + size
  <2>1. CASE i = n + 1
    BY <1>1, <1>2, <2>1
  <2>2. CASE i \in 1 .. n
    <3>1. /\ IsPrefix(sent[f[i]], answers[i][1]) /\ answers[i][2] = Answer(sent[f[i]])
          /\ Len(Streams(sent)[f[i]]) <= at
      BY <1>1, <2>2 DEF AnswerOrder
    <3>2. Len(Streams(sent)[f[i]]) \in Nat
      <4>1. f[i] \in 0 .. Len(sent)
        BY <1>1, <1>3, <2>2
      <4>2. Streams(sent)[f[i]] \in Seq(Byte)
        BY <4>1, StreamsAre
      <4> QED
        BY <4>2
    <3>3. Len(Streams(sent)[f[i]]) <= at + size
      <4> DEFINE len == Len(Streams(sent)[f[i]])
      <4>1. len \in Nat /\ len <= at
        BY <3>1, <3>2
      <4> HIDE DEF len
      <4>2. len <= at + size
        BY <4>1
      <4> QED
        BY <4>2 DEF len
    <3> QED
      BY <1>1, <1>2, <2>2, <3>1, <3>3
  <2> QED
    BY <1>5, <2>1, <2>2
<1>8. AnswerOrder(sent, more, at + size, g)
  BY <1>1, <1>4, <1>6, <1>7 DEF AnswerOrder
<1> QED
  BY <1>8 DEF more

(* The bytes are behind, whatever else is *)
LEMMA LaterOrder ==
  ASSUME NEW sent \in Seq(Requests), NEW answers, NEW before \in Seq(Byte),
         NEW chunk \in Seq(Byte), NEW at, at = Len(before) + Len(chunk),
         NEW f, AnswerOrder(sent, answers, Len(before), f)
  PROVE  AnswerOrder(sent, answers, at, f)
<1> SUFFICES ASSUME NEW i \in DOMAIN answers
             PROVE  Len(Streams(sent)[f[i]]) <= at
  BY DEF AnswerOrder
<1>1. Len(Streams(sent)[f[i]]) <= Len(before) /\ f[i] \in 1 .. Len(sent)
  BY DEF AnswerOrder
<1>2. f[i] \in 0 .. Len(sent)
  BY <1>1
<1>3. Streams(sent)[f[i]] \in Seq(Byte)
  BY <1>2, StreamsAre
<1> DEFINE len == Len(Streams(sent)[f[i]])
           from == Len(before)
           size == Len(chunk)
<1>4. len \in Nat /\ from \in Nat /\ size \in Nat /\ len <= from /\ at = from + size
  BY <1>1, <1>3
<1> HIDE DEF len, from, size
<1>5. len <= at
  BY <1>4
<1> QED
  BY <1>5 DEF len

(* An answer is to the request its bytes begin with, the first not yet behind *)
LEMMA OrderServed ==
  ASSUME NEW sent \in Seq(Requests), Len(sent) <= MaxSent, NEW answers \in Seq(AnswerPairs),
         NEW before \in Seq(Byte), NEW chunk \in Seq(Byte), NEW inbox \in Seq(Byte),
         Stream(sent) = before \o (chunk \o inbox), Answer(chunk) # NoReply,
         NEW f, AnswerOrder(sent, answers, Len(before), f), Unambiguous
  PROVE  \E g : AnswerOrder(sent, Append(answers, <<chunk, Answer(chunk)>>),
                            Len(before) + Len(chunk), g)
<1> DEFINE stream == Stream(sent)
           at   == Len(before)
           size == Len(chunk)
<1>1. /\ chunk = SubSeq(stream, at + 1, at + size)
      /\ at \in 0 .. Len(stream) /\ at + size \in 0 .. Len(stream)
  <2> HIDE DEF stream
  <2>1. stream = before \o (chunk \o inbox)
    BY DEF stream
  <2> QED
    BY <2>1, PieceIs
<1>2. sent \in Sendings /\ DOMAIN sent = 1 .. Len(sent)
  BY SendingsAre
<1>3. PICK k \in DOMAIN sent : /\ Len(Streams(sent)[k - 1]) = at
                               /\ IsPrefix(sent[k], chunk)
                               /\ Answer(chunk) = Answer(sent[k])
  <2>1. Unambiguous
    OBVIOUS
  <2> HIDE DEF stream, at, size
  <2>2. \A i, j \in 0 .. Len(stream) :
          Answer(SubSeq(stream, i + 1, j)) # NoReply =>
            \E k \in DOMAIN sent : /\ Len(Streams(sent)[k - 1]) = i
                                   /\ IsPrefix(sent[k], SubSeq(stream, i + 1, j))
                                   /\ Answer(SubSeq(stream, i + 1, j)) = Answer(sent[k])
    BY <1>2, <2>1 DEF Unambiguous, stream
  <2> QED
    BY <1>1, <2>2
<1>4. /\ k \in 1 .. Len(sent) /\ k \in Nat /\ k - 1 \in 0 .. Len(sent)
      /\ sent[k] \in Seq(Byte) /\ sent[k] # << >>
  <2>1. k \in 1 .. Len(sent)
    BY <1>2
  <2>2. sent[k] \in Seq(Byte)
    BY <2>1, ConnectionsAssumption
  <2>3. sent[k] # << >>
    BY <1>3, EmptyUnanswered
  <2> QED
    BY <2>1, <2>2, <2>3
<1>5. ASSUME NEW i \in DOMAIN answers
      PROVE  f[i] < k
  <2>1. f[i] \in 1 .. Len(sent) /\ Len(Streams(sent)[f[i]]) <= Len(Streams(sent)[k - 1])
    BY <1>2, <1>3 DEF AnswerOrder
  <2> QED
    BY <1>4, <2>1, ComesAfter
<1>6. Len(Streams(sent)[k]) <= at + size
  <2>1. /\ Streams(sent)[k] = Streams(sent)[k - 1] \o sent[k]
        /\ Streams(sent)[k - 1] \in Seq(Byte)
    BY <1>4, StreamsAre
  <2> DEFINE len == Len(Streams(sent)[k])
             new == Len(sent[k])
             from == Len(Streams(sent)[k - 1])
  <2>2. len = from + new /\ from \in Nat /\ new \in Nat
    BY <1>4, <2>1, Longer
  <2>3. new <= size /\ size \in Nat
    BY <1>3, <1>4, PrefixFits
  <2>4. from = at
    BY <1>3
  <2> HIDE DEF len, new, from, at, size
  <2>5. len <= at + size
    BY <2>2, <2>3, <2>4
  <2> QED
    BY <2>5 DEF len
<1> DEFINE answer == <<chunk, Answer(chunk)>>
<1>7. answer \in AnswerPairs /\ answer[1] = chunk /\ answer[2] = Answer(sent[k])
  BY <1>3 DEF AnswerPairs
<1>8. at \in Nat /\ size \in Nat /\ AnswerOrder(sent, answers, at, f) /\ IsPrefix(sent[k], answer[1])
  BY <1>3, <1>7
<1> HIDE DEF at, size, answer
<1>9. \E g : AnswerOrder(sent, Append(answers, answer), at + size, g)
  BY <1>4, <1>5, <1>6, <1>7, <1>8, OrderGrows
<1> QED
  BY <1>9 DEF at, size, answer

LEMMA FramedServed ==
  ASSUME NEW x, NEW y, Framed(x), y.pc = "check",
         y.sent = x.sent, y.inbox = x.inbox, y.chunk = << >>,
         y.answers = IF Answer(x.chunk) = NoReply THEN x.answers
                     ELSE Append(x.answers, <<x.chunk, Answer(x.chunk)>>)
  PROVE  Framed(y)
<1> DEFINE sent == x.sent
           answers == x.answers
           chunk == x.chunk
           inbox == x.inbox
<1>1. /\ sent \in Seq(Requests) /\ Len(sent) <= MaxSent /\ answers \in Seq(AnswerPairs)
      /\ chunk \in Seq(Byte) /\ inbox \in Seq(Byte)
  BY DEF Framed
<1>2. PICK before \in Seq(Byte) :
        /\ Stream(sent) = before \o (chunk \o inbox)
        /\ Unambiguous => \E f : AnswerOrder(sent, answers, Len(before), f)
  BY DEF Framed, Follows
<1>3. /\ y.sent = sent /\ y.inbox = inbox
      /\ y.answers = IF Answer(chunk) = NoReply THEN answers
                     ELSE Append(answers, <<chunk, Answer(chunk)>>)
  OBVIOUS
<1> HIDE DEF sent, answers, chunk, inbox
<1> DEFINE now == before \o chunk
<1>4. now \in Seq(Byte) /\ Len(now) = Len(before) + Len(chunk)
  BY <1>1, Assoc
<1>5. Stream(sent) = now \o (<< >> \o inbox)
  <2>1. (before \o chunk) \o inbox = before \o (chunk \o inbox) /\ << >> \o inbox = inbox
    BY <1>1, Assoc, SMTT(60)
  <2> QED
    BY <1>2, <2>1
<1>6. y.answers \in Seq(AnswerPairs)
  <2> DEFINE answer == <<chunk, Answer(chunk)>>
  <2>1. answer \in AnswerPairs
    BY <1>1 DEF AnswerPairs
  <2>2. y.answers = answers \/ y.answers = Append(answers, answer)
    BY <1>3
  <2> HIDE DEF answer
  <2>3. Append(answers, answer) \in Seq(AnswerPairs)
    BY <1>1, <2>1
  <2> QED
    BY <1>1, <2>2, <2>3
<1>7. ASSUME Unambiguous
      PROVE  \E g : AnswerOrder(sent, y.answers, Len(now), g)
  <2>1. PICK f : AnswerOrder(sent, answers, Len(before), f)
    BY <1>2, <1>7
  <2>2. CASE Answer(chunk) # NoReply
    <3>1. \E g : AnswerOrder(sent, Append(answers, <<chunk, Answer(chunk)>>),
                             Len(before) + Len(chunk), g)
      BY <1>1, <1>2, <1>7, <2>1, <2>2, OrderServed
    <3> QED
      BY <1>3, <1>4, <2>2, <3>1
  <2>3. CASE Answer(chunk) = NoReply
    <3>1. AnswerOrder(sent, answers, Len(now), f)
      BY <1>1, <1>4, <2>1, LaterOrder
    <3> QED
      BY <1>3, <2>3, <3>1
  <2> QED
    BY <2>2, <2>3
<1>8. Follows(y, now)
  <2>1. Stream(y.sent) = now \o (y.chunk \o y.inbox)
    BY <1>3, <1>5
  <2> QED
    BY <1>3, <1>7, <2>1 DEF Follows
<1>9. /\ y.sent \in Seq(Requests) /\ Len(y.sent) <= MaxSent
      /\ y.chunk \in Seq(Byte) /\ y.inbox \in Seq(Byte)
  BY <1>1, <1>3
<1> QED
  BY <1>4, <1>6, <1>8, <1>9 DEF Framed, ChunkFits

-----------------------------------------------------------------------------
(* Every connection is framed, whichever steps are taken *)
FramedInv == Inv /\ \A c \in Conns : Framed(conns[c])

LEMMA FramedConn ==
  ASSUME FramedInv, NEW c \in Conns, NEW y, conns' = [conns EXCEPT ![c] = y], Framed(y)
  PROVE  \A d \in Conns : Framed(conns'[d])
<1>1. DOMAIN conns = Conns
  BY DEF FramedInv, Inv, TypeOK
<1>2. ASSUME NEW d \in Conns
      PROVE  conns'[d] = y \/ conns'[d] = conns[d]
  BY <1>1
<1>3. ASSUME NEW d \in Conns
      PROVE  Framed(conns'[d])
  BY <1>2, <1>3 DEF FramedInv
<1> QED
  BY <1>3

LEMMA FramedGoes ==
  ASSUME FramedInv, NEW c \in Conns, NEW pc, Goes(c, pc), ChunkFits(pc, conns[c].chunk)
  PROVE  \A d \in Conns : Framed(conns'[d])
<1> DEFINE x == conns[c]
           y == [x EXCEPT !.pc = pc]
<1>1. ConnTyped(x, listeners) /\ Framed(x) /\ ChunkFits(pc, x.chunk)
  BY DEF FramedInv, Inv, TypeOK
<1>2. conns' = [conns EXCEPT ![c] = y]
  BY DEF Goes
<1> HIDE DEF x
<1>3. /\ y.sent = x.sent /\ y.answers = x.answers /\ y.pc = pc
      /\ y.chunk = x.chunk /\ y.inbox = x.inbox
  BY <1>1, FieldsOfConn DEF ConnTyped
<1> HIDE DEF y
<1>4. Framed(y)
  BY <1>1, <1>3, FramedKept
<1> QED
  BY <1>2, <1>4, FramedConn

LEMMA FramedDial ==
  ASSUME FramedInv, NEW c \in Conns, NEW l, Dial(c, l)
  PROVE  \A d \in Conns : Framed(conns'[d])
<1> DEFINE y == [NoConn EXCEPT !.pc = "queued", !.listener = l]
<1>1. /\ y.sent = << >> /\ y.answers = << >> /\ y.pc = "queued"
      /\ y.chunk = << >> /\ y.inbox = << >>
  BY DEF NoConn
<1>2. conns' = [conns EXCEPT ![c] = y]
  BY DEF Dial
<1> HIDE DEF y
<1>3. Framed(y)
  BY <1>1, NewFramed
<1> QED
  BY <1>2, <1>3, FramedConn

LEMMA FramedSend ==
  ASSUME FramedInv, NEW c \in Conns, NEW bytes \in Requests, Send(c, bytes)
  PROVE  \A d \in Conns : Framed(conns'[d])
<1> DEFINE x == conns[c]
           i == x.inbox \o bytes
           s == Append(x.sent, bytes)
           y == [x EXCEPT !.inbox = i, !.sent = s]
<1>1. ConnTyped(x, listeners) /\ Framed(x) /\ Len(x.sent) < MaxSent
  BY DEF FramedInv, Inv, TypeOK, Send
<1>2. conns' = [conns EXCEPT ![c] = y]
  BY DEF Send
<1> HIDE DEF x, i, s
<1>3. /\ y.sent = s /\ y.answers = x.answers /\ y.pc = x.pc
      /\ y.chunk = x.chunk /\ y.inbox = i
  BY <1>1, FieldsOfConn DEF ConnTyped
<1> HIDE DEF y
<1>4. Framed(y)
  BY <1>1, <1>3, FramedSends DEF i, s
<1> QED
  BY <1>2, <1>4, FramedConn

LEMMA FramedRead ==
  ASSUME FramedInv, NEW c \in Conns, Read(c)
  PROVE  \A d \in Conns : Framed(conns'[d])
<1> DEFINE x == conns[c]
<1>1. ConnTyped(x, listeners) /\ Framed(x) /\ x.pc = "read"
  BY DEF FramedInv, Inv, TypeOK, Read, At
<1>2. PICK n \in Cut(x.inbox) :
        conns' = [conns EXCEPT ![c] =
                    [x EXCEPT !.pc = "serve", !.chunk = SubSeq(x.inbox, 1, n),
                              !.inbox = SubSeq(x.inbox, n + 1, Len(x.inbox))]]
  BY DEF Read
<1>3. n \in 1 .. Len(x.inbox)
  BY <1>1, CutIs DEF ConnTyped
<1> DEFINE h == SubSeq(x.inbox, 1, n)
           i == SubSeq(x.inbox, n + 1, Len(x.inbox))
           y == [x EXCEPT !.pc = "serve", !.chunk = h, !.inbox = i]
<1>4. conns' = [conns EXCEPT ![c] = y]
  BY <1>2
<1> HIDE DEF x, h, i
<1>5. /\ y.sent = x.sent /\ y.answers = x.answers /\ y.pc = "serve"
      /\ y.chunk = h /\ y.inbox = i
  BY <1>1, FieldsOfConn DEF ConnTyped
<1> HIDE DEF y
<1>6. Framed(y)
  BY <1>1, <1>3, <1>5, FramedReads DEF h, i
<1> QED
  BY <1>4, <1>6, FramedConn

(* A step that leaves the stream alone *)
LEMMA FramedClient ==
  ASSUME FramedInv, NEW c \in Conns, ClientReads(c) \/ Leave(c)
  PROVE  \A d \in Conns : Framed(conns'[d])
<1> DEFINE x == conns[c]
<1>1. ConnTyped(x, listeners) /\ Framed(x)
  BY DEF FramedInv, Inv, TypeOK
<1>2. ASSUME NEW y, conns' = [conns EXCEPT ![c] = y], y.pc = x.pc, y.sent = x.sent,
             y.answers = x.answers, y.chunk = x.chunk, y.inbox = x.inbox
      PROVE  \A d \in Conns : Framed(conns'[d])
  <2>1. ChunkFits(y.pc, x.chunk)
    BY <1>1, <1>2 DEF Framed
  <2> HIDE DEF x
  <2>2. Framed(y)
    BY <1>1, <1>2, <2>1, FramedKept
  <2> QED
    BY <1>2, <2>2, FramedConn
<1>3. CASE ClientReads(c)
  <2> DEFINE y == [x EXCEPT !.unread = x.unread - 1]
  <2>1. conns' = [conns EXCEPT ![c] = y]
    BY <1>3 DEF ClientReads
  <2>2. /\ y.pc = x.pc /\ y.sent = x.sent /\ y.answers = x.answers
        /\ y.chunk = x.chunk /\ y.inbox = x.inbox
    <3> HIDE DEF x
    <3> QED
      BY <1>1, FieldsOfConn DEF ConnTyped
  <2> QED
    BY <1>2, <2>1, <2>2
<1>4. CASE Leave(c)
  <2> DEFINE y == [x EXCEPT !.client = "gone", !.unread = 0]
  <2>1. conns' = [conns EXCEPT ![c] = y]
    BY <1>4 DEF Leave
  <2>2. /\ y.pc = x.pc /\ y.sent = x.sent /\ y.answers = x.answers
        /\ y.chunk = x.chunk /\ y.inbox = x.inbox
    <3> HIDE DEF x
    <3> QED
      BY <1>1, FieldsOfConn DEF ConnTyped
  <2> QED
    BY <1>2, <2>1, <2>2
<1> QED
  BY <1>3, <1>4

LEMMA FramedServe ==
  ASSUME FramedInv, NEW c \in Conns, Serve(c)
  PROVE  \A d \in Conns : Framed(conns'[d])
<1> DEFINE x == conns[c]
<1>1. ConnTyped(x, listeners) /\ Framed(x)
  BY DEF FramedInv, Inv, TypeOK
<1>2. CASE Answer(x.chunk) = NoReply
  <2> DEFINE y == [x EXCEPT !.pc = "check", !.chunk = << >>]
  <2>1. conns' = [conns EXCEPT ![c] = y]
    BY <1>2 DEF Serve
  <2> HIDE DEF x
  <2>2. /\ y.sent = x.sent /\ y.answers = x.answers /\ y.pc = "check"
        /\ y.chunk = << >> /\ y.inbox = x.inbox
    BY <1>1, FieldsOfConn DEF ConnTyped
  <2> HIDE DEF y
  <2>3. Framed(y)
    BY <1>1, <1>2, <2>2, FramedServed
  <2> QED
    BY <2>1, <2>3, FramedConn
<1>3. CASE Answer(x.chunk) # NoReply
  <2> DEFINE y == [x EXCEPT !.pc = "write", !.chunk = x.chunk]
  <2>1. conns' = [conns EXCEPT ![c] = y]
    BY <1>3 DEF Serve
  <2> HIDE DEF x
  <2>2. /\ y.sent = x.sent /\ y.answers = x.answers /\ y.pc = "write"
        /\ y.chunk = x.chunk /\ y.inbox = x.inbox
    BY <1>1, FieldsOfConn DEF ConnTyped
  <2> HIDE DEF y
  <2>3. ChunkFits(y.pc, x.chunk)
    BY <1>3, <2>2 DEF ChunkFits
  <2>4. Framed(y)
    BY <1>1, <2>2, <2>3, FramedKept
  <2> QED
    BY <2>1, <2>4, FramedConn
<1> QED
  BY <1>2, <1>3

LEMMA FramedWrite ==
  ASSUME FramedInv, NEW c \in Conns, Write(c)
  PROVE  \A d \in Conns : Framed(conns'[d])
<1> DEFINE x == conns[c]
           a == Append(x.answers, <<x.chunk, Answer(x.chunk)>>)
           unread == IF x.client = "here" THEN x.unread + 1 ELSE x.unread
           late == IF listeners[x.listener].open THEN x.late ELSE x.late + 1
           y == [x EXCEPT !.pc = "check", !.chunk = << >>, !.answers = a,
                          !.unread = unread, !.late = late]
<1>1. ConnTyped(x, listeners) /\ Framed(x) /\ x.pc = "write"
  BY DEF FramedInv, Inv, TypeOK, Write, At
<1>2. conns' = [conns EXCEPT ![c] = y]
  BY DEF Write, Answered
<1>3. Answer(x.chunk) # NoReply
  BY <1>1 DEF Framed, ChunkFits
<1> HIDE DEF x, a, unread, late
<1>4. /\ y.sent = x.sent /\ y.answers = a /\ y.pc = "check"
      /\ y.chunk = << >> /\ y.inbox = x.inbox
  BY <1>1, FieldsOfConn DEF ConnTyped
<1> HIDE DEF y
<1>5. Framed(y)
  BY <1>1, <1>3, <1>4, FramedServed DEF a
<1> QED
  BY <1>2, <1>5, FramedConn

LEMMA FramedInit == Init => FramedInv
<1> SUFFICES ASSUME Init
             PROVE  FramedInv
  OBVIOUS
<1>1. Framed(NoConn)
  BY NewFramed DEF NoConn
<1>2. \A c \in Conns : conns[c] = NoConn
  BY DEF Init
<1> QED
  BY <1>1, <1>2, InitHolds DEF FramedInv

LEMMA FramedStep == FramedInv /\ [Next]_vars => FramedInv'
<1> SUFFICES ASSUME FramedInv, [Next]_vars
             PROVE  \A d \in Conns : Framed(conns'[d])
  BY StepHolds DEF FramedInv
<1>1. CASE conns' = conns
  BY <1>1 DEF FramedInv
<1>2. ASSUME NEW c \in Conns, NEW l \in DOMAIN listeners, Dial(c, l)
      PROVE  \A d \in Conns : Framed(conns'[d])
  BY <1>2, FramedDial
<1>3. ASSUME NEW c \in Conns, Refused(c) \/ Accept(c) \/ CheckContext(c) \/ ReadEnds(c)
      PROVE  \A d \in Conns : Framed(conns'[d])
  <2>1. /\ conns[c].pc \in {"queued", "check", "read"}
        /\ \E pc \in {"closed", "check", "read"} : Goes(c, pc)
    BY <1>3 DEF Refused, Accept, CheckContext, ReadEnds, At
  <2>2. \A pc \in {"closed", "check", "read"} : ChunkFits(pc, conns[c].chunk)
    BY <2>1 DEF FramedInv, Framed, ChunkFits
  <2> QED
    BY <2>1, <2>2, FramedGoes
<1>4. ASSUME NEW c \in Conns, Read(c)
      PROVE  \A d \in Conns : Framed(conns'[d])
  BY <1>4, FramedRead
<1>5. ASSUME NEW c \in Conns, Serve(c)
      PROVE  \A d \in Conns : Framed(conns'[d])
  BY <1>5, FramedServe
<1>6. ASSUME NEW c \in Conns, NEW bytes \in Requests, Send(c, bytes)
      PROVE  \A d \in Conns : Framed(conns'[d])
  BY <1>6, FramedSend
<1>7. ASSUME NEW c \in Conns, ClientReads(c) \/ Leave(c)
      PROVE  \A d \in Conns : Framed(conns'[d])
  BY <1>7, FramedClient
<1>8. ASSUME NEW c \in Conns, Write(c)
      PROVE  \A d \in Conns : Framed(conns'[d])
  BY <1>8, FramedWrite
<1>9. CASE Start \/ (\E addr \in Addrs \cup {Disabled} : Update(addr))
           \/ (\E l \in DOMAIN listeners : AcceptError(l))
  BY <1>1, <1>9 DEF Start, Update, AcceptError
<1>10. CASE UNCHANGED vars
  BY <1>1, <1>10 DEF vars
<1> QED
  BY <1>2, <1>3, <1>4, <1>5, <1>6, <1>7, <1>8, <1>9, <1>10 DEF Next, Handle

LEMMA FramedHolds == Spec => []FramedInv
  BY FramedInit, FramedStep, PTL DEF Spec

(* Every answer is to a request the client sent, in the order it sent them, and *)
(* none is answered twice, for any requests that leave no doubt: however many   *)
(* clients send them, and wherever the network cuts and joins what they send.   *)
THEOREM AnswersKeepOrder == ASSUME Unambiguous PROVE Spec => []AnswersAreInOrder
<1>1. FramedInv => AnswersAreInOrder
  <2> SUFFICES ASSUME FramedInv, NEW c \in Conns
               PROVE  \E f \in [DOMAIN conns[c].answers -> DOMAIN conns[c].sent] :
                        /\ \A i, j \in DOMAIN conns[c].answers : i < j => f[i] < f[j]
                        /\ \A i \in DOMAIN conns[c].answers :
                             /\ IsPrefix(conns[c].sent[f[i]], conns[c].answers[i][1])
                             /\ conns[c].answers[i][2] = AnswerTo[conns[c].sent[f[i]]]
    BY DEF AnswersAreInOrder
  <2>1. PICK before \in Seq(Byte) : Follows(conns[c], before)
    BY DEF FramedInv, Framed
  <2>2. PICK f : AnswerOrder(conns[c].sent, conns[c].answers, Len(before), f)
    BY <2>1 DEF Follows
  <2>3. ASSUME NEW i \in DOMAIN conns[c].answers
        PROVE  AnswerTo[conns[c].sent[f[i]]] = Answer(conns[c].sent[f[i]])
    <3>1. conns[c].sent \in Seq(Requests) /\ f[i] \in DOMAIN conns[c].sent
      BY <2>2 DEF AnswerOrder, FramedInv, Framed
    <3>2. conns[c].sent[f[i]] \in Requests
      BY <3>1
    <3> QED
      BY <3>2 DEF AnswerTo
  <2> QED
    BY <2>2, <2>3 DEF AnswerOrder
<1> QED
  BY <1>1, FramedHolds, PTL
=============================================================================
