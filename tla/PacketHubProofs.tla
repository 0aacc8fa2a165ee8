--------------------------- MODULE PacketHubProofs ----------------------------
(* What holds of the packet log's way to the browsers for any number of         *)
(* browsers and exchanges, and any room in the network: it is a PacketFeed, and *)
(* no broadcast writes to a connection that was closed.                         *)
EXTENDS PacketHub, TLAPS

-----------------------------------------------------------------------------
(* What an exchange has still to do, against what it has published *)

Scripts ==
  {<<"rx", "write", "tx">>, <<"write", "tx">>, <<"tx">>, <<"rx", "tx", "write">>,
   <<"tx", "write">>, <<"write">>, <<"rx">>, << >>}

TxLeft(s) == s \in {<<"write", "tx">>, <<"tx">>, <<"tx", "write">>}
AtRx(s)   == s # << >> /\ Head(s) = "rx"

Has(f, e, d) == \E i \in DOMAIN f : f[i] = <<e, d>>

(* s: what is left to do; held: the exchange is publishing the first of it *)
ScriptOK(s, held, f, e) ==
  /\ s \in Scripts
  /\ held => s # << >> /\ Head(s) \in {"rx", "tx"}
  /\ AtRx(s) => (Has(f, e, "rx") <=> held) /\ ~Has(f, e, "tx")
  /\ TxLeft(s) => Has(f, e, "rx") /\ (Has(f, e, "tx") <=> held)

LEMMA ScriptCases ==
  ASSUME NEW s \in Scripts
  PROVE  \/ s = << >>
         \/ /\ s # << >> /\ Head(s) = "rx" /\ ~TxLeft(s)
            /\ Tail(s) \in Scripts /\ ~AtRx(Tail(s))
         \/ /\ s # << >> /\ Head(s) = "tx" /\ TxLeft(s)
            /\ Tail(s) \in {<< >>, <<"write">>}
         \/ s # << >> /\ Head(s) = "write" /\ s = <<"write", "tx">> /\ Tail(s) = <<"tx">>
         \/ s # << >> /\ Head(s) = "write" /\ s = <<"write">> /\ Tail(s) = << >>
<1>1. CASE s = <<"rx", "write", "tx">>
  <2>1. s # << >> /\ Head(s) = "rx" /\ Tail(s) = <<"write", "tx">>
    BY <1>1
  <2>2. ~TxLeft(s)
    BY <1>1 DEF TxLeft
  <2> QED
    BY <2>1, <2>2 DEF Scripts, AtRx
<1>2. CASE s = <<"rx", "tx", "write">>
  <2>1. s # << >> /\ Head(s) = "rx" /\ Tail(s) = <<"tx", "write">>
    BY <1>2
  <2>2. ~TxLeft(s)
    BY <1>2 DEF TxLeft
  <2> QED
    BY <2>1, <2>2 DEF Scripts, AtRx
<1>3. CASE s = <<"rx">>
  <2>1. s # << >> /\ Head(s) = "rx" /\ Tail(s) = << >>
    BY <1>3
  <2>2. ~TxLeft(s)
    BY <1>3 DEF TxLeft
  <2> QED
    BY <2>1, <2>2 DEF Scripts, AtRx
<1>4. CASE s = <<"write", "tx">>
  BY <1>4
<1>5. CASE s = <<"tx">>
  BY <1>5 DEF TxLeft
<1>6. CASE s = <<"tx", "write">>
  BY <1>6 DEF TxLeft
<1>7. CASE s = <<"write">>
  BY <1>7
<1>8. CASE s = << >>
  BY <1>8
<1> QED
  BY <1>1, <1>2, <1>3, <1>4, <1>5, <1>6, <1>7, <1>8 DEF Scripts

LEMMA LittleLeft ==
  /\ << >> \in Scripts /\ ~AtRx(<< >>) /\ ~TxLeft(<< >>)
  /\ <<"write">> \in Scripts /\ ~AtRx(<<"write">>) /\ ~TxLeft(<<"write">>)
  /\ <<"tx">> \in Scripts /\ ~AtRx(<<"tx">>) /\ TxLeft(<<"tx">>)
  /\ TxLeft(<<"write", "tx">>)
  BY DEF Scripts, TxLeft, AtRx

LEMMA ScriptsTyped == Scripts \subseteq Seq({"rx", "tx", "write"})
  BY DEF Scripts

LEMMA AppendHas ==
  ASSUME NEW S, NEW f \in Seq(S), NEW p \in S, NEW e, NEW d
  PROVE  Has(Append(f, p), e, d) <=> Has(f, e, d) \/ p = <<e, d>>
<1>1. /\ DOMAIN f = 1 .. Len(f) /\ Len(f) \in Nat
      /\ DOMAIN Append(f, p) = 1 .. Len(f) + 1
      /\ \A i \in 1 .. Len(f) : Append(f, p)[i] = f[i]
      /\ Append(f, p)[Len(f) + 1] = p
  OBVIOUS
<1>2. ASSUME Has(f, e, d) PROVE Has(Append(f, p), e, d)
  <2>1. PICK i \in 1 .. Len(f) : f[i] = <<e, d>>
    BY <1>1, <1>2 DEF Has
  <2> QED
    BY <1>1, <2>1 DEF Has
<1>3. ASSUME p = <<e, d>> PROVE Has(Append(f, p), e, d)
  BY <1>1, <1>3 DEF Has
<1>4. ASSUME Has(Append(f, p), e, d), ~Has(f, e, d) PROVE p = <<e, d>>
  <2>1. PICK i \in 1 .. Len(f) + 1 : Append(f, p)[i] = <<e, d>>
    BY <1>1, <1>4 DEF Has
  <2>2. i \notin 1 .. Len(f)
    BY <1>1, <1>4, <2>1 DEF Has
  <2>3. i = Len(f) + 1
    BY <1>1, <2>2
  <2> QED
    BY <1>1, <2>1, <2>3
<1> QED
  BY <1>2, <1>3, <1>4

(* The steps of an exchange *)
LEMMA ScriptPublishes ==
  ASSUME NEW S, NEW f \in Seq(S), NEW e, NEW s, NEW d \in {"rx", "tx"},
         <<e, d>> \in S, ScriptOK(s, FALSE, f, e), s # << >>, Head(s) = d
  PROVE  /\ ScriptOK(s, TRUE, Append(f, <<e, d>>), e)
         /\ ~Has(f, e, d)
         /\ d = "tx" => Has(f, e, "rx")
<1>1. s \in Scripts
  BY DEF ScriptOK
<1>2. \A x \in {"rx", "tx"} : Has(Append(f, <<e, d>>), e, x) <=> Has(f, e, x) \/ d = x
  BY AppendHas
<1>3. CASE d = "rx"
  <2>1. AtRx(s) /\ ~TxLeft(s)
    BY <1>1, <1>3, ScriptCases DEF AtRx
  <2> QED
    BY <1>1, <1>2, <1>3, <2>1 DEF ScriptOK
<1>4. CASE d = "tx"
  <2>1. ~AtRx(s) /\ TxLeft(s)
    BY <1>1, <1>4, ScriptCases DEF AtRx
  <2> QED
    BY <1>1, <1>2, <1>4, <2>1 DEF ScriptOK
<1> QED
  BY <1>3, <1>4

LEMMA ScriptFinishes ==
  ASSUME NEW s, NEW f, NEW e, ScriptOK(s, TRUE, f, e)
  PROVE  ScriptOK(Tail(s), FALSE, f, e)
<1>1. s \in Scripts /\ s # << >> /\ Head(s) \in {"rx", "tx"}
  BY DEF ScriptOK
<1>2. CASE Head(s) = "rx"
  <2>1. Tail(s) \in Scripts /\ ~AtRx(Tail(s)) /\ AtRx(s)
    BY <1>1, <1>2, ScriptCases DEF AtRx
  <2>2. Has(f, e, "rx") /\ ~Has(f, e, "tx")
    BY <2>1 DEF ScriptOK
  <2> QED
    BY <2>1, <2>2 DEF ScriptOK
<1>3. CASE Head(s) = "tx"
  <2>1. Tail(s) \in {<< >>, <<"write">>}
    BY <1>1, <1>3, ScriptCases
  <2> QED
    BY <2>1, LittleLeft DEF ScriptOK
<1> QED
  BY <1>1, <1>2, <1>3

LEMMA ScriptWrites ==
  ASSUME NEW s, NEW f, NEW e, NEW held \in BOOLEAN, ScriptOK(s, held, f, e),
         s # << >>, Head(s) = "write"
  PROVE  ~held /\ ScriptOK(Tail(s), FALSE, f, e)
<1>1. s \in Scripts /\ ~held
  BY DEF ScriptOK
<1>2. CASE s = <<"write", "tx">>
  <2>1. Tail(s) = <<"tx">> /\ TxLeft(s)
    BY <1>2, LittleLeft
  <2>2. Has(f, e, "rx") /\ ~Has(f, e, "tx")
    BY <1>1, <2>1 DEF ScriptOK
  <2> QED
    BY <1>1, <2>1, <2>2, LittleLeft DEF ScriptOK
<1>3. CASE s = <<"write">>
  <2>1. Tail(s) = << >>
    BY <1>3
  <2> QED
    BY <1>1, <2>1, LittleLeft DEF ScriptOK
<1> QED
  BY <1>1, <1>2, <1>3, ScriptCases

LEMMA ScriptEnds ==
  ASSUME NEW f, NEW e
  PROVE  ScriptOK(<< >>, FALSE, f, e)
  BY LittleLeft DEF ScriptOK

-----------------------------------------------------------------------------
(* What a browser has been shown and what is on its way to it: packets up to n, *)
(* in their order                                                               *)

ViewOK(v, q, n) ==
  /\ \A k \in DOMAIN v : v[k] <= n
  /\ \A j \in DOMAIN q : q[j] > 0 =>
       /\ q[j] <= n
       /\ \A k \in DOMAIN v : v[k] < q[j]
       /\ \A i \in DOMAIN q : i < j => q[i] < q[j]

LEMMA AppendIs ==
  ASSUME NEW S, NEW f \in Seq(S), NEW p \in S
  PROVE  /\ Append(f, p) \in Seq(S)
         /\ Len(f) \in Nat /\ Len(Append(f, p)) = Len(f) + 1
         /\ DOMAIN f = 1 .. Len(f) /\ DOMAIN Append(f, p) = 1 .. Len(f) + 1
         /\ \A i \in 1 .. Len(f) : f[i] \in S /\ Append(f, p)[i] = f[i]
         /\ Append(f, p)[Len(f) + 1] = p
  OBVIOUS

LEMMA TailIs ==
  ASSUME NEW S, NEW f \in Seq(S), f # << >>
  PROVE  /\ Tail(f) \in Seq(S) /\ Head(f) \in S /\ Head(f) = f[1]
         /\ Len(f) \in Nat \ {0} /\ DOMAIN f = 1 .. Len(f)
         /\ DOMAIN Tail(f) = 1 .. Len(f) - 1
         /\ \A i \in 1 .. Len(f) : f[i] \in S
         /\ \A i \in 1 .. Len(f) - 1 : Tail(f)[i] = f[i + 1]
  OBVIOUS

LEMMA ViewGrows ==
  ASSUME NEW v \in Seq(Nat), NEW q \in Seq(Int), NEW m \in Int, NEW n \in Int,
         m <= n, ViewOK(v, q, m)
  PROVE  ViewOK(v, q, n)
<1>1. (\A k \in DOMAIN v : v[k] \in Nat) /\ (\A j \in DOMAIN q : q[j] \in Int)
  OBVIOUS
<1> QED
  BY <1>1 DEF ViewOK

LEMMA ViewEmpty ==
  ASSUME NEW v, NEW q, NEW n, ViewOK(v, q, n)
  PROVE  ViewOK(v, << >>, n)
  BY DEF ViewOK

(* A message with states, or a spoilt one, changes nothing that is shown *)
LEMMA ViewQueues ==
  ASSUME NEW v \in Seq(Nat), NEW q \in Seq(Int), NEW n \in Int, NEW m \in Int,
         m <= 0, ViewOK(v, q, n)
  PROVE  ViewOK(v, Append(q, m), n)
<1> DEFINE r == Append(q, m)
<1>1. /\ Len(q) \in Nat /\ DOMAIN q = 1 .. Len(q) /\ DOMAIN r = 1 .. Len(q) + 1
      /\ \A j \in 1 .. Len(q) : q[j] \in Int /\ r[j] = q[j]
      /\ r[Len(q) + 1] = m
  BY AppendIs
<1> HIDE DEF r
<1>2. ASSUME NEW j \in DOMAIN r, r[j] > 0
      PROVE  j \in DOMAIN q /\ r[j] = q[j] /\ (\A i \in DOMAIN r : i < j => i \in DOMAIN q /\ r[i] = q[i])
  <2>1. j # Len(q) + 1
    BY <1>1, <1>2
  <2> QED
    BY <1>1, <2>1
<1>3. ViewOK(v, r, n)
  BY <1>2 DEF ViewOK
<1> QED
  BY <1>3 DEF r

(* The packet that is due *)
LEMMA ViewDue ==
  ASSUME NEW v \in Seq(Nat), NEW q \in Seq(Int), NEW n \in Int, ViewOK(v, q, n - 1)
  PROVE  ViewOK(v, Append(q, n), n)
<1> DEFINE r == Append(q, n)
<1>1. /\ Len(q) \in Nat /\ DOMAIN q = 1 .. Len(q) /\ DOMAIN r = 1 .. Len(q) + 1
      /\ \A j \in 1 .. Len(q) : q[j] \in Int /\ r[j] = q[j]
      /\ r[Len(q) + 1] = n
  BY AppendIs
<1> HIDE DEF r
<1>2. \A k \in DOMAIN v : v[k] \in Nat /\ v[k] <= n - 1
  BY DEF ViewOK
<1>3. \A k \in DOMAIN v : v[k] <= n /\ v[k] < n
  BY <1>2
<1>4. ASSUME NEW j \in DOMAIN r, r[j] > 0
      PROVE  /\ r[j] <= n
             /\ \A k \in DOMAIN v : v[k] < r[j]
             /\ \A i \in DOMAIN r : i < j => r[i] < r[j]
  <2>1. CASE j = Len(q) + 1
    <3>1. \A i \in DOMAIN q : q[i] < n
      <4>1. SUFFICES ASSUME NEW i \in DOMAIN q PROVE q[i] < n
        OBVIOUS
      <4>2. q[i] \in Int /\ (q[i] > 0 => q[i] <= n - 1)
        BY <1>1 DEF ViewOK
      <4>3. n > 0
        BY <1>1, <1>4, <2>1
      <4> QED
        BY <4>2, <4>3
    <3>2. r[j] = n
      BY <1>1, <2>1
    <3>3. \A i \in DOMAIN r : i < j => i \in DOMAIN q /\ r[i] = q[i]
      BY <1>1, <2>1
    <3>4. n <= n
      OBVIOUS
    <3> QED
      BY <1>3, <3>1, <3>2, <3>3, <3>4
  <2>2. CASE j # Len(q) + 1
    <3>1. j \in DOMAIN q /\ r[j] = q[j] /\ q[j] \in Int
      BY <1>1, <2>2
    <3>2. \A i \in DOMAIN r : i < j => i \in DOMAIN q /\ r[i] = q[i]
      BY <1>1, <2>2
    <3>3. q[j] <= n - 1 /\ (\A k \in DOMAIN v : v[k] < q[j])
                       /\ (\A i \in DOMAIN q : i < j => q[i] < q[j])
      BY <1>4, <3>1 DEF ViewOK
    <3> QED
      BY <3>1, <3>2, <3>3
  <2> QED
    BY <2>1, <2>2
<1>5. ViewOK(v, r, n)
  BY <1>3, <1>4 DEF ViewOK
<1> QED
  BY <1>5 DEF r

(* The browser reads a message *)
LEMMA ViewReads ==
  ASSUME NEW v \in Seq(Nat), NEW q \in Seq(Int), NEW n \in Int, q # << >>,
         ViewOK(v, q, n)
  PROVE  /\ ViewOK(v, Tail(q), n)
         /\ Head(q) > 0 => /\ Head(q) \in 1 .. n
                           /\ \A k \in DOMAIN v : v[k] < Head(q)
                           /\ ViewOK(Append(v, Head(q)), Tail(q), n)
<1> DEFINE r == Tail(q)
           m == Head(q)
<1>1. /\ m \in Int /\ m = q[1] /\ Len(q) \in Nat \ {0} /\ DOMAIN q = 1 .. Len(q)
      /\ DOMAIN r = 1 .. Len(q) - 1
      /\ \A i \in 1 .. Len(q) : q[i] \in Int
      /\ \A i \in 1 .. Len(q) - 1 : r[i] = q[i + 1]
  BY TailIs
<1> HIDE DEF r, m
<1>2. 1 \in DOMAIN q
  BY <1>1
<1>3. ASSUME NEW j \in DOMAIN r, r[j] > 0
      PROVE  /\ r[j] <= n
             /\ \A k \in DOMAIN v : v[k] < r[j]
             /\ \A i \in DOMAIN r : i < j => r[i] < r[j]
             /\ m < r[j]
  <2>1. j + 1 \in DOMAIN q /\ r[j] = q[j + 1]
    BY <1>1
  <2>2. /\ q[j + 1] <= n
        /\ \A k \in DOMAIN v : v[k] < q[j + 1]
        /\ \A i \in DOMAIN q : i < j + 1 => q[i] < q[j + 1]
    BY <1>3, <2>1 DEF ViewOK
  <2>3. \A i \in DOMAIN r : i < j => i + 1 \in DOMAIN q /\ r[i] = q[i + 1] /\ i + 1 < j + 1
    BY <1>1, SMTT(60)
  <2>4. 1 < j + 1
    BY <1>1
  <2> QED
    BY <1>1, <1>2, <2>1, <2>2, <2>3, <2>4
<1>4. ViewOK(v, r, n)
  BY <1>3 DEF ViewOK
<1>5. ASSUME m > 0
      PROVE  m \in 1 .. n /\ (\A k \in DOMAIN v : v[k] < m) /\ ViewOK(Append(v, m), r, n)
  <2>1. m <= n /\ \A k \in DOMAIN v : v[k] < m
    BY <1>1, <1>2, <1>5 DEF ViewOK
  <2>2. m \in 1 .. n /\ m \in Nat
    BY <1>1, <1>5, <2>1
  <2> DEFINE w == Append(v, m)
  <2>3. /\ Len(v) \in Nat /\ DOMAIN v = 1 .. Len(v) /\ DOMAIN w = 1 .. Len(v) + 1
        /\ \A k \in 1 .. Len(v) : w[k] = v[k]
        /\ w[Len(v) + 1] = m
    BY <2>2, AppendIs
  <2> HIDE DEF w
  <2>4. ASSUME NEW k \in DOMAIN w
        PROVE  (k \in DOMAIN v /\ w[k] = v[k]) \/ w[k] = m
    BY <2>3
  <2>5. \A k \in DOMAIN v : v[k] <= n
    BY DEF ViewOK
  <2>6. ViewOK(w, r, n)
    BY <1>3, <2>1, <2>4, <2>5 DEF ViewOK
  <2> QED
    BY <2>1, <2>2, <2>6 DEF w
<1> QED
  BY <1>4, <1>5 DEF r, m

-----------------------------------------------------------------------------
(* Where no two writers met, every packet since the browser came is delivered   *)

LEMMA NothingDelivered ==
  ASSUME NEW n \in Nat
  PROVE  Delivered(<< >>, << >>, n, n)
<1>1. Packets(<< >>) = {} /\ Len(<< >>) = 0
  BY DEF Packets
<1>2. n + 0 + 1 .. n = {}
  OBVIOUS
<1> QED
  BY <1>1, <1>2 DEF Delivered

(* Another message changes nothing *)
LEMMA DeliveredBesides ==
  ASSUME NEW v \in Seq(Nat), NEW q \in Seq(Int), NEW n \in Nat, NEW last \in Int,
         NEW m \in Int, m <= 0, Delivered(v, q, n, last)
  PROVE  Delivered(v, Append(q, m), n, last)
<1> DEFINE r == Append(q, m)
<1>1. /\ Len(q) \in Nat /\ DOMAIN q = 1 .. Len(q) /\ DOMAIN r = 1 .. Len(q) + 1
      /\ \A j \in 1 .. Len(q) : q[j] \in Int /\ r[j] = q[j]
      /\ r[Len(q) + 1] = m
  BY AppendIs
<1> HIDE DEF r
<1>2. Packets(r) = Packets(q)
  BY <1>1 DEF Packets
<1>3. \A j \in Packets(q) : r[j] = q[j]
  BY <1>1 DEF Packets
<1>4. {r[j] : j \in Packets(r)} = {q[j] : j \in Packets(q)}
  BY <1>2, <1>3
<1>5. Delivered(v, r, n, last)
  BY <1>2, <1>3, <1>4 DEF Delivered
<1> QED
  BY <1>5 DEF r

(* The packet that is due *)
LEMMA DeliveredNext ==
  ASSUME NEW v \in Seq(Nat), NEW q \in Seq(Int), NEW n \in Nat, NEW last \in Nat \ {0},
         Delivered(v, q, n, last - 1)
  PROVE  Delivered(v, Append(q, last), n, last)
<1> DEFINE r == Append(q, last)
           k == Len(q) + 1
<1>1. /\ Len(q) \in Nat /\ DOMAIN q = 1 .. Len(q) /\ DOMAIN r = 1 .. k
      /\ \A j \in 1 .. Len(q) : q[j] \in Int /\ r[j] = q[j]
      /\ r[k] = last
  BY AppendIs
<1> HIDE DEF r
<1>2. Packets(r) = Packets(q) \cup {k}
  BY <1>1 DEF Packets
<1>3. \A j \in Packets(q) : r[j] = q[j] /\ j < k
  BY <1>1 DEF Packets
<1>4. r[k] = last
  BY <1>1
<1> HIDE DEF k
<1>5. {r[j] : j \in Packets(r)} = {q[j] : j \in Packets(q)} \cup {last}
  BY <1>2, <1>3, <1>4
<1>6. Len(v) \in Nat /\ n + Len(v) <= last - 1
  BY DEF Delivered
<1>7. n + Len(v) + 1 .. last = (n + Len(v) + 1 .. last - 1) \cup {last}
  BY <1>6
<1>8. {r[j] : j \in Packets(r)} = n + Len(v) + 1 .. last
  BY <1>5, <1>7 DEF Delivered
<1>9. ASSUME NEW i \in Packets(r), NEW j \in Packets(r), i < j
      PROVE  r[i] < r[j]
  <2>1. i \in Packets(q) /\ j # i
    <3>1. k \in Int /\ i \in Int /\ j \in Int /\ j <= k
      BY <1>1, <1>9 DEF Packets, k
    <3> QED
      BY <1>2, <1>9, <3>1
  <2>2. CASE j \in Packets(q)
    BY <1>3, <1>9, <2>1, <2>2 DEF Delivered
  <2>3. CASE j = k
    <3>1. q[i] \in n + Len(v) + 1 .. last - 1
      BY <2>1 DEF Delivered
    <3> QED
      BY <1>3, <1>4, <1>6, <2>1, <2>3, <3>1
  <2> QED
    BY <1>2, <2>2, <2>3
<1>10. Delivered(v, r, n, last)
  BY <1>6, <1>8, <1>9 DEF Delivered
<1> QED
  BY <1>10 DEF r

(* The browser reads *)
LEMMA DeliveredRead ==
  ASSUME NEW v \in Seq(Nat), NEW q \in Seq(Int), NEW n \in Nat, NEW last \in Int,
         q # << >>, Delivered(v, q, n, last)
  PROVE  /\ Head(q) <= 0 => Delivered(v, Tail(q), n, last)
         /\ Head(q) > 0 => Delivered(Append(v, Head(q)), Tail(q), n, last)
<1> DEFINE r == Tail(q)
           m == Head(q)
<1>1. /\ m \in Int /\ m = q[1] /\ Len(q) \in Nat \ {0} /\ DOMAIN q = 1 .. Len(q)
      /\ DOMAIN r = 1 .. Len(q) - 1
      /\ \A i \in 1 .. Len(q) : q[i] \in Int
      /\ \A i \in 1 .. Len(q) - 1 : r[i] = q[i + 1]
  BY TailIs
<1> HIDE DEF r, m
<1>2. \A j \in Packets(r) : j \in Int /\ j + 1 \in Packets(q) /\ r[j] = q[j + 1]
  BY <1>1 DEF Packets
<1>3. \A j \in Packets(q) : j \in Int /\ (j = 1 \/ (j - 1 \in Packets(r) /\ r[j - 1] = q[j]))
  BY <1>1 DEF Packets
<1>4. ASSUME NEW i \in Packets(r), NEW j \in Packets(r), i < j
      PROVE  r[i] < r[j]
  <2>1. i + 1 < j + 1
    BY <1>2, <1>4
  <2> QED
    BY <1>2, <2>1 DEF Delivered
<1>5. Len(v) \in Nat /\ n + Len(v) <= last
  BY DEF Delivered
<1>6. ASSUME m <= 0
      PROVE  Delivered(v, r, n, last)
  <2>1. 1 \notin Packets(q)
    BY <1>1, <1>6 DEF Packets
  <2>2. {r[j] : j \in Packets(r)} = {q[j] : j \in Packets(q)}
    BY <1>2, <1>3, <2>1
  <2> QED
    BY <1>4, <2>2 DEF Delivered
<1>7. ASSUME m > 0
      PROVE  Delivered(Append(v, m), r, n, last)
  <2>1. 1 \in Packets(q)
    BY <1>1, <1>7 DEF Packets
  <2>2. \A j \in Packets(q) : j = 1 \/ m < q[j]
    <3>1. \A j \in Packets(q) : j = 1 \/ 1 < j
      BY <1>1 DEF Packets
    <3> QED
      BY <1>1, <2>1, <3>1 DEF Delivered
  <2>3. m \in n + Len(v) + 1 .. last
    BY <1>1, <2>1 DEF Delivered
  <2>4. \E j \in Packets(q) : q[j] = n + Len(v) + 1
    <3>1. n + Len(v) + 1 \in n + Len(v) + 1 .. last
      BY <1>1, <1>5, <2>3
    <3>2. n + Len(v) + 1 \in {q[j] : j \in Packets(q)}
      BY <3>1 DEF Delivered
    <3> QED
      BY <3>2
  <2>5. m = n + Len(v) + 1
    <3>1. PICK j \in Packets(q) : q[j] = n + Len(v) + 1
      BY <2>4
    <3>2. n + Len(v) + 1 <= m
      BY <1>1, <1>5, <2>3
    <3>3. j = 1 \/ m < n + Len(v) + 1
      BY <2>2, <3>1
    <3>4. j = 1 => m = n + Len(v) + 1
      BY <1>1, <3>1
    <3> QED
      BY <1>1, <1>5, <3>2, <3>3, <3>4
  <2>6. ASSUME NEW j \in Packets(r)
        PROVE  r[j] \in {q[i] : i \in Packets(q)} /\ r[j] # m
    <3>1. j + 1 \in Packets(q) /\ r[j] = q[j + 1] /\ q[j + 1] \in Int /\ j + 1 # 1
      BY <1>1, <1>2 DEF Packets
    <3>2. m < q[j + 1]
      BY <2>2, <3>1
    <3> QED
      BY <1>1, <3>1, <3>2
  <2>7. ASSUME NEW j \in Packets(q)
        PROVE  q[j] = m \/ q[j] \in {r[i] : i \in Packets(r)}
    <3>1. j = 1 \/ (j - 1 \in Packets(r) /\ r[j - 1] = q[j])
      BY <1>3
    <3> QED
      BY <1>1, <3>1
  <2>8. {r[j] : j \in Packets(r)} = {q[j] : j \in Packets(q)} \ {m}
    BY <2>6, <2>7
  <2>9. (n + Len(v) + 1 .. last) \ {m} = n + (Len(v) + 1) + 1 .. last
    BY <1>5, <2>3, <2>5
  <2>10. {r[j] : j \in Packets(r)} = n + (Len(v) + 1) + 1 .. last
    BY <2>8, <2>9 DEF Delivered
  <2> DEFINE w == Append(v, m)
  <2>11. /\ Len(w) = Len(v) + 1 /\ DOMAIN w = 1 .. Len(v) + 1 /\ DOMAIN v = 1 .. Len(v)
         /\ \A k \in 1 .. Len(v) : w[k] = v[k]
         /\ w[Len(v) + 1] = m
    <3>1. m \in Nat
      BY <1>1, <1>7
    <3> QED
      BY <3>1, AppendIs
  <2> HIDE DEF w
  <2>12. \A i \in DOMAIN w : w[i] = n + i
    <3>1. \A i \in DOMAIN w : i \in DOMAIN v \/ i = Len(v) + 1
      BY <2>11
    <3>2. \A i \in DOMAIN v : v[i] = n + i
      BY DEF Delivered
    <3>3. w[Len(v) + 1] = n + (Len(v) + 1)
      BY <1>5, <2>5, <2>11
    <3> QED
      BY <2>11, <3>1, <3>2, <3>3
  <2>13. n + Len(w) <= last
    BY <1>5, <2>3, <2>5, <2>11
  <2>14. Delivered(w, r, n, last)
    BY <1>4, <2>10, <2>11, <2>12, <2>13 DEF Delivered
  <2> QED
    BY <2>14 DEF w
<1> QED
  BY <1>6, <1>7 DEF r, m

-----------------------------------------------------------------------------
(* What a step of a writer does to a socket *)

Same(s, t) == t.pc = s.pc /\ t.registered = s.registered /\ t.gone = s.gone

LEMMA NamesDiffer == Free \notin Exchanges /\ Handler \notin Exchanges
  BY HubAssumption DEF Free, Handler

LEMMA SocketIs ==
  ASSUME NEW s \in Socket
  PROVE  /\ s.queue \in Seq(Int) /\ s.writing \in SUBSET (Exchanges \cup {Handler})
         /\ s.isWriting \in BOOLEAN /\ s.mixed \in BOOLEAN /\ s.gone \in BOOLEAN
         /\ s.registered \in BOOLEAN
  BY DEF Socket

LEMMA Entered ==
  ASSUME NEW s \in Socket, NEW w \in Exchanges \cup {Handler}
  PROVE  /\ Enters(s, w) \in Socket /\ Same(s, Enters(s, w))
         /\ Enters(s, w).queue = s.queue
         /\ Enters(s, w).writing = s.writing \cup {w}
  BY DEF Socket, Enters, Same, Busy

LEMMA Collided ==
  ASSUME NEW s \in Socket, NEW t \in Collides(s)
  PROVE  t \in Socket /\ Same(s, t) /\ t.queue = s.queue /\ t.writing = s.writing
  BY DEF Socket, Collides, Disturbed, Same

LEMMA Left ==
  ASSUME NEW s \in Socket, NEW w
  PROVE  /\ Leaves(s, w) \in Socket /\ Same(s, Leaves(s, w))
         /\ Leaves(s, w).queue = s.queue
         /\ Leaves(s, w).writing = s.writing \ {w}
  BY DEF Socket, Leaves, Same

LEMMA Sent ==
  ASSUME NEW s \in Socket, NEW m \in Int
  PROVE  /\ Sends(s, m) \in Socket /\ Same(s, Sends(s, m))
         /\ \/ Sends(s, m).queue = Append(s.queue, m)
            \/ Sends(s, m).queue = Append(s.queue, Junk)
         /\ Sends(s, m).writing = s.writing
<1>1. Junk \in Int
  BY DEF Junk
<1>2. s.queue \in Seq(Int)
  BY SocketIs
<1>3. Append(s.queue, m) \in Seq(Int) /\ Append(s.queue, Junk) \in Seq(Int)
  BY <1>1, <1>2, AppendIs
<1> QED
  BY <1>3 DEF Socket, Sends, Same

-----------------------------------------------------------------------------
(* The inductive invariant *)

Scripted == \A e \in Exchanges : ScriptOK(todo[e], lock = e, feed, e)

Locked ==
  /\ left \subseteq Registered
  /\ lock = Free => left = {}
  /\ \A e \in Exchanges : \A b, c \in Browsers :
       e \in hub[b].writing /\ e \in hub[c].writing => b = c

(* What the browser may have been shown: not what is still being written to it *)
Bound(b) == IF up /\ b \in left THEN Len(feed) - 1 ELSE Len(feed)

SocketOK(b) ==
  /\ hub[b].registered <=> hub[b].pc \in {"first", "pushFirst", "wait", "push", "forget"}
  /\ Handler \in hub[b].writing <=> hub[b].pc \in {"pushFirst", "push"}
  /\ \A e \in Exchanges : e \in hub[b].writing => lock = e /\ b \in left
  /\ ViewOK(view[b], hub[b].queue, Bound(b))

Sockets == \A b \in Browsers : SocketOK(b)

Inv == TypeOK /\ Scripted /\ Locked /\ Sockets

LEMMA BoundIs ==
  ASSUME TypeOK, NEW b \in Browsers
  PROVE  /\ Len(feed) \in Int /\ Bound(b) \in Int /\ Bound(b) <= Len(feed)
         /\ hub[b] \in Socket /\ view[b] \in Seq(Nat) /\ hub[b].queue \in Seq(Int)
<1>1. Len(feed) \in Nat
  BY DEF TypeOK
<1>2. hub[b] \in Socket /\ view[b] \in Seq(Nat)
  BY DEF TypeOK
<1> QED
  BY <1>1, <1>2, SocketIs DEF Bound

LEMMA InitInv == Init => Inv
<1> SUFFICES ASSUME Init PROVE Inv
  OBVIOUS
<1> DEFINE none == NoSocket
<1>1. /\ none \in Socket /\ none.pc = "none" /\ ~none.registered
      /\ none.queue = << >> /\ none.writing = {}
  BY DEF NoSocket, Socket
<1>2. \A b \in Browsers : hub[b] = none /\ view[b] = << >>
  BY DEF Init
<1>3. hub \in [Browsers -> Socket] /\ view \in [Browsers -> Seq(Nat)]
  BY <1>1 DEF Init
<1> HIDE DEF none
<1>4. \A e \in Exchanges : /\ todo[e] \in Scripts /\ ~TxLeft(todo[e])
  <2> SUFFICES ASSUME NEW e \in Exchanges PROVE todo[e] \in Scripts /\ ~TxLeft(todo[e])
    OBVIOUS
  <2>1. Kind[e] \in {"serial", "mbap", "query"} /\ todo[e] = Script(Kind[e])
    BY HubAssumption DEF Init
  <2> QED
    BY <2>1 DEF Script, Scripts, TxLeft
<1>5. TypeOK
  <2>1. todo \in [Exchanges -> Seq({"rx", "tx", "write"})]
    BY <1>4, ScriptsTyped DEF Init
  <2>2. feed \in Seq(Exchanges \X {"rx", "tx"})
    BY DEF Init
  <2> QED
    BY <1>3, <2>1, <2>2 DEF Init, TypeOK
<1>6. Scripted
  <2>1. \A e, d : ~Has(feed, e, d)
    BY DEF Init, Has
  <2>2. \A e \in Exchanges : lock # e
    BY NamesDiffer DEF Init
  <2> QED
    BY <1>4, <2>1, <2>2 DEF Scripted, ScriptOK
<1>7. Locked
  BY <1>1, <1>2 DEF Init, Locked, Registered
<1>8. Sockets
  <2> SUFFICES ASSUME NEW b \in Browsers PROVE SocketOK(b)
    BY DEF Sockets
  <2>1. ViewOK(view[b], hub[b].queue, Bound(b))
    BY <1>1, <1>2 DEF ViewOK
  <2> QED
    BY <1>1, <1>2, <2>1 DEF SocketOK
<1> QED
  BY <1>5, <1>6, <1>7, <1>8 DEF Inv

(* The exchanges' part of the invariant, when one of them takes a step *)
LEMMA ScriptStep ==
  ASSUME Inv, NEW e \in Exchanges, NEW s \in Scripts,
         todo' = [todo EXCEPT ![e] = s], feed' = feed,
         lock' \in {lock, Free}, lock' # e, lock # e \/ lock' = Free,
         lock # e => lock' = lock,
         ScriptOK(s, FALSE, feed, e)
  PROVE  /\ Scripted'
         /\ todo' \in [Exchanges -> Seq({"rx", "tx", "write"})]
<1>1. todo \in [Exchanges -> Seq({"rx", "tx", "write"})]
  BY DEF Inv, TypeOK
<1>2. todo'[e] = s /\ \A x \in Exchanges \ {e} : todo'[x] = todo[x]
  BY <1>1
<1>3. \A x \in Exchanges : ScriptOK(todo'[x], lock' = x, feed, x)
  <2> SUFFICES ASSUME NEW x \in Exchanges PROVE ScriptOK(todo'[x], lock' = x, feed, x)
    OBVIOUS
  <2>1. CASE x = e
    BY <1>2, <2>1 DEF ScriptOK
  <2>2. CASE x # e
    <3>1. (lock' = x) <=> (lock = x)
      BY <2>2, NamesDiffer
    <3>2. ScriptOK(todo[x], lock = x, feed, x)
      BY DEF Inv, Scripted
    <3> QED
      BY <1>2, <2>2, <3>1, <3>2 DEF ScriptOK
  <2> QED
    BY <2>1, <2>2
<1>4. Scripted'
  BY <1>3 DEF Scripted
<1> QED
  BY <1>1, <1>4, ScriptsTyped

LEMMA ScriptStays ==
  ASSUME Inv, UNCHANGED <<todo, lock, feed>>
  PROVE  Scripted'
<1>1. \A x \in Exchanges : ScriptOK(todo[x], lock = x, feed, x)
  BY DEF Inv, Scripted
<1> QED
  BY <1>1 DEF Scripted

(* The sockets' part, when socket b becomes t *)
LEMMA SocketStep ==
  ASSUME Inv, up, NEW b \in Browsers, NEW t \in Socket,
         hub' = [hub EXCEPT ![b] = t], feed' = feed, view' = view,
         left' \subseteq left, lock' = Free => left' = {},
         b \in left' => t.registered,
         \A e \in Exchanges : \A c \in Browsers \ {b} :
           e \in hub[c].writing => lock' = e /\ c \in left' /\ e \notin t.writing,
         \A e \in Exchanges : e \in t.writing => lock' = e /\ b \in left',
         t.registered <=> t.pc \in {"first", "pushFirst", "wait", "push", "forget"},
         Handler \in t.writing <=> t.pc \in {"pushFirst", "push"},
         ViewOK(view[b], t.queue, Bound(b)')
  PROVE  Sockets' /\ Locked' /\ hub' \in [Browsers -> Socket]
<1>1. hub \in [Browsers -> Socket]
  BY DEF Inv, TypeOK
<1>2. hub'[b] = t /\ \A c \in Browsers \ {b} : hub'[c] = hub[c]
  BY <1>1
<1>3. ASSUME NEW c \in Browsers \ {b} PROVE SocketOK(c)'
  <2>1. SocketOK(c)
    BY DEF Inv, Sockets
  <2>2. /\ Bound(c) \in Int /\ Bound(c) <= Len(feed) /\ Len(feed) \in Int
        /\ view[c] \in Seq(Nat) /\ hub[c].queue \in Seq(Int)
    BY BoundIs DEF Inv
  <2>3. Bound(c)' \in Int /\ Bound(c) <= Bound(c)'
    BY <2>2 DEF Bound
  <2>4. ViewOK(view[c], hub[c].queue, Bound(c))
    BY <2>1 DEF SocketOK
  <2>5. ViewOK(view[c], hub[c].queue, Bound(c)')
    BY <2>2, <2>3, <2>4, ViewGrows
  <2>6. \A e \in Exchanges : e \in hub[c].writing => lock' = e /\ c \in left'
    OBVIOUS
  <2> QED
    BY <1>2, <2>1, <2>5, <2>6 DEF SocketOK
<1>4. SocketOK(b)'
  BY <1>2 DEF SocketOK
<1>5. Sockets'
  BY <1>3, <1>4 DEF Sockets
<1>6. Locked'
  <2>1. left' \subseteq Registered'
    BY <1>2 DEF Inv, Locked, Registered
  <2>2. ASSUME NEW e \in Exchanges, NEW c \in Browsers, NEW d \in Browsers,
               e \in hub'[c].writing, e \in hub'[d].writing
        PROVE  c = d
    <3>1. CASE c = b \/ d = b
      BY <1>2, <2>2, <3>1
    <3>2. CASE c # b /\ d # b
      BY <1>2, <2>2, <3>2 DEF Inv, Locked
    <3> QED
      BY <3>1, <3>2
  <2> QED
    BY <2>1, <2>2 DEF Locked
<1> QED
  BY <1>1, <1>5, <1>6

(* A step of the handler or of the browser *)
LEMMA HandlerStep ==
  ASSUME Inv, up, NEW b \in Browsers, NEW t \in Socket,
         hub' = [hub EXCEPT ![b] = t], UNCHANGED <<todo, lock, left, feed, view, up>>,
         b \in left => t.registered,
         \A e \in Exchanges : e \in t.writing => e \in hub[b].writing,
         t.registered <=> t.pc \in {"first", "pushFirst", "wait", "push", "forget"},
         Handler \in t.writing <=> t.pc \in {"pushFirst", "push"},
         ViewOK(view[b], t.queue, Bound(b))
  PROVE  Inv'
<1>1. Bound(b)' = Bound(b)
  BY DEF Bound
<1>2. ASSUME NEW e \in Exchanges, NEW c \in Browsers, e \in hub[c].writing
      PROVE  lock = e /\ c \in left
  BY <1>2 DEF Inv, Sockets, SocketOK
<1>3. ASSUME NEW e \in Exchanges, NEW c \in Browsers \ {b}, e \in hub[c].writing
      PROVE  e \notin t.writing
  BY <1>3 DEF Inv, Locked
<1>4. lock = Free => left = {}
  BY DEF Inv, Locked
<1>5. Sockets' /\ Locked' /\ hub' \in [Browsers -> Socket]
  BY <1>1, <1>2, <1>3, <1>4, SocketStep
<1>6. TypeOK'
  BY <1>5 DEF Inv, TypeOK
<1>7. Scripted'
  BY ScriptStays
<1> QED
  BY <1>5, <1>6, <1>7 DEF Inv

(* What a panic of an exchange leaves *)
LEMMA PanicTyped ==
  ASSUME Inv, up, NEW e \in Exchanges, lock = e, PanicIn(e), feed' = feed
  PROVE  /\ Scripted' /\ todo' \in [Exchanges -> Seq({"rx", "tx", "write"})]
         /\ lock' \in Exchanges \cup {Free} /\ left' \subseteq left /\ up' \in BOOLEAN
         /\ lock' = Free => left' = {}
         /\ left' = {} \/ (~up' /\ left' = left /\ lock' = lock)
<1>1. CASE Kind[e] = "query"
  <2>1. lock' = Free /\ left' = {} /\ todo' = [todo EXCEPT ![e] = << >>] /\ up' = up
    BY <1>1 DEF PanicIn
  <2>2. << >> \in Scripts /\ ScriptOK(<< >>, FALSE, feed, e)
    BY ScriptEnds, LittleLeft
  <2>3. Scripted' /\ todo' \in [Exchanges -> Seq({"rx", "tx", "write"})]
    BY <2>1, <2>2, ScriptStep, NamesDiffer
  <2> QED
    BY <2>1, <2>3
<1>2. CASE Kind[e] # "query"
  <2>1. up' = FALSE /\ UNCHANGED <<todo, lock, left>>
    BY <1>2 DEF PanicIn
  <2>2. Scripted'
    BY <2>1, ScriptStays
  <2> QED
    BY <2>1, <2>2, NamesDiffer DEF Inv, TypeOK
<1> QED
  BY <1>1, <1>2

-----------------------------------------------------------------------------
(* The steps of an exchange *)

LEMMA PublishStep ==
  ASSUME Inv, up, NEW e \in Exchanges, Publish(e)
  PROVE  Inv' /\ \E d \in {"rx", "tx"} : Feed!Publish(e, d)
<1> DEFINE d == Head(todo[e])
           n == Len(feed)
<1>1. /\ todo[e] # << >> /\ d \in {"rx", "tx"} /\ lock = Free /\ lock' = e
      /\ left' = Registered /\ feed' = Append(feed, <<e, d>>)
      /\ UNCHANGED <<todo, hub, view, up>>
  BY DEF Publish
<1>2. feed \in Seq(Exchanges \X {"rx", "tx"}) /\ <<e, d>> \in Exchanges \X {"rx", "tx"}
  BY <1>1 DEF Inv, TypeOK
<1>3. ScriptOK(todo[e], FALSE, feed, e)
  <2>1. ScriptOK(todo[e], lock = e, feed, e) /\ lock # e
    BY <1>1, NamesDiffer DEF Inv, Scripted
  <2> QED
    BY <2>1 DEF ScriptOK
<1> HIDE DEF d
<1>4. /\ ScriptOK(todo[e], TRUE, feed', e) /\ ~Has(feed, e, d)
      /\ d = "tx" => Has(feed, e, "rx")
  <2>1. Head(todo[e]) = d
    BY DEF d
  <2> QED
    BY <1>1, <1>2, <1>3, <2>1, ScriptPublishes
<1>5. Feed!Publish(e, d)
  BY <1>1, <1>4 DEF Feed!Publish, Feed!Published, Has
<1>6. TypeOK'
  <2>1. feed' \in Seq(Exchanges \X {"rx", "tx"})
    BY <1>1, <1>2, AppendIs
  <2> QED
    BY <1>1, <2>1 DEF Inv, TypeOK, Registered
<1>7. Scripted'
  <2> SUFFICES ASSUME NEW x \in Exchanges PROVE ScriptOK(todo'[x], lock' = x, feed', x)
    BY DEF Scripted
  <2>1. CASE x = e
    BY <1>1, <1>4, <2>1 DEF ScriptOK
  <2>2. CASE x # e
    <3>1. ScriptOK(todo[x], lock = x, feed, x) /\ ~(lock = x) /\ ~(lock' = x)
      BY <1>1, <2>2, NamesDiffer DEF Inv, Scripted
    <3>2. \A y : Has(feed', x, y) <=> Has(feed, x, y)
      BY <1>1, <1>2, <2>2, AppendHas
    <3> QED
      BY <1>1, <3>1, <3>2 DEF ScriptOK
  <2> QED
    BY <2>1, <2>2
<1>8. \A x \in Exchanges : \A b \in Browsers : x \notin hub[b].writing
  BY <1>1, NamesDiffer DEF Inv, Sockets, SocketOK
<1>9. Locked'
  BY <1>1, <1>8, NamesDiffer DEF Locked, Registered
<1>10. Sockets'
  <2> SUFFICES ASSUME NEW b \in Browsers PROVE SocketOK(b)'
    BY DEF Sockets
  <2>1. SocketOK(b) /\ ViewOK(view[b], hub[b].queue, Bound(b))
    BY DEF Inv, Sockets, SocketOK
  <2>2. /\ Len(feed) \in Int /\ Bound(b) \in Int /\ Bound(b) <= Len(feed)
        /\ view[b] \in Seq(Nat) /\ hub[b].queue \in Seq(Int)
    BY BoundIs DEF Inv
  <2>3. Len(feed') = Len(feed) + 1
    BY <1>1, <1>2, AppendIs
  <2>4. Bound(b)' \in Int /\ Bound(b) <= Bound(b)'
    BY <2>2, <2>3 DEF Bound
  <2>5. ViewOK(view[b], hub[b].queue, Bound(b)')
    BY <2>1, <2>2, <2>4, ViewGrows
  <2> QED
    BY <1>1, <1>8, <2>1, <2>5 DEF SocketOK
<1> QED
  BY <1>1, <1>5, <1>6, <1>7, <1>9, <1>10 DEF Inv

LEMMA FinishStep ==
  ASSUME Inv, up, NEW e \in Exchanges, Finish(e)
  PROVE  Inv'
<1>1. /\ lock = e /\ left = {} /\ todo[e] # << >> /\ lock' = Free
      /\ todo' = [todo EXCEPT ![e] = Tail(todo[e])]
      /\ UNCHANGED <<left, feed, hub, view, up>>
  BY DEF Finish
<1>2. ScriptOK(Tail(todo[e]), FALSE, feed, e) /\ Tail(todo[e]) \in Scripts
  <2>1. ScriptOK(todo[e], TRUE, feed, e)
    BY <1>1 DEF Inv, Scripted, ScriptOK
  <2>2. ScriptOK(Tail(todo[e]), FALSE, feed, e)
    BY <2>1, ScriptFinishes
  <2> QED
    BY <2>2 DEF ScriptOK
<1>3. Scripted' /\ todo' \in [Exchanges -> Seq({"rx", "tx", "write"})]
  BY <1>1, <1>2, ScriptStep, NamesDiffer
<1>4. TypeOK'
  BY <1>1, <1>3 DEF Inv, TypeOK
<1>5. Locked'
  BY <1>1 DEF Inv, Locked, Registered
<1>6. Sockets'
  <2> SUFFICES ASSUME NEW b \in Browsers PROVE SocketOK(b)'
    BY DEF Sockets
  <2>1. SocketOK(b)
    BY DEF Inv, Sockets
  <2>2. Bound(b)' = Bound(b)
    BY <1>1 DEF Bound
  <2> QED
    BY <1>1, <2>1, <2>2 DEF SocketOK
<1> QED
  BY <1>3, <1>4, <1>5, <1>6 DEF Inv

LEMMA WriteAnswerStep ==
  ASSUME Inv, up, NEW e \in Exchanges, WriteAnswer(e)
  PROVE  Inv'
<1>1. /\ todo[e] # << >> /\ Head(todo[e]) = "write"
      /\ UNCHANGED <<lock, left, feed, hub, view, up>>
  BY DEF WriteAnswer
<1>2. PICK s \in {Tail(todo[e]), << >>} : todo' = [todo EXCEPT ![e] = s]
  BY DEF WriteAnswer
<1>3. lock # e /\ ScriptOK(s, FALSE, feed, e) /\ s \in Scripts
  <2>1. (lock = e) \in BOOLEAN /\ ScriptOK(todo[e], lock = e, feed, e)
    BY DEF Inv, Scripted
  <2>2. ~(lock = e) /\ ScriptOK(Tail(todo[e]), FALSE, feed, e)
    BY <1>1, <2>1, ScriptWrites
  <2>3. ScriptOK(s, FALSE, feed, e)
    BY <2>2, ScriptEnds
  <2> QED
    BY <2>2, <2>3 DEF ScriptOK
<1>4. Scripted' /\ todo' \in [Exchanges -> Seq({"rx", "tx", "write"})]
  BY <1>1, <1>2, <1>3, ScriptStep
<1>5. TypeOK'
  BY <1>1, <1>4 DEF Inv, TypeOK
<1>6. Locked'
  BY <1>1 DEF Inv, Locked, Registered
<1>7. Sockets'
  <2> SUFFICES ASSUME NEW b \in Browsers PROVE SocketOK(b)'
    BY DEF Sockets
  <2>1. SocketOK(b)
    BY DEF Inv, Sockets
  <2>2. Bound(b)' = Bound(b)
    BY <1>1 DEF Bound
  <2> QED
    BY <1>1, <2>1, <2>2 DEF SocketOK
<1> QED
  BY <1>4, <1>5, <1>6, <1>7 DEF Inv

LEMMA StartSendStep ==
  ASSUME Inv, up, NEW e \in Exchanges, NEW b \in Browsers, StartSend(e, b)
  PROVE  Inv'
<1>1. /\ lock = e /\ b \in left /\ feed' = feed /\ view' = view
      /\ \A c \in Browsers : e \notin hub[c].writing
  BY DEF StartSend, Writing
<1>2. \A x \in Exchanges : \A c \in Browsers : x \notin hub[c].writing
  BY <1>1 DEF Inv, Sockets, SocketOK
<1>3. /\ hub[b] \in Socket /\ view[b] \in Seq(Nat) /\ hub[b].queue \in Seq(Int)
      /\ Bound(b) \in Int /\ Bound(b) <= Len(feed) /\ Len(feed) \in Int
  BY BoundIs DEF Inv
<1>4. SocketOK(b) /\ ViewOK(view[b], hub[b].queue, Bound(b)) /\ hub[b].registered
  BY <1>1 DEF Inv, Sockets, SocketOK, Locked, Registered
<1>5. CASE hub' = [hub EXCEPT ![b] = Enters(hub[b], e)] /\ UNCHANGED <<todo, lock, left, up>>
  <2> DEFINE t == Enters(hub[b], e)
  <2>1. /\ t \in Socket /\ Same(hub[b], t) /\ t.queue = hub[b].queue
        /\ t.writing = hub[b].writing \cup {e}
    BY <1>3, Entered
  <2>2. hub' = [hub EXCEPT ![b] = t]
    BY <1>5
  <2> HIDE DEF t
  <2>3. Bound(b)' = Bound(b)
    BY <1>1, <1>5 DEF Bound
  <2>4. e # Handler /\ \A x \in Exchanges : x \in t.writing => x = e
    BY <1>2, <2>1, NamesDiffer
  <2>5. /\ t.registered <=> t.pc \in {"first", "pushFirst", "wait", "push", "forget"}
        /\ Handler \in t.writing <=> t.pc \in {"pushFirst", "push"}
    BY <1>4, <2>1, <2>4 DEF SocketOK, Same
  <2>6. lock = Free => left = {}
    BY DEF Inv, Locked
  <2>7. Sockets' /\ Locked' /\ hub' \in [Browsers -> Socket]
    BY <1>1, <1>2, <1>4, <1>5, <2>1, <2>2, <2>3, <2>4, <2>5, <2>6, SocketStep DEF Same
  <2>8. TypeOK'
    BY <1>1, <1>5, <2>7 DEF Inv, TypeOK
  <2>9. Scripted'
    BY <1>1, <1>5, ScriptStays
  <2> QED
    BY <2>7, <2>8, <2>9 DEF Inv
<1>6. ASSUME NEW t \in Collides(hub[b]), hub' = [hub EXCEPT ![b] = t], PanicIn(e)
      PROVE  Inv'
  <2>1. t \in Socket /\ Same(hub[b], t) /\ t.queue = hub[b].queue /\ t.writing = hub[b].writing
    BY <1>3, Collided
  <2>2. /\ Scripted' /\ todo' \in [Exchanges -> Seq({"rx", "tx", "write"})]
        /\ lock' \in Exchanges \cup {Free} /\ left' \subseteq left /\ up' \in BOOLEAN
        /\ lock' = Free => left' = {}
    BY <1>1, <1>6, PanicTyped
  <2>3. Bound(b)' \in Int /\ Bound(b) <= Bound(b)'
    BY <1>1, <1>3, <2>2 DEF Bound
  <2>4. ViewOK(view[b], t.queue, Bound(b)')
    BY <1>3, <1>4, <2>1, <2>3, ViewGrows
  <2>5. /\ t.registered <=> t.pc \in {"first", "pushFirst", "wait", "push", "forget"}
        /\ Handler \in t.writing <=> t.pc \in {"pushFirst", "push"}
    BY <1>4, <2>1 DEF SocketOK, Same
  <2>6. \A x \in Exchanges : x \notin t.writing
    BY <1>2, <2>1
  <2>7. t.registered
    BY <1>4, <2>1 DEF Same
  <2>8. Sockets' /\ Locked' /\ hub' \in [Browsers -> Socket]
    BY <1>1, <1>2, <1>6, <2>1, <2>2, <2>4, <2>5, <2>6, <2>7, SocketStep
  <2>9. TypeOK'
    BY <1>1, <2>2, <2>8 DEF Inv, TypeOK
  <2> QED
    BY <2>2, <2>8, <2>9 DEF Inv
<1> QED
  BY <1>5, <1>6 DEF StartSend

LEMMA EndSendStep ==
  ASSUME Inv, up, NEW e \in Exchanges, NEW b \in Browsers, EndSend(e, b)
  PROVE  Inv'
<1> DEFINE n == Len(feed)
<1>1. e \in hub[b].writing /\ feed' = feed /\ view' = view
  BY DEF EndSend
<1>2. SocketOK(b) /\ lock = e /\ b \in left /\ hub[b].registered
  BY <1>1 DEF Inv, Sockets, SocketOK, Locked, Registered
<1>3. \A x \in Exchanges : \A c \in Browsers : x \in hub[c].writing => x = e /\ c = b
  BY <1>1, <1>2 DEF Inv, Sockets, SocketOK, Locked
<1>4. /\ hub[b] \in Socket /\ view[b] \in Seq(Nat) /\ hub[b].queue \in Seq(Int)
      /\ n \in Int
  BY BoundIs DEF Inv
<1>5. Bound(b) = n - 1 /\ ViewOK(view[b], hub[b].queue, n - 1)
  BY <1>2 DEF Bound, SocketOK
<1>6. ViewOK(view[b], hub[b].queue, n)
  BY <1>4, <1>5, ViewGrows
<1>7. PICK t : /\ hub' = [hub EXCEPT ![b] = t]
               /\ t \in Socket /\ Same(hub[b], t) /\ t.writing = hub[b].writing \ {e}
               /\ ViewOK(view[b], t.queue, n)
  <2>1. CASE hub' = [hub EXCEPT ![b] = Leaves(hub[b], e)]
    <3> DEFINE t == Leaves(hub[b], e)
    <3>1. t \in Socket /\ Same(hub[b], t) /\ t.queue = hub[b].queue /\ t.writing = hub[b].writing \ {e}
      BY <1>4, Left
    <3> HIDE DEF t
    <3>2. hub' = [hub EXCEPT ![b] = t]
      BY <2>1 DEF t
    <3> QED
      BY <1>6, <3>1, <3>2
  <2>2. CASE hub' = [hub EXCEPT ![b] = Leaves(Sends(hub[b], n), e)]
    <3> DEFINE s == Sends(hub[b], n)
               t == Leaves(s, e)
    <3>1. /\ s \in Socket /\ Same(hub[b], s) /\ s.writing = hub[b].writing
          /\ s.queue = Append(hub[b].queue, n) \/ s.queue = Append(hub[b].queue, Junk)
      BY <1>4, Sent
    <3> HIDE DEF s
    <3>2. t \in Socket /\ Same(s, t) /\ t.queue = s.queue /\ t.writing = s.writing \ {e}
      BY <3>1, Left
    <3> HIDE DEF t
    <3>3. hub' = [hub EXCEPT ![b] = t]
      BY <2>2 DEF s, t
    <3>4. ViewOK(view[b], Append(hub[b].queue, n), n)
      BY <1>4, <1>5, ViewDue
    <3>5. ViewOK(view[b], Append(hub[b].queue, Junk), n)
      <4>1. Junk \in Int /\ Junk <= 0
        BY DEF Junk
      <4> QED
        BY <1>4, <1>6, <4>1, ViewQueues
    <3> QED
      BY <3>1, <3>2, <3>3, <3>4, <3>5 DEF Same
  <2> QED
    BY <2>1, <2>2 DEF EndSend
<1>8. /\ Scripted' /\ todo' \in [Exchanges -> Seq({"rx", "tx", "write"})]
      /\ lock' \in Exchanges \cup {Free} /\ left' \subseteq left /\ up' \in BOOLEAN
      /\ lock' = Free => left' = {}
      /\ ~up' \/ b \notin left'
  <2>1. CASE left' = left \ {b} /\ UNCHANGED <<todo, lock, up>>
    <3>1. Scripted'
      BY <1>1, <2>1, ScriptStays
    <3> QED
      BY <2>1, <3>1 DEF Inv, TypeOK, Locked
  <2>2. CASE PanicIn(e)
    BY <1>1, <1>2, <2>2, PanicTyped
  <2> QED
    BY <2>1, <2>2 DEF EndSend
<1>9. Bound(b)' = n
  BY <1>1, <1>8 DEF Bound
<1>10. \A x \in Exchanges : x \notin t.writing
  BY <1>3, <1>7
<1>11. /\ t.registered
       /\ t.registered <=> t.pc \in {"first", "pushFirst", "wait", "push", "forget"}
       /\ Handler \in t.writing <=> t.pc \in {"pushFirst", "push"}
  BY <1>2, <1>7, NamesDiffer DEF SocketOK, Same
<1>12. Sockets' /\ Locked' /\ hub' \in [Browsers -> Socket]
  <2>1. \A x \in Exchanges : \A c \in Browsers \ {b} : x \notin hub[c].writing
    BY <1>3
  <2>2. /\ hub' = [hub EXCEPT ![b] = t] /\ t \in Socket
        /\ ViewOK(view[b], t.queue, Bound(b)')
        /\ left' \subseteq left /\ (lock' = Free => left' = {})
    BY <1>7, <1>8, <1>9
  <2> QED
    BY <1>1, <1>10, <1>11, <2>1, <2>2, SocketStep
<1>13. TypeOK'
  BY <1>1, <1>8, <1>12 DEF Inv, TypeOK
<1> QED
  BY <1>8, <1>12, <1>13 DEF Inv

-----------------------------------------------------------------------------
(* The steps of a handler and of a browser *)

LEMMA SocketNow ==
  ASSUME Inv, NEW b \in Browsers
  PROVE  /\ hub[b] \in Socket /\ view[b] \in Seq(Nat) /\ hub[b].queue \in Seq(Int)
         /\ Bound(b) \in Int /\ Bound(b) <= Len(feed)
         /\ hub[b].registered <=> hub[b].pc \in {"first", "pushFirst", "wait", "push", "forget"}
         /\ Handler \in hub[b].writing <=> hub[b].pc \in {"pushFirst", "push"}
         /\ ViewOK(view[b], hub[b].queue, Bound(b))
         /\ b \in left => hub[b].registered
         /\ hub \in [Browsers -> Socket]
<1>1. SocketOK(b) /\ left \subseteq Registered /\ hub \in [Browsers -> Socket]
  BY DEF Inv, Sockets, Locked, TypeOK
<1> QED
  BY <1>1, BoundIs DEF Inv, SocketOK, Registered

LEMMA UpgradeStep ==
  ASSUME Inv, up, NEW b \in Browsers, Upgrade(b) \/ Close(b)
  PROVE  Inv'
<1>1. PICK pc \in {"register", "closed"} :
        /\ hub' = [hub EXCEPT ![b].pc = pc] /\ hub[b].pc \in {"none", "close"}
        /\ UNCHANGED <<todo, lock, left, feed, view, up>>
  BY DEF Upgrade, Close, At, Goes
<1> DEFINE t == [hub[b] EXCEPT !.pc = pc]
<1>2. hub' = [hub EXCEPT ![b] = t]
  BY <1>1, SocketNow
<1>3. /\ t \in Socket /\ t.pc = pc /\ t.registered = hub[b].registered
      /\ t.queue = hub[b].queue /\ t.writing = hub[b].writing
  BY SocketNow DEF Socket
<1> HIDE DEF t
<1>4. /\ b \notin left /\ ~t.registered /\ Handler \notin t.writing
      /\ ViewOK(view[b], t.queue, Bound(b))
  BY <1>1, <1>3, SocketNow
<1>5. /\ t.registered <=> t.pc \in {"first", "pushFirst", "wait", "push", "forget"}
      /\ Handler \in t.writing <=> t.pc \in {"pushFirst", "push"}
  BY <1>3, <1>4
<1> QED
  BY <1>1, <1>2, <1>3, <1>4, <1>5, HandlerStep

LEMMA RegisterStep ==
  ASSUME Inv, up, NEW b \in Browsers, Register(b)
  PROVE  Inv'
<1> DEFINE t == [hub[b] EXCEPT !.pc = "first", !.registered = TRUE, !.joined = Len(feed)]
<1>1. hub' = [hub EXCEPT ![b] = t] /\ UNCHANGED <<todo, lock, left, feed, view, up>>
  BY DEF Register
<1>2. hub[b].pc = "register" /\ Len(feed) \in Nat
  BY DEF Register, At, Inv, TypeOK
<1>3. /\ t \in Socket /\ t.pc = "first" /\ t.registered
      /\ t.queue = hub[b].queue /\ t.writing = hub[b].writing
  BY <1>2, SocketNow DEF Socket
<1> HIDE DEF t
<1>4. Handler \notin t.writing /\ ViewOK(view[b], t.queue, Bound(b))
  BY <1>2, <1>3, SocketNow
<1> QED
  BY <1>1, <1>3, <1>4, HandlerStep

LEMMA StartPushStep ==
  ASSUME Inv, up, NEW b \in Browsers, StartPush(b)
  PROVE  Inv'
<1>1. hub[b].pc \in {"first", "wait"} /\ UNCHANGED <<todo, lock, left, feed, view, up>>
  BY DEF StartPush, At
<1>2. hub[b].registered /\ Handler \notin hub[b].writing
  BY <1>1, SocketNow
<1>3. ASSUME NEW s \in Socket, NEW pc \in {"pushFirst", "push", "forget"},
             hub' = [hub EXCEPT ![b] = [s EXCEPT !.pc = pc]],
             Same(hub[b], s), s.queue = hub[b].queue,
             \/ pc = "forget" /\ s.writing = hub[b].writing
             \/ pc # "forget" /\ s.writing = hub[b].writing \cup {Handler}
      PROVE  Inv'
  <2> DEFINE t == [s EXCEPT !.pc = pc]
  <2>1. /\ t \in Socket /\ t.pc = pc /\ t.registered = s.registered
        /\ t.queue = s.queue /\ t.writing = s.writing
    BY DEF Socket
  <2>2. hub' = [hub EXCEPT ![b] = t]
    BY <1>3
  <2> HIDE DEF t
  <2>3. t.registered /\ (\A e \in Exchanges : e \in t.writing => e \in hub[b].writing)
    BY <1>2, <1>3, <2>1, NamesDiffer DEF Same
  <2>4. Handler \in t.writing <=> t.pc \in {"pushFirst", "push"}
    BY <1>2, <1>3, <2>1
  <2>5. t.pc \in {"first", "pushFirst", "wait", "push", "forget"}
    BY <2>1
  <2>6. ViewOK(view[b], t.queue, Bound(b))
    BY <1>3, <2>1, SocketNow
  <2> QED
    BY <1>1, <2>1, <2>2, <2>3, <2>4, <2>5, <2>6, HandlerStep
<1>4. CASE hub' = [hub EXCEPT ![b] = [Enters(hub[b], Handler) EXCEPT
                     !.pc = IF At(b, "first") THEN "pushFirst" ELSE "push"]]
  <2> DEFINE s == Enters(hub[b], Handler)
             pc == IF At(b, "first") THEN "pushFirst" ELSE "push"
  <2>1. /\ s \in Socket /\ Same(hub[b], s) /\ s.queue = hub[b].queue
        /\ s.writing = hub[b].writing \cup {Handler}
    BY SocketNow, Entered
  <2>2. pc \in {"pushFirst", "push"}
    OBVIOUS
  <2>3. hub' = [hub EXCEPT ![b] = [s EXCEPT !.pc = pc]]
    BY <1>4
  <2> HIDE DEF s, pc
  <2>4. pc \in {"pushFirst", "push", "forget"} /\ pc # "forget"
    BY <2>2
  <2>5. pc # "forget" /\ s.writing = hub[b].writing \cup {Handler}
    BY <2>1, <2>4
  <2>6. /\ s \in Socket /\ Same(hub[b], s) /\ s.queue = hub[b].queue
        /\ pc \in {"pushFirst", "push", "forget"}
    BY <2>1, <2>4
  <2> QED
    BY <1>3, <2>3, <2>5, <2>6
<1>5. CASE \E s \in Collides(hub[b]) : hub' = [hub EXCEPT ![b] = [s EXCEPT !.pc = "forget"]]
  <2>0. PICK s \in Collides(hub[b]) : hub' = [hub EXCEPT ![b] = [s EXCEPT !.pc = "forget"]]
    BY <1>5
  <2>1. s \in Socket /\ Same(hub[b], s) /\ s.queue = hub[b].queue /\ s.writing = hub[b].writing
    BY SocketNow, Collided
  <2> DEFINE pc == "forget"
  <2>2. hub' = [hub EXCEPT ![b] = [s EXCEPT !.pc = pc]]
    BY <2>0
  <2>3. pc \in {"pushFirst", "push", "forget"}
    OBVIOUS
  <2>4. pc = "forget" /\ s.writing = hub[b].writing
    BY <2>1
  <2> HIDE DEF pc
  <2>5. s \in Socket /\ Same(hub[b], s) /\ s.queue = hub[b].queue
    BY <2>1
  <2> QED
    BY <1>3, <2>2, <2>3, <2>4, <2>5
<1> QED
  BY <1>4, <1>5 DEF StartPush

LEMMA EndPushStep ==
  ASSUME Inv, up, NEW b \in Browsers, EndPush(b)
  PROVE  Inv'
<1> DEFINE s == IF Fails(hub[b]) THEN hub[b] ELSE Sends(hub[b], Meters)
           u == Leaves(s, Handler)
           pc == AfterPush(b)
           t == [u EXCEPT !.pc = pc]
<1>1. /\ hub[b].pc \in {"pushFirst", "push"}
      /\ hub' = [hub EXCEPT ![b] = t] /\ UNCHANGED <<todo, lock, left, feed, view, up>>
  BY DEF EndPush, At
<1>2. pc \in {"forget", "wait"}
  BY DEF AfterPush
<1>3. /\ hub[b] \in Socket /\ hub[b].registered /\ view[b] \in Seq(Nat)
      /\ hub[b].queue \in Seq(Int) /\ Bound(b) \in Int
      /\ ViewOK(view[b], hub[b].queue, Bound(b))
  BY <1>1, SocketNow
<1>4. /\ s \in Socket /\ Same(hub[b], s) /\ s.writing = hub[b].writing
      /\ ViewOK(view[b], s.queue, Bound(b))
  <2>1. CASE Fails(hub[b])
    BY <1>3, <2>1 DEF Same
  <2>2. CASE ~Fails(hub[b])
    <3>1. Meters \in Int /\ Meters <= 0 /\ Junk \in Int /\ Junk <= 0
      BY DEF Meters, Junk
    <3> DEFINE r == Sends(hub[b], Meters)
    <3>2. /\ r \in Socket /\ Same(hub[b], r) /\ r.writing = hub[b].writing
          /\ r.queue = Append(hub[b].queue, Meters) \/ r.queue = Append(hub[b].queue, Junk)
      BY <1>3, <3>1, Sent
    <3> HIDE DEF r
    <3>3. ViewOK(view[b], r.queue, Bound(b))
      BY <1>3, <3>1, <3>2, ViewQueues
    <3>4. s = r
      BY <2>2 DEF r
    <3> QED
      BY <3>2, <3>3, <3>4
  <2> QED
    BY <2>1, <2>2
<1> HIDE DEF s, pc
<1>5. u \in Socket /\ Same(s, u) /\ u.queue = s.queue /\ u.writing = s.writing \ {Handler}
  BY <1>4, Left
<1> HIDE DEF u
<1>6. /\ t \in Socket /\ t.pc = pc /\ t.registered = u.registered
      /\ t.queue = u.queue /\ t.writing = u.writing
  BY <1>2, <1>5 DEF Socket
<1> HIDE DEF t
<1>7. /\ t.registered /\ Handler \notin t.writing
      /\ \A e \in Exchanges : e \in t.writing => e \in hub[b].writing
      /\ ViewOK(view[b], t.queue, Bound(b))
  BY <1>3, <1>4, <1>5, <1>6 DEF Same
<1>8. /\ t.pc \in {"first", "pushFirst", "wait", "push", "forget"}
      /\ t.pc \notin {"pushFirst", "push"}
  BY <1>2, <1>6
<1> QED
  BY <1>1, <1>6, <1>7, <1>8, HandlerStep

LEMMA ForgetStep ==
  ASSUME Inv, up, NEW b \in Browsers, Forget(b)
  PROVE  Inv'
<1> DEFINE t == [hub[b] EXCEPT !.pc = "close", !.registered = FALSE]
<1>1. /\ hub[b].pc = "forget" /\ lock = Free
      /\ hub' = [hub EXCEPT ![b] = t] /\ UNCHANGED <<todo, lock, left, feed, view, up>>
  BY SocketNow DEF Forget, At
<1>2. /\ t \in Socket /\ t.pc = "close" /\ ~t.registered
      /\ t.queue = hub[b].queue /\ t.writing = hub[b].writing
  BY SocketNow DEF Socket
<1> HIDE DEF t
<1>3. b \notin left
  BY <1>1 DEF Inv, Locked
<1>4. Handler \notin t.writing /\ ViewOK(view[b], t.queue, Bound(b))
  BY <1>1, <1>2, SocketNow
<1> QED
  BY <1>1, <1>2, <1>3, <1>4, HandlerStep

LEMMA LeaveStep ==
  ASSUME Inv, up, NEW b \in Browsers, Leave(b)
  PROVE  Inv'
<1> DEFINE t == [hub[b] EXCEPT !.gone = TRUE, !.queue = << >>]
<1>1. hub' = [hub EXCEPT ![b] = t] /\ UNCHANGED <<todo, lock, left, feed, view, up>>
  BY SocketNow DEF Leave
<1>2. /\ t \in Socket /\ t.pc = hub[b].pc /\ t.registered = hub[b].registered
      /\ t.queue = << >> /\ t.writing = hub[b].writing
  <2>1. hub[b] \in Socket /\ << >> \in Seq(Int)
    BY SocketNow
  <2> QED
    BY <2>1 DEF Socket
<1> HIDE DEF t
<1>3. ViewOK(view[b], t.queue, Bound(b))
  BY <1>2, SocketNow, ViewEmpty
<1>4. /\ t.registered <=> t.pc \in {"first", "pushFirst", "wait", "push", "forget"}
      /\ Handler \in t.writing <=> t.pc \in {"pushFirst", "push"}
      /\ b \in left => t.registered
  BY <1>2, SocketNow
<1> QED
  BY <1>1, <1>2, <1>3, <1>4, HandlerStep

LEMMA ReadStep ==
  ASSUME Inv, up, NEW b \in Browsers, Read(b)
  PROVE  Inv' /\ (UNCHANGED <<feed, view>> \/ \E i \in DOMAIN feed : Feed!Show(b, i))
<1> DEFINE t == [hub[b] EXCEPT !.queue = Tail(hub[b].queue)]
           m == Head(hub[b].queue)
<1>1. /\ hub' = [hub EXCEPT ![b] = t] /\ hub[b].queue # << >>
      /\ UNCHANGED <<todo, lock, left, feed, up>>
      /\ view' = IF m <= 0 THEN view ELSE [view EXCEPT ![b] = Append(view[b], m)]
  BY SocketNow DEF Read
<1>2. m \in Int /\ Tail(hub[b].queue) \in Seq(Int)
  BY <1>1, SocketNow, TailIs
<1>3. /\ t \in Socket /\ t.pc = hub[b].pc /\ t.registered = hub[b].registered
      /\ t.queue = Tail(hub[b].queue) /\ t.writing = hub[b].writing
  BY <1>2, SocketNow DEF Socket
<1>4. /\ ViewOK(view[b], t.queue, Bound(b))
      /\ m > 0 => /\ m \in 1 .. Bound(b)
                  /\ \A k \in DOMAIN view[b] : view[b][k] < m
                  /\ ViewOK(Append(view[b], m), t.queue, Bound(b))
  BY <1>1, <1>3, SocketNow, ViewReads
<1> HIDE DEF t, m
<1>5. /\ t.registered <=> t.pc \in {"first", "pushFirst", "wait", "push", "forget"}
      /\ Handler \in t.writing <=> t.pc \in {"pushFirst", "push"}
      /\ b \in left => t.registered
  BY <1>3, SocketNow
<1>6. CASE m <= 0
  <2>1. view' = view
    BY <1>1, <1>6
  <2>2. Inv'
    BY <1>1, <1>3, <1>4, <1>5, <2>1, HandlerStep
  <2> QED
    BY <1>1, <2>1, <2>2
<1>7. CASE m > 0
  <2> DEFINE w == Append(view[b], m)
  <2>1. view' = [view EXCEPT ![b] = w] /\ view \in [Browsers -> Seq(Nat)]
    BY <1>1, <1>2, <1>7 DEF Inv, TypeOK
  <2>2. m \in DOMAIN feed /\ m \in Nat
    <3>1. m \in 1 .. Bound(b) /\ Bound(b) \in Int /\ Bound(b) <= Len(feed)
      BY <1>4, <1>7, SocketNow
    <3>2. Len(feed) \in Nat /\ DOMAIN feed = 1 .. Len(feed)
      BY DEF Inv, TypeOK
    <3> QED
      BY <3>1, <3>2
  <2>3. w \in Seq(Nat)
    BY <2>1, <2>2, AppendIs
  <2> HIDE DEF w
  <2>4. Feed!Show(b, m)
    BY <1>1, <1>4, <1>7, <2>1, <2>2 DEF Feed!Show, w
  <2>5. hub \in [Browsers -> Socket] /\ \A c \in Browsers : Bound(c)' = Bound(c)
    BY <1>1, SocketNow DEF Bound
  <2>6. TypeOK'
    <3>1. view' \in [Browsers -> Seq(Nat)] /\ hub' \in [Browsers -> Socket]
      BY <1>1, <1>3, <2>1, <2>3, <2>5
    <3> QED
      BY <1>1, <3>1 DEF Inv, TypeOK
  <2>7. Scripted'
    BY <1>1, ScriptStays
  <2>8. \A c \in Browsers : /\ hub'[c].writing = hub[c].writing
                            /\ hub'[c].registered = hub[c].registered
    BY <1>1, <1>3, <2>5
  <2>9. Locked'
    BY <1>1, <2>8 DEF Inv, Locked, Registered
  <2>10. Sockets'
    <3> SUFFICES ASSUME NEW c \in Browsers PROVE SocketOK(c)'
      BY DEF Sockets
    <3>1. SocketOK(c)
      BY DEF Inv, Sockets
    <3>2. CASE c = b
      <4>1. hub'[c] = t /\ view'[c] = w
        BY <1>1, <2>1, <2>5, <3>2
      <4>2. ViewOK(w, t.queue, Bound(b))
        BY <1>4, <1>7 DEF w
      <4> QED
        BY <1>1, <1>3, <2>5, <3>1, <3>2, <4>1, <4>2 DEF SocketOK
    <3>3. CASE c # b
      <4>1. hub'[c] = hub[c] /\ view'[c] = view[c]
        BY <1>1, <2>1, <2>5, <3>3
      <4> QED
        BY <1>1, <2>5, <3>1, <4>1 DEF SocketOK
    <3> QED
      BY <3>2, <3>3
  <2> QED
    BY <2>2, <2>4, <2>6, <2>7, <2>9, <2>10 DEF Inv
<1> QED
  BY <1>2, <1>6, <1>7

-----------------------------------------------------------------------------
(* The invariant of delivery, on top of the first one: it speaks of the states  *)
(* in which no two writers have met.  Then the connection's flag tells of its   *)
(* one writer, and nothing is mixed up.                                         *)

Calm(s) ==
  /\ \A w, x \in s.writing : w = x
  /\ s.isWriting <=> s.writing # {}
  /\ ~s.mixed

Prompt(s, shown, last) ==
  /\ Calm(s)
  /\ s.pc \in {"none", "register"} => shown = << >> /\ s.queue = << >>
  /\ s.registered /\ ~s.gone => Delivered(shown, s.queue, s.joined, last)

Undisturbed == \A b \in Browsers : ~hub[b].disturbed

Delivering == Undisturbed => \A b \in Browsers : Prompt(hub[b], view[b], LastSent(b))

LEMMA EnteredCalm ==
  ASSUME NEW s \in Socket, NEW w \in Exchanges \cup {Handler}, Calm(s)
  PROVE  /\ ~Enters(s, w).disturbed => ~s.disturbed /\ Calm(Enters(s, w))
         /\ Enters(s, w).joined = s.joined
<1>1. /\ Enters(s, w).writing = s.writing \cup {w} /\ Enters(s, w).isWriting = TRUE
      /\ Enters(s, w).mixed = (s.mixed \/ Busy(s))
      /\ Enters(s, w).disturbed = (s.disturbed \/ Busy(s))
      /\ Enters(s, w).joined = s.joined
  BY DEF Socket, Enters
<1> QED
  BY <1>1 DEF Calm, Busy

LEMMA CollidedDisturbed ==
  ASSUME NEW s \in Socket, NEW t \in Collides(s)
  PROVE  t.disturbed
  BY DEF Socket, Collides, Disturbed

LEMMA LeftCalm ==
  ASSUME NEW s \in Socket, NEW w \in s.writing, Calm(s)
  PROVE  /\ Calm(Leaves(s, w)) /\ Leaves(s, w).joined = s.joined
         /\ Leaves(s, w).disturbed = s.disturbed
<1>1. /\ Leaves(s, w).writing = s.writing \ {w} /\ Leaves(s, w).isWriting = FALSE
      /\ Leaves(s, w).mixed = (s.mixed /\ s.writing # {w})
      /\ Leaves(s, w).joined = s.joined /\ Leaves(s, w).disturbed = s.disturbed
  BY DEF Socket, Leaves
<1> QED
  BY <1>1 DEF Calm

LEMMA SentDisturbed ==
  ASSUME NEW s \in Socket, NEW m
  PROVE  Sends(s, m).disturbed = s.disturbed
  BY DEF Socket, Sends

LEMMA SentCalm ==
  ASSUME NEW s \in Socket, NEW m \in Int, Calm(s)
  PROVE  /\ Calm(Sends(s, m)) /\ Sends(s, m).joined = s.joined
         /\ Sends(s, m).disturbed = s.disturbed
         /\ Sends(s, m).queue = Append(s.queue, m)
<1>1. /\ Sends(s, m).writing = s.writing /\ Sends(s, m).isWriting = s.isWriting
      /\ Sends(s, m).mixed = s.mixed /\ Sends(s, m).joined = s.joined
      /\ Sends(s, m).disturbed = s.disturbed
      /\ Sends(s, m).queue = Append(s.queue, IF s.mixed THEN Junk ELSE m)
  BY DEF Socket, Sends
<1> QED
  BY <1>1 DEF Calm

(* One socket changes *)
LEMMA DeliveringStep ==
  ASSUME Inv, Delivering, NEW b \in Browsers, NEW t,
         hub' = [hub EXCEPT ![b] = t],
         ~t.disturbed => ~hub[b].disturbed,
         \A c \in Browsers \ {b} : view'[c] = view[c] /\ LastSent(c)' = LastSent(c),
         Undisturbed /\ ~t.disturbed => Prompt(t, view'[b], LastSent(b)')
  PROVE  Delivering'
<1>1. hub'[b] = t /\ \A c \in Browsers \ {b} : hub'[c] = hub[c]
  BY DEF Inv, TypeOK
<1>2. SUFFICES ASSUME Undisturbed', NEW c \in Browsers
               PROVE  Prompt(hub'[c], view'[c], LastSent(c)')
  BY DEF Delivering
<1>3. Undisturbed /\ ~t.disturbed
  BY <1>1, <1>2 DEF Undisturbed
<1>4. CASE c = b
  BY <1>1, <1>3, <1>4
<1>5. CASE c # b
  BY <1>1, <1>3, <1>5 DEF Delivering
<1> QED
  BY <1>4, <1>5

LEMMA LastSentIs ==
  ASSUME Inv, NEW b \in Browsers
  PROVE  LastSent(b) \in Int /\ Len(feed) \in Nat /\ hub[b].joined \in Nat
<1>1. Len(feed) \in Nat /\ hub[b] \in Socket
  BY DEF Inv, TypeOK
<1> QED
  BY <1>1 DEF LastSent, Socket

(* The handler's steps do not touch what is counted *)
LEMMA HandlerDelivers ==
  ASSUME Inv, Delivering, NEW b \in Browsers, NEW t,
         hub' = [hub EXCEPT ![b] = t], UNCHANGED <<left, feed, view>>,
         ~t.disturbed => ~hub[b].disturbed,
         Undisturbed /\ ~t.disturbed => Prompt(t, view[b], LastSent(b))
  PROVE  Delivering'
<1>1. \A c \in Browsers : LastSent(c)' = LastSent(c)
  BY DEF LastSent
<1> QED
  BY <1>1, DeliveringStep

-----------------------------------------------------------------------------
(* The steps *)

LEMMA PublishDelivers ==
  ASSUME Inv, Delivering, NEW e \in Exchanges, Publish(e)
  PROVE  Delivering'
<1>1. lock = Free /\ left' = Registered /\ UNCHANGED <<hub, view>>
      /\ feed' = Append(feed, <<e, Head(todo[e])>>) /\ Head(todo[e]) \in {"rx", "tx"}
  BY DEF Publish
<1>2. left = {}
  BY <1>1 DEF Inv, Locked
<1>3. Len(feed) \in Nat /\ Len(feed') = Len(feed) + 1
  BY <1>1, AppendIs DEF Inv, TypeOK
<1>4. SUFFICES ASSUME Undisturbed, NEW b \in Browsers
               PROVE  Prompt(hub[b], view[b], LastSent(b)')
  BY <1>1 DEF Delivering, Undisturbed
<1>5. Prompt(hub[b], view[b], LastSent(b))
  BY <1>4 DEF Delivering
<1>6. CASE b \in Registered
  <2>1. LastSent(b)' = LastSent(b)
    BY <1>1, <1>2, <1>3, <1>6 DEF LastSent
  <2> QED
    BY <1>5, <2>1
<1>7. CASE b \notin Registered
  BY <1>5, <1>7 DEF Prompt, Registered
<1> QED
  BY <1>6, <1>7

(* A panic means that two writers met *)
LEMMA SendsDeliver ==
  ASSUME Inv, Delivering, NEW e \in Exchanges, NEW b \in Browsers, StartSend(e, b)
  PROVE  Delivering'
<1>1. UNCHANGED <<feed, view>> /\ hub[b] \in Socket
  BY DEF StartSend, Inv, TypeOK
<1>2. CASE hub' = [hub EXCEPT ![b] = Enters(hub[b], e)] /\ left' = left
  <2> DEFINE t == Enters(hub[b], e)
  <2>1. ~t.disturbed => ~hub[b].disturbed
    BY <1>1 DEF Socket, Enters
  <2>2. ASSUME Undisturbed, ~t.disturbed
        PROVE  Prompt(t, view[b], LastSent(b))
    <3>1. Prompt(hub[b], view[b], LastSent(b))
      BY <2>2 DEF Delivering
    <3>2. Calm(t) /\ t.joined = hub[b].joined
      BY <1>1, <2>2, <3>1, EnteredCalm DEF Prompt
    <3>3. Same(hub[b], t) /\ t.queue = hub[b].queue
      BY <1>1, Entered
    <3> HIDE DEF t
    <3> QED
      BY <3>1, <3>2, <3>3 DEF Prompt, Same
  <2>3. hub' = [hub EXCEPT ![b] = t] /\ UNCHANGED <<left, feed, view>>
    BY <1>1, <1>2
  <2> HIDE DEF t
  <2> QED
    BY <2>1, <2>2, <2>3, HandlerDelivers
<1>3. ASSUME NEW t \in Collides(hub[b]), hub' = [hub EXCEPT ![b] = t]
      PROVE  Delivering'
  <2>1. t.disturbed /\ hub'[b] = t
    BY <1>1, <1>3, CollidedDisturbed DEF Inv, TypeOK
  <2> QED
    BY <2>1 DEF Delivering, Undisturbed
<1> QED
  BY <1>2, <1>3 DEF StartSend

LEMMA EndSendDelivers ==
  ASSUME Inv, Delivering, NEW e \in Exchanges, NEW b \in Browsers, EndSend(e, b)
  PROVE  Delivering'
<1> DEFINE n == Len(feed)
           s == IF Fails(hub[b]) THEN hub[b] ELSE Sends(hub[b], n)
           t == Leaves(s, e)
<1>1. /\ e \in hub[b].writing /\ UNCHANGED <<feed, view>>
      /\ hub' = [hub EXCEPT ![b] = t]
      /\ IF hub[b].isWriting THEN left' = left \ {b} ELSE PanicIn(e)
  BY DEF EndSend
<1>2. /\ hub[b] \in Socket /\ view[b] \in Seq(Nat) /\ hub[b].queue \in Seq(Int)
      /\ n \in Nat /\ n \in Int /\ hub[b].joined \in Nat
  BY SocketNow, LastSentIs
<1>3. b \in left /\ hub[b].registered /\ hub[b].pc # "closed"
  BY <1>1, SocketNow DEF Inv, Sockets, SocketOK
<1> HIDE DEF n
<1>4. s \in Socket /\ s.disturbed = hub[b].disturbed /\ s.writing = hub[b].writing
      /\ Same(hub[b], s)
  <2>1. CASE Fails(hub[b])
    BY <1>2, <2>1 DEF Same
  <2>2. CASE ~Fails(hub[b])
    <3> DEFINE r == Sends(hub[b], n)
    <3>1. r \in Socket /\ Same(hub[b], r) /\ r.writing = hub[b].writing
      BY <1>2, Sent
    <3>2. r.disturbed = hub[b].disturbed
      BY <1>2, SentDisturbed
    <3> HIDE DEF r
    <3>3. s = r
      BY <2>2 DEF r
    <3> QED
      BY <3>1, <3>2, <3>3
  <2> QED
    BY <2>1, <2>2
<1>5. t.disturbed = s.disturbed
  <2> HIDE DEF s
  <2> QED
    BY <1>4 DEF Socket, Leaves
<1>6. ASSUME Undisturbed
      PROVE  Calm(hub[b]) /\ hub[b].isWriting
  BY <1>1, <1>6 DEF Delivering, Prompt, Calm
<1>7. CASE ~Undisturbed
  <2>1. ~Undisturbed'
    <3>1. PICK c \in Browsers : hub[c].disturbed
      BY <1>7 DEF Undisturbed
    <3>2. hub'[c].disturbed
      <4> HIDE DEF t, s
      <4>1. hub'[b] = t /\ (c # b => hub'[c] = hub[c])
        BY <1>1 DEF Inv, TypeOK
      <4> QED
        BY <1>4, <1>5, <3>1, <4>1
    <3> QED
      BY <3>2 DEF Undisturbed
  <2> QED
    BY <2>1 DEF Delivering
<1>8. CASE Undisturbed
  <2>1. left' = left \ {b} /\ Calm(hub[b]) /\ Prompt(hub[b], view[b], LastSent(b))
    BY <1>1, <1>6, <1>8 DEF Delivering
  <2>2. LastSent(b) = n - 1 /\ LastSent(b)' = n
    BY <1>1, <1>3, <2>1 DEF LastSent, n
  <2>3. \A c \in Browsers \ {b} : LastSent(c)' = LastSent(c)
    BY <1>1, <2>1 DEF LastSent
  <2>4. /\ Calm(s) /\ s.joined = hub[b].joined
        /\ ~s.gone => Delivered(view[b], s.queue, s.joined, n)
    <3>1. CASE Fails(hub[b])
      <4>1. hub[b].gone
        BY <1>3, <3>1 DEF Fails
      <4> QED
        BY <2>1, <3>1, <4>1
    <3>2. CASE ~Fails(hub[b])
      <4>1. ~hub[b].gone
        BY <3>2 DEF Fails
      <4>2. Delivered(view[b], hub[b].queue, hub[b].joined, n - 1)
        BY <1>3, <2>1, <2>2, <4>1 DEF Prompt
      <4>3. n \in Nat \ {0}
        <5>1. hub[b].joined + Len(view[b]) <= n - 1 /\ Len(view[b]) \in Nat
          BY <1>2, <4>2 DEF Delivered
        <5> QED
          BY <1>2, <5>1
      <4> DEFINE r == Sends(hub[b], n)
      <4>4. Calm(r) /\ r.joined = hub[b].joined /\ r.queue = Append(hub[b].queue, n)
        BY <1>2, <2>1, SentCalm
      <4>5. Delivered(view[b], Append(hub[b].queue, n), hub[b].joined, n)
        <5> QED
          BY <1>2, <4>2, <4>3, DeliveredNext
      <4> HIDE DEF r
      <4>6. s = r
        BY <3>2 DEF r
      <4> QED
        BY <4>4, <4>5, <4>6
    <3> QED
      BY <3>1, <3>2
  <2> HIDE DEF s
  <2>5. Calm(t) /\ t.joined = s.joined
    BY <1>1, <1>4, <2>4, LeftCalm
  <2>6. Same(s, t) /\ t.queue = s.queue
    BY <1>4, Left
  <2> HIDE DEF t
  <2>7. hub[b].pc \notin {"none", "register"}
    BY <1>3, SocketNow
  <2>8. Prompt(t, view[b], n)
    BY <1>4, <2>4, <2>5, <2>6, <2>7 DEF Prompt, Same
  <2> QED
    BY <1>1, <1>4, <1>5, <2>2, <2>3, <2>8, DeliveringStep
<1> QED
  BY <1>7, <1>8

LEMMA UpgradeDelivers ==
  ASSUME Inv, Delivering, NEW b \in Browsers, Upgrade(b) \/ Close(b)
  PROVE  Delivering'
<1>1. PICK pc \in {"register", "closed"} :
        /\ hub' = [hub EXCEPT ![b].pc = pc] /\ hub[b].pc \in {"none", "close"}
        /\ hub[b].pc = "none" \/ pc = "closed"
        /\ UNCHANGED <<left, feed, view>>
  BY DEF Upgrade, Close, At, Goes
<1> DEFINE t == [hub[b] EXCEPT !.pc = pc]
<1>2. hub' = [hub EXCEPT ![b] = t] /\ hub[b] \in Socket /\ ~hub[b].registered
  BY <1>1, SocketNow
<1>3. /\ t.disturbed = hub[b].disturbed /\ t.pc = pc /\ ~t.registered
      /\ t.queue = hub[b].queue /\ Calm(t) = Calm(hub[b])
  BY <1>2 DEF Socket, Calm
<1> HIDE DEF t
<1>4. Prompt(hub[b], view[b], LastSent(b)) => Prompt(t, view[b], LastSent(b))
  BY <1>1, <1>3 DEF Prompt
<1>5. Undisturbed => Prompt(t, view[b], LastSent(b))
  BY <1>4 DEF Delivering
<1> QED
  BY <1>1, <1>2, <1>3, <1>5, HandlerDelivers

(* Nothing is being broadcast while a browser registers *)
LEMMA RegisterDelivers ==
  ASSUME Inv, Delivering, NEW b \in Browsers, Register(b)
  PROVE  Delivering'
<1> DEFINE t == [hub[b] EXCEPT !.pc = "first", !.registered = TRUE, !.joined = Len(feed)]
<1>1. /\ hub' = [hub EXCEPT ![b] = t] /\ UNCHANGED <<left, feed, view>>
      /\ hub[b].pc = "register" /\ lock = Free
  BY DEF Register, At
<1>2. hub[b] \in Socket /\ Len(feed) \in Nat /\ LastSent(b) = Len(feed)
  <2>1. left = {}
    BY <1>1 DEF Inv, Locked
  <2> QED
    BY <2>1, SocketNow, LastSentIs DEF LastSent
<1>3. /\ t.disturbed = hub[b].disturbed /\ t.pc = "first" /\ t.joined = Len(feed)
      /\ t.queue = hub[b].queue /\ Calm(t) = Calm(hub[b])
  BY <1>2 DEF Socket, Calm
<1> HIDE DEF t
<1>4. ASSUME Prompt(hub[b], view[b], LastSent(b))
      PROVE  Prompt(t, view[b], LastSent(b))
  <2>1. view[b] = << >> /\ t.queue = << >>
    BY <1>1, <1>3, <1>4 DEF Prompt
  <2>2. Delivered(view[b], t.queue, t.joined, LastSent(b))
    BY <1>2, <1>3, <2>1, NothingDelivered
  <2> QED
    BY <1>3, <1>4, <2>2 DEF Prompt
<1>5. Undisturbed => Prompt(t, view[b], LastSent(b))
  BY <1>4 DEF Delivering
<1> QED
  BY <1>1, <1>3, <1>5, HandlerDelivers

LEMMA StartPushDelivers ==
  ASSUME Inv, Delivering, NEW b \in Browsers, StartPush(b)
  PROVE  Delivering'
<1>1. /\ hub[b].pc \in {"first", "wait"} /\ UNCHANGED <<left, feed, view>>
      /\ hub[b] \in Socket
  BY SocketNow DEF StartPush, At
<1>2. ASSUME NEW pc \in {"pushFirst", "push"},
             hub' = [hub EXCEPT ![b] = [Enters(hub[b], Handler) EXCEPT !.pc = pc]]
      PROVE  Delivering'
  <2> DEFINE s == Enters(hub[b], Handler)
             t == [s EXCEPT !.pc = pc]
  <2>1. /\ s \in Socket /\ Same(hub[b], s) /\ s.queue = hub[b].queue
        /\ s.joined = hub[b].joined
        /\ Calm(hub[b]) /\ ~s.disturbed => Calm(s)
        /\ ~s.disturbed => ~hub[b].disturbed
    <3>1. s.joined = hub[b].joined /\ (~s.disturbed => ~hub[b].disturbed)
      BY <1>1 DEF Enters, Socket
    <3> QED
      BY <1>1, <3>1, Entered, EnteredCalm
  <2> HIDE DEF s
  <2>2. /\ t.disturbed = s.disturbed /\ t.pc = pc /\ t.joined = s.joined
        /\ t.queue = s.queue /\ t.registered = s.registered /\ t.gone = s.gone
        /\ Calm(t) = Calm(s)
    BY <2>1 DEF Socket, Calm
  <2>3. hub' = [hub EXCEPT ![b] = t]
    BY <1>2 DEF s
  <2> HIDE DEF t
  <2>4. Undisturbed /\ ~t.disturbed => Prompt(t, view[b], LastSent(b))
    BY <1>1, <2>1, <2>2 DEF Delivering, Prompt, Same
  <2> QED
    BY <1>1, <2>1, <2>2, <2>3, <2>4, HandlerDelivers
<1>3. ASSUME NEW s \in Collides(hub[b]), hub' = [hub EXCEPT ![b] = [s EXCEPT !.pc = "forget"]]
      PROVE  Delivering'
  <2>1. s.disturbed /\ s \in Socket
    BY <1>1, CollidedDisturbed, Collided
  <2>2. hub'[b].disturbed
    BY <1>3, <2>1 DEF Socket, Inv, TypeOK
  <2> QED
    BY <2>2 DEF Delivering, Undisturbed
<1>4. (IF At(b, "first") THEN "pushFirst" ELSE "push") \in {"pushFirst", "push"}
  OBVIOUS
<1> QED
  BY <1>2, <1>3, <1>4 DEF StartPush

LEMMA EndPushDelivers ==
  ASSUME Inv, Delivering, NEW b \in Browsers, EndPush(b)
  PROVE  Delivering'
<1> DEFINE s == IF Fails(hub[b]) THEN hub[b] ELSE Sends(hub[b], Meters)
           u == Leaves(s, Handler)
           pc == AfterPush(b)
           t == [u EXCEPT !.pc = pc]
<1>1. /\ hub[b].pc \in {"pushFirst", "push"} /\ UNCHANGED <<left, feed, view>>
      /\ hub' = [hub EXCEPT ![b] = t]
  BY DEF EndPush, At
<1>2. /\ hub[b] \in Socket /\ view[b] \in Seq(Nat) /\ hub[b].queue \in Seq(Int)
      /\ LastSent(b) \in Int /\ hub[b].joined \in Nat
      /\ hub[b].registered /\ Handler \in hub[b].writing
  BY <1>1, SocketNow, LastSentIs
<1>3. pc \in {"forget", "wait"}
  BY DEF AfterPush
<1>4. Meters \in Int /\ Meters <= 0
  BY DEF Meters
<1>5. /\ s \in Socket /\ s.disturbed = hub[b].disturbed /\ Same(hub[b], s)
      /\ s.writing = hub[b].writing
      /\ Calm(hub[b]) => Calm(s) /\ s.joined = hub[b].joined
                         /\ s.queue \in {hub[b].queue, Append(hub[b].queue, Meters)}
  <2>1. CASE Fails(hub[b])
    BY <1>2, <2>1 DEF Same
  <2>2. CASE ~Fails(hub[b])
    <3> DEFINE r == Sends(hub[b], Meters)
    <3>1. r \in Socket /\ Same(hub[b], r) /\ r.writing = hub[b].writing
      BY <1>2, <1>4, Sent
    <3>2. r.disturbed = hub[b].disturbed
      BY <1>2, SentDisturbed
    <3>3. Calm(hub[b]) => /\ Calm(r) /\ r.joined = hub[b].joined
                          /\ r.queue = Append(hub[b].queue, Meters)
      BY <1>2, <1>4, SentCalm
    <3> HIDE DEF r
    <3>4. s = r
      BY <2>2 DEF r
    <3> QED
      BY <3>1, <3>2, <3>3, <3>4
  <2> QED
    BY <2>1, <2>2
<1> HIDE DEF s, pc
<1>6. /\ u \in Socket /\ Same(s, u) /\ u.queue = s.queue
      /\ u.disturbed = s.disturbed /\ u.joined = s.joined
      /\ Calm(s) => Calm(u)
  <2>1. u.disturbed = s.disturbed /\ u.joined = s.joined
    BY <1>5 DEF Leaves, Socket
  <2> QED
    BY <1>2, <1>5, <2>1, Left, LeftCalm
<1> HIDE DEF u
<1>7. /\ t.disturbed = u.disturbed /\ t.pc = pc /\ t.joined = u.joined
      /\ t.queue = u.queue /\ t.registered = u.registered /\ t.gone = u.gone
      /\ Calm(t) = Calm(u)
  BY <1>6 DEF Socket, Calm
<1> HIDE DEF t
<1>8. ASSUME Prompt(hub[b], view[b], LastSent(b))
      PROVE  Prompt(t, view[b], LastSent(b))
  <2>1. /\ Calm(s) /\ s.joined = hub[b].joined
        /\ s.queue \in {hub[b].queue, Append(hub[b].queue, Meters)}
    BY <1>5, <1>8 DEF Prompt
  <2>2. ASSUME ~t.gone
        PROVE  Delivered(view[b], t.queue, t.joined, LastSent(b))
    <3>1. Delivered(view[b], hub[b].queue, hub[b].joined, LastSent(b))
      BY <1>2, <1>5, <1>6, <1>7, <1>8, <2>2 DEF Prompt, Same
    <3>2. Delivered(view[b], Append(hub[b].queue, Meters), hub[b].joined, LastSent(b))
      BY <1>2, <1>4, <3>1, DeliveredBesides
    <3> QED
      BY <1>6, <1>7, <2>1, <3>1, <3>2
  <2> QED
    BY <1>3, <1>6, <1>7, <2>1, <2>2 DEF Prompt
<1>9. Undisturbed => Prompt(t, view[b], LastSent(b))
  BY <1>8 DEF Delivering
<1> QED
  BY <1>1, <1>5, <1>6, <1>7, <1>9, HandlerDelivers

LEMMA ForgetDelivers ==
  ASSUME Inv, Delivering, NEW b \in Browsers, Forget(b)
  PROVE  Delivering'
<1> DEFINE t == [hub[b] EXCEPT !.pc = "close", !.registered = FALSE]
<1>1. /\ hub' = [hub EXCEPT ![b] = t] /\ UNCHANGED <<left, feed, view>>
      /\ hub[b] \in Socket
  BY SocketNow DEF Forget
<1>2. /\ t.disturbed = hub[b].disturbed /\ t.pc = "close" /\ ~t.registered
      /\ Calm(t) = Calm(hub[b])
  BY <1>1 DEF Socket, Calm
<1> HIDE DEF t
<1>3. Undisturbed => Prompt(t, view[b], LastSent(b))
  BY <1>2 DEF Delivering, Prompt
<1> QED
  BY <1>1, <1>2, <1>3, HandlerDelivers

LEMMA LeaveDelivers ==
  ASSUME Inv, Delivering, NEW b \in Browsers, Leave(b)
  PROVE  Delivering'
<1> DEFINE t == [hub[b] EXCEPT !.gone = TRUE, !.queue = << >>]
<1>1. /\ hub' = [hub EXCEPT ![b] = t] /\ UNCHANGED <<left, feed, view>>
      /\ hub[b] \in Socket
  BY SocketNow DEF Leave
<1>2. /\ t.disturbed = hub[b].disturbed /\ t.pc = hub[b].pc /\ t.gone
      /\ t.queue = << >> /\ Calm(t) = Calm(hub[b])
  BY <1>1 DEF Socket, Calm
<1> HIDE DEF t
<1>3. Undisturbed => Prompt(t, view[b], LastSent(b))
  BY <1>2 DEF Delivering, Prompt
<1> QED
  BY <1>1, <1>2, <1>3, HandlerDelivers

LEMMA ReadDelivers ==
  ASSUME Inv, Delivering, NEW b \in Browsers, Read(b)
  PROVE  Delivering'
<1> DEFINE t == [hub[b] EXCEPT !.queue = Tail(hub[b].queue)]
           m == Head(hub[b].queue)
<1>1. /\ hub' = [hub EXCEPT ![b] = t] /\ hub[b].queue # << >>
      /\ UNCHANGED <<left, feed>>
      /\ view' = IF m <= 0 THEN view ELSE [view EXCEPT ![b] = Append(view[b], m)]
  BY SocketNow DEF Read
<1>2. /\ hub[b] \in Socket /\ view[b] \in Seq(Nat) /\ hub[b].queue \in Seq(Int)
      /\ LastSent(b) \in Int /\ hub[b].joined \in Nat
      /\ view \in [Browsers -> Seq(Nat)]
  BY SocketNow, LastSentIs DEF Inv, TypeOK
<1>3. /\ t.disturbed = hub[b].disturbed /\ t.pc = hub[b].pc /\ t.joined = hub[b].joined
      /\ t.registered = hub[b].registered /\ t.gone = hub[b].gone
      /\ t.queue = Tail(hub[b].queue) /\ Calm(t) = Calm(hub[b])
  BY <1>2 DEF Socket, Calm
<1>4. m \in Int
  BY <1>1, <1>2, TailIs
<1>5. /\ view'[b] = IF m <= 0 THEN view[b] ELSE Append(view[b], m)
      /\ \A c \in Browsers \ {b} : view'[c] = view[c]
  BY <1>1, <1>2
<1>6. ASSUME Prompt(hub[b], view[b], LastSent(b))
      PROVE  Prompt(t, view'[b], LastSent(b))
  <2>1. hub[b].pc \notin {"none", "register"}
    BY <1>1, <1>6 DEF Prompt
  <2>2. ASSUME t.registered, ~t.gone
        PROVE  Delivered(view'[b], t.queue, t.joined, LastSent(b))
    <3>1. Delivered(view[b], hub[b].queue, hub[b].joined, LastSent(b))
      BY <1>3, <1>6, <2>2 DEF Prompt
    <3>2. /\ m <= 0 => Delivered(view[b], Tail(hub[b].queue), hub[b].joined, LastSent(b))
          /\ m > 0 => Delivered(Append(view[b], m), Tail(hub[b].queue),
                                hub[b].joined, LastSent(b))
      BY <1>1, <1>2, <3>1, DeliveredRead
    <3> HIDE DEF t, m
    <3> QED
      BY <1>3, <1>4, <1>5, <3>2
  <2> HIDE DEF t, m
  <2> QED
    BY <1>3, <1>6, <2>1, <2>2 DEF Prompt
<1> HIDE DEF t, m
<1>7. Undisturbed => Prompt(t, view'[b], LastSent(b))
  BY <1>6 DEF Delivering
<1>8. \A c \in Browsers : LastSent(c)' = LastSent(c)
  BY <1>1 DEF LastSent
<1> QED
  BY <1>1, <1>3, <1>5, <1>7, <1>8, DeliveringStep

LEMMA NextDelivers ==
  ASSUME Inv, Delivering, [Next]_vars
  PROVE  Delivering'
<1>1. ASSUME UNCHANGED <<left, feed, hub, view>>
      PROVE  Delivering'
  BY <1>1 DEF Delivering, Undisturbed, LastSent
<1>2. CASE UNCHANGED vars
  BY <1>1, <1>2 DEF vars
<1>3. ASSUME NEW e \in Exchanges, Exchange(e)
      PROVE  Delivering'
  <2>1. CASE Finish(e) \/ WriteAnswer(e)
    BY <1>1, <2>1 DEF Finish, WriteAnswer
  <2> QED
    BY <1>3, <2>1, PublishDelivers, SendsDeliver, EndSendDelivers DEF Exchange
<1>4. ASSUME NEW b \in Browsers, Upgrade(b) \/ Handle(b) \/ Read(b) \/ Leave(b)
      PROVE  Delivering'
  BY <1>4, UpgradeDelivers, RegisterDelivers, StartPushDelivers, EndPushDelivers,
     ForgetDelivers, ReadDelivers, LeaveDelivers DEF Handle
<1> QED
  BY <1>2, <1>3, <1>4 DEF Next

LEMMA InitDelivers == Init => Delivering
<1> SUFFICES ASSUME Init, NEW b \in Browsers PROVE Prompt(hub[b], view[b], LastSent(b))
  BY DEF Delivering
<1> DEFINE none == NoSocket
<1>1. hub[b] = none /\ view[b] = << >>
  BY DEF Init
<1>2. /\ none.writing = {} /\ ~none.isWriting /\ ~none.mixed /\ ~none.registered
      /\ none.queue = << >>
  BY DEF NoSocket
<1> HIDE DEF none
<1> QED
  BY <1>1, <1>2 DEF Prompt, Calm

-----------------------------------------------------------------------------

LEMMA StutterStep ==
  ASSUME Inv, UNCHANGED vars
  PROVE  Inv'
<1>1. UNCHANGED <<todo, lock, left, feed, hub, view, up>>
  BY DEF vars
<1>2. Scripted'
  BY <1>1, ScriptStays
<1>3. TypeOK'
  BY <1>1 DEF Inv, TypeOK
<1>4. Locked'
  BY <1>1 DEF Inv, Locked, Registered
<1>5. Sockets'
  BY <1>1 DEF Inv, Sockets, SocketOK, Bound
<1> QED
  BY <1>2, <1>3, <1>4, <1>5 DEF Inv

(* Every step keeps the invariant, and is a step of PacketFeed or changes       *)
(* nothing that it speaks of                                                    *)
LEMMA NextStep ==
  ASSUME Inv, [Next]_vars
  PROVE  Inv' /\ [Feed!Next]_<<feed, view>>
<1>1. CASE UNCHANGED vars
  BY <1>1, StutterStep DEF vars
<1>2. ASSUME up, NEW e \in Exchanges, Exchange(e)
      PROVE  Inv' /\ [Feed!Next]_<<feed, view>>
  <2>1. CASE Publish(e)
    BY <1>2, <2>1, PublishStep DEF Feed!Next
  <2>2. CASE Finish(e)
    BY <1>2, <2>2, FinishStep DEF Finish
  <2>3. CASE WriteAnswer(e)
    BY <1>2, <2>3, WriteAnswerStep DEF WriteAnswer
  <2>4. ASSUME NEW b \in Browsers, StartSend(e, b)
        PROVE  Inv' /\ UNCHANGED <<feed, view>>
    BY <1>2, <2>4, StartSendStep DEF StartSend
  <2>5. ASSUME NEW b \in Browsers, EndSend(e, b)
        PROVE  Inv' /\ UNCHANGED <<feed, view>>
    BY <1>2, <2>5, EndSendStep DEF EndSend
  <2> QED
    BY <1>2, <2>1, <2>2, <2>3, <2>4, <2>5 DEF Exchange
<1>3. ASSUME up, NEW b \in Browsers, Upgrade(b) \/ Handle(b) \/ Read(b) \/ Leave(b)
      PROVE  Inv' /\ [Feed!Next]_<<feed, view>>
  <2>1. CASE Upgrade(b) \/ Close(b)
    BY <1>3, <2>1, UpgradeStep DEF Upgrade, Close
  <2>2. CASE Register(b)
    BY <1>3, <2>2, RegisterStep DEF Register
  <2>3. CASE StartPush(b)
    BY <1>3, <2>3, StartPushStep DEF StartPush
  <2>4. CASE EndPush(b)
    BY <1>3, <2>4, EndPushStep DEF EndPush
  <2>5. CASE Forget(b)
    BY <1>3, <2>5, ForgetStep DEF Forget
  <2>6. CASE Leave(b)
    BY <1>3, <2>6, LeaveStep DEF Leave
  <2>7. CASE Read(b)
    BY <1>3, <2>7, ReadStep DEF Feed!Next
  <2> QED
    BY <1>3, <2>1, <2>2, <2>3, <2>4, <2>5, <2>6, <2>7 DEF Handle
<1> QED
  BY <1>1, <1>2, <1>3 DEF Next

LEMMA SpecInv == Spec => []Inv
<1>1. Inv /\ [Next]_vars => Inv'
  BY NextStep
<1> QED
  BY InitInv, <1>1, PTL DEF Spec

(* The state keeps its types, for any number of browsers and exchanges *)
THEOREM TypeCorrect == Spec => []TypeOK
<1>1. Inv => TypeOK
  BY DEF Inv
<1> QED
  BY <1>1, SpecInv, PTL

(* A broadcast never writes to a connection that its handler has closed *)
THEOREM ClosedIsNotWritten == Spec => []NoWriteAfterClose
<1>1. Inv => NoWriteAfterClose
  <2> SUFFICES ASSUME Inv, NEW b \in Browsers, At(b, "closed")
               PROVE  b \notin left /\ hub[b].writing = {}
    BY DEF NoWriteAfterClose
  <2>1. hub[b].pc = "closed"
    BY DEF At
  <2>2. b \notin left /\ Handler \notin hub[b].writing /\ hub[b] \in Socket
    BY <2>1, SocketNow
  <2>3. \A e \in Exchanges : e \notin hub[b].writing
    BY <2>2 DEF Inv, Sockets, SocketOK
  <2> QED
    BY <2>2, <2>3, SocketIs
<1> QED
  BY <1>1, SpecInv, PTL

(* While no two goroutines wrote to one connection at once, every packet that   *)
(* was broadcast since a browser came has been read by it or is on its way to   *)
(* it, in order and once, whoever comes, goes and broadcasts meanwhile.         *)
THEOREM PacketsAreDelivered == Spec => []NoPacketMissed
<1>1. Inv /\ Delivering /\ [Next]_vars => Delivering'
  BY NextDelivers
<1>2. Delivering => NoPacketMissed
  BY DEF Delivering, Undisturbed, Prompt, NoPacketMissed, Registered
<1> QED
  BY <1>1, <1>2, InitDelivers, SpecInv, PTL DEF Spec

(* The browsers are shown what PacketFeed promises, whatever the goroutines do, *)
(* also when two of them write to one connection                                *)
THEOREM HubImplementsFeed == Spec => FeedSpec
<1>1. Init => Feed!Init
  BY DEF Init, Feed!Init
<1>2. Inv /\ [Next]_vars => [Feed!Next]_<<feed, view>>
  BY NextStep
<1> QED
  BY <1>1, <1>2, SpecInv, PTL DEF Spec, FeedSpec, Feed!Spec
=============================================================================
