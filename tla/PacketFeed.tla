------------------------------ MODULE PacketFeed ------------------------------
(* What the packet inspector promises, whatever goroutines write it: all        *)
(* packets are in one order, in which an exchange's answer follows its request, *)
(* and every browser is shown packets in that order, none of them twice.  (A    *)
(* browser is not shown what came before it or after it left.)                  *)
EXTENDS Naturals, Sequences

CONSTANTS Exchanges, Browsers

VARIABLES feed,    \* the packets in the order they were published
          view     \* for each browser, the places in feed of the packets shown

Published(packet) == \E i \in DOMAIN feed : feed[i] = packet

Init == feed = << >> /\ view = [b \in Browsers |-> << >>]

Publish(e, direction) ==
  /\ ~Published(<<e, direction>>)
  /\ direction = "tx" => Published(<<e, "rx">>)
  /\ feed' = Append(feed, <<e, direction>>)
  /\ UNCHANGED view

Show(b, i) ==
  /\ i \in DOMAIN feed
  /\ \A k \in DOMAIN view[b] : view[b][k] < i
  /\ view' = [view EXCEPT ![b] = Append(@, i)]
  /\ UNCHANGED feed

Next == \/ \E e \in Exchanges, direction \in {"rx", "tx"} : Publish(e, direction)
        \/ \E b \in Browsers : \E i \in DOMAIN feed : Show(b, i)

Spec == Init /\ [][Next]_<<feed, view>>
=============================================================================
