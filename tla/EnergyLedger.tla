----------------------------- MODULE EnergyLedger -----------------------------
(* What the energy counters of a set of meters promise, whatever commands,      *)
(* requests and simulation steps reach them and in whatever order: consumption  *)
(* is booked in one direction, together with the total, and only while the      *)
(* relay is closed; the three counters are only ever erased together.           *)
EXTENDS Naturals, Sequences

CONSTANTS Opening,     \* the accounts a meter may be installed with
          Amounts      \* what one interval may consume

VARIABLE book          \* one account per meter ever installed, in order

Account == [relay : BOOLEAN, total : Nat, export : Nat, import : Nat]

Init == book \in Seq(Opening)

Install == \E a \in Opening : book' = Append(book, a)

(* A command sets the relay, erases the counters, or does both at once *)
Command(p) ==
  \E relay \in BOOLEAN :
    \/ book' = [book EXCEPT ![p].relay = relay]
    \/ book' = [book EXCEPT ![p] = [relay |-> relay, total |-> 0, export |-> 0, import |-> 0]]

(* An interval of consumption *)
Accrue(p) ==
  /\ book[p].relay
  /\ \E amount \in Amounts :
       \/ book' = [book EXCEPT ![p].import = @ + amount, ![p].total = @ + amount]
       \/ book' = [book EXCEPT ![p].export = @ + amount, ![p].total = @ + amount]

Next == Install \/ \E p \in DOMAIN book : Command(p) \/ Accrue(p)

Spec == Init /\ [][Next]_book
=============================================================================
