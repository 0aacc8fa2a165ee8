------------------------------ MODULE MeterBusMC ------------------------------
(* Small instances of MeterBus: two workers, ids 1 and 2, three meters in all.  *)
EXTENDS MeterBus, TLC

CONSTANTS w1, w2

MCWorkers == {w1, w2}
Symmetry  == Permutations(MCWorkers)

Frame(kind, slave, q) == [kind |-> kind, slave |-> slave, what |-> q]
Update(slave, c)      == [kind |-> "control", slave |-> slave, what |-> c]

RelayOff(unit)    == Preset("relay_off", unit)
Reset(unit)       == Preset("reset_energy", unit)
Readdress(unit,a) == BuildWriteMultipleRequest(unit, RegAddressBaud, <<256 * a + 1>>)

(* Nobody writes an address: reads, relay commands and dashboard updates, by    *)
(* every way a handler can come to a meter.                                     *)
FixedJobs ==
  {Frame("rtu", 1, RelayOff(1)),
   Frame("rtu", 2, [RelayOff(2) EXCEPT !.intact = FALSE]),
   Frame("mbap", 2, Preset("power_all", 2)),
   Frame("mbap", 255, Preset("power_all", 255)),
   Frame("query", 0, Preset("energy_all", 0)),
   Frame("hex", 0, Preset("voltage", 2))}

(* Addresses are written as well, and counters reset *)
AllJobs ==
  {Frame("rtu", 1, Readdress(1, 2)),
   Frame("rtu", 0, RelayOff(0)),
   Frame("query", 0, Reset(0)),
   Update(2, [relay |-> FALSE, station |-> 1])}

MCAdditions == {<<1, FALSE>>, <<2, TRUE>>}

MCDeviations ==
  {[voltage |-> 0, current |-> 0, powerFactor |-> 0, frequency |-> 0, reactive |-> 65]}

MCGains == {0, 40000}
=============================================================================
