-------------------------- MODULE RegisterManagerMC --------------------------
(* RegisterManager on requests chosen at the edges of its decoders.             *)
EXTENDS RegisterManager

Zeroes(n) == [i \in 1 .. n |-> 0]

Read(start, count)  == BuildReadHoldingRequest(1, start, count)
Write(start, words) == BuildWriteMultipleRequest(1, start, words)

Reads ==
  {Read(0, 12), Read(0, 27), Read(12, 6), Read(1, 11), Read(21, 1),
   Read(26, 2), Read(0, 126), Read(0, 0)}

(* a range that runs past 0xFFFF and starts again at 0 *)
WrappedReads == {Read(65535, 2)}

Writes ==
  {Write(0, <<0, 0>>), Write(0, <<0, 1>>), Write(0, <<0>>), Write(1, <<0, 0>>),
   Write(26, <<0>>), Write(26, <<1>>), Write(26, <<1, 1>>),
   Write(21, <<514>>), Write(21, <<63490>>), Write(21, <<7>>),
   Write(65535, Zeroes(28)), Write(0, Zeroes(124))}

LongWrites == {Write(65535, Zeroes(122)), Write(0, Zeroes(125))}

Malformed ==
  {[Read(0, 2) EXCEPT !.size = 3],
   [Write(26, <<0>>) EXCEPT !.size = 4],
   [Write(26, <<0>>) EXCEPT !.size = 6],
   [Write(26, <<0>>) EXCEPT !.count = 2],
   [Read(0, 2) EXCEPT !.fc = FuncWriteSingleRegister],
   [Write(26, <<0>>) EXCEPT !.intact = FALSE],
   [Write(26, <<0>>) EXCEPT !.unit = 7],
   [Write(26, <<0>>) EXCEPT !.unit = 0],
   [Read(0, 2) EXCEPT !.size = -1]}

MCRequests == Reads \cup WrappedReads \cup Writes \cup LongWrites \cup Malformed

MCChanges ==
  {[f \in {"relay"} |-> TRUE], [f \in {"reset"} |-> TRUE],
   [solar |-> TRUE, reset |-> TRUE, relay |-> FALSE],
   [station |-> 255, baud |-> 5, voltage |-> 0, dynamic |-> FALSE],
   [f \in {"station"} |-> 0]}

MCDeviations ==
  {[voltage |-> -3, current |-> 2, powerFactor |-> 9, frequency |-> -2, reactive |-> 65]}

MCGains == {0, 70000}
MCEnergyBound == 83000
=============================================================================
