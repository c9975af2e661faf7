---- MODULE MCRs485Bus ----
(* Two goroutines and two meters; the driver's reads of the voltage and of
   both switch registers, and the writes that close DO1 and DO2. *)
EXTENDS Rs485Bus, TLC

Read(s, first, count) == [slave |-> s, function |-> 3, address |-> first, echo |-> count]
Voltage(s) == Read(s, 70, 1)
Switches(s) == Read(s, 310, 2)
Close(s, coil) == [slave |-> s, function |-> 5, address |-> coil, echo |-> 65280]

MCRequests == {Voltage(1), Switches(1), Close(1, 0), Close(1, 1), Voltage(2)}
MCMismatches == MCRequests \ {Close(1, 1)}
MCSymmetry == Permutations(Callers)
====
