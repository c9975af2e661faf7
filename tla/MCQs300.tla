------------------------------- MODULE MCQs300 -------------------------------
(* Small instances of Qs300: even and odd readings, a negative power, and     *)
(* contradicting commands for both outputs.                                   *)
EXTENDS Qs300

MCReadings ==
  [m \in Meters |-> [a \in Registers |-> CASE a = 70 -> 2203 + m [] a = 76 -> 500 + m
                                           [] a = 79 -> 65261 + m [] a = 311 -> 2]]
Set(m, ch, on) == [meter |-> m, channel |-> ch, want |-> on]
MCOutputs == [m \in Meters |-> {1}]
MCCommands == {Set(1, 1, FALSE), Set(1, 2, TRUE), Set(1, 2, FALSE)}
=============================================================================
