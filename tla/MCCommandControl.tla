-------------------------- MODULE MCCommandControl --------------------------
(* Small instances of CommandControl for TLC. *)
EXTENDS CommandControl

\* Two meters that are sent the same request id, contradicting requests for one output, and requests
\* that decodeSetRequest refuses.
On(i, m) == [id |-> i, meter |-> m, channel |-> 1, want |-> "on"]
Off(i, m) == [id |-> i, meter |-> m, channel |-> 1, want |-> "off"]
MCRequests ==
  {On("a", 1), Off("b", 1), On("a", 2), Off("b", Absent), Off("b", 7), Off("x", 1),
   [id |-> "b", meter |-> 1, channel |-> 0, want |-> "on"],
   [id |-> "b", meter |-> 1, channel |-> 1, want |-> "junk"]}

=============================================================================
