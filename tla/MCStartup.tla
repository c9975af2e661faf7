------------------------------ MODULE MCStartup ------------------------------
(* Files that differ from a good one, of two meters, in one place each: every   *)
(* way the conversion and the validation can refuse one, and the texts that     *)
(* become good or equal once their spaces and capitals are gone.                *)
EXTENDS Startup

MCTexts ==
  {"", " ", "mqtt", " MQTT ", "MQTT", "tcp", "COM3", "N", " n", "n", "x", "meter1", "meter1 ", "meter2",
   "qs300", " QS300", "QS300", "other", "broker1", " broker2", "broker2", "gateway", "gateway2", "secret "}
MCTrimSpace(t) ==
  CASE t = " " -> "" [] t = " MQTT " -> "MQTT" [] t = "meter1 " -> "meter1" [] t = " QS300" -> "QS300"
    [] t = " n" -> "n" [] t = " broker2" -> "broker2" [] OTHER -> t
MCToLower(t) == CASE t = "MQTT" -> "mqtt" [] t = "QS300" -> "qs300" [] OTHER -> t
MCToUpper(t) == CASE t = "n" -> "N" [] OTHER -> t

Good1 == [id |-> 1, name |-> "meter1", driver |-> "qs300", slave |-> 1, interval |-> {8}]
Good2 == [id |-> 2, name |-> "meter2", driver |-> " QS300", slave |-> 2, interval |-> {5}]
Good ==
  [transport |-> "mqtt", portName |-> "COM3", baudRate |-> 9600, dataBits |-> 8, parity |-> "N",
   stopBits |-> 1, timeout |-> {3}, meters |-> <<Good1, Good2>>, broker |-> "broker1",
   device |-> "gateway", password |-> "secret ", replyTimeout |-> {8}, chunkSize |-> 2,
   maxRetransmits |-> 3]

With(m) == [Good EXCEPT !.meters = <<Good1, m>>]

MCFiles ==
  {Good, [Good EXCEPT !.meters = <<Good1>>], [Good EXCEPT !.meters = <<>>]}
  \cup {[Good EXCEPT !.transport = t] : t \in {"", " MQTT ", "tcp"}}
  \cup {[Good EXCEPT !.portName = " "], [Good EXCEPT !.baudRate = 0], [Good EXCEPT !.dataBits = 9],
        [Good EXCEPT !.parity = " n"], [Good EXCEPT !.parity = "x"], [Good EXCEPT !.stopBits = 3]}
  \cup {[Good EXCEPT !.timeout = d] : d \in {{}, {0}}}
  \cup {[Good EXCEPT !.replyTimeout = d] : d \in {{}, {-1}}}
  \cup {[Good EXCEPT !.broker = " "], [Good EXCEPT !.device = ""], [Good EXCEPT !.password = " "]}
  \cup {[Good EXCEPT !.chunkSize = n] : n \in {-1, 0, 1, 3, 4, 8}}
  \cup {[Good EXCEPT !.maxRetransmits = 0]}
  \cup {With([Good2 EXCEPT !.id = n]) : n \in {0, 1}}
  \cup {With([Good2 EXCEPT !.name = t]) : t \in {" ", "meter1 "}}
  \cup {With([Good2 EXCEPT !.driver = t]) : t \in {" ", "other"}}
  \cup {With([Good2 EXCEPT !.slave = n]) : n \in {0, 1, 248}}
  \cup {With([Good2 EXCEPT !.interval = d]) : d \in {{}, {0}}}

Unset == [transport |-> "", broker |-> "", device |-> "", password |-> ""]
MCEnvironments ==
  {Unset, [Unset EXCEPT !.transport = "tcp"], [Unset EXCEPT !.transport = " MQTT "],
   [Unset EXCEPT !.broker = " broker2"],
   [transport |-> " ", broker |-> " ", device |-> " ", password |-> " "],
   [transport |-> "", broker |-> "broker2", device |-> "gateway2", password |-> "other"]}

MCLosses == UNION {[1..n -> -1..3] : n \in 0..3}
=============================================================================
