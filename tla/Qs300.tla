-------------------------------- MODULE Qs300 --------------------------------
(***************************************************************************)
(* The QS300 driver (meter/driver/qs300) on the shared bus: one collector  *)
(* per meter reads measurements and switches, the controller writes coils, *)
(* reads the outputs back and acknowledges.  Every register access is a    *)
(* transaction of module Rs485Bus, whose variables are this module's too.  *)
(*                                                                         *)
(* A meter is external: it acts on a request when its answer leaves, its   *)
(* measurement registers hold values of its own, and an output follows its *)
(* coil after a while or never.                                            *)
(***************************************************************************)
EXTENDS Integers, Sequences, FiniteSets

CONSTANTS
  Meters,           \* the meters, by Modbus address
  Readings,         \* external: what each meter's registers 70, 76, 79 and 311 hold
  Outputs,          \* external: the outputs each meter has on at the start
  Commands,         \* the controls the server asks for
  ConfirmAttempts,  \* doStateConfirmAttempts: 10 in the code
  MaxExchanges,     \* bound: transactions in one behaviour
  Late, Noise       \* of the line: see Rs485Bus

Channels == {1, 2}
registerVoltageA == 70
registerCurrentA == 76
registerPowerA == 79
registerDOStatus == 310
registerDIStatus == 311
Registers == {registerVoltageA, registerCurrentA, registerPowerA, registerDIStatus}
uint16 == {n \in Nat : n < 65536}

ASSUME MeterAssumption ==
  /\ Meters # {} /\ Meters \subseteq 1..247
  /\ Readings \in [Meters -> [Registers -> uint16]]
  /\ Outputs \in [Meters -> SUBSET Channels]
  /\ Commands \subseteq [meter : Meters, channel : Channels, want : BOOLEAN]
  /\ ConfirmAttempts \in Nat \ {0}
ASSUME LineAssumption == MaxExchanges \in Nat /\ Late \in BOOLEAN /\ Noise \in BOOLEAN

\* The controller's goroutine; a collector is named after its meter.
Controller == 0
Callers == Meters \cup {Controller}

VARIABLES
  phase, request, exchange, accepted, last, pending, input,  \* of the bus
  cause,     \* why the control's last transaction failed, if it did
  op,        \* the register access each caller is engaged in
  got,       \* the raw values a collector has read in this round
  report,    \* the measurements last published for each meter
  status,    \* the switch status each caller published last
  command,   \* the control being executed, or executed last
  attempt,   \* waitForDigitalOutputState's loop counter
  seen,      \* the states it has read, as a set: the last one only
  ack,       \* the acknowledgement of that control, once there is one
  coil,      \* external: the outputs each meter was told to switch on
  relay,     \* external: the outputs that are on
  shown      \* external: the outputs each answer shows as on

bus == <<phase, request, exchange, accepted, last, pending, input>>
calls == <<got, report, status, command, attempt, seen, ack>>
plant == <<coil, relay, shown>>
vars == <<bus, cause, op, calls, plant>>

None == [none |-> TRUE]

-----------------------------------------------------------------------------
(* The driver's requests *)

Read(m, first, count) == [slave |-> m, function |-> 3, address |-> first, echo |-> count]
ReadOneRegister(m, address) == Read(m, address, 1)
ReadSwitches(m) == Read(m, registerDOStatus, 2)

\* Mutant: the business channel is used as the coil's address.
CoilOfChannel(c) ==
  [slave |-> c.meter, function |-> 5, address |-> c.channel % 2, echo |-> IF c.want THEN 65280 ELSE 0]

\* Channel 1 is coil 0, channel 2 is coil 1.
WriteCoil(c) ==
  [slave |-> c.meter, function |-> 5, address |-> c.channel - 1, echo |-> IF c.want THEN 65280 ELSE 0]

BusRequests ==
  {ReadOneRegister(m, a) : m \in Meters,
     a \in {registerVoltageA, registerCurrentA, registerPowerA, registerDOStatus}}
  \cup {ReadSwitches(m) : m \in Meters}
  \cup {WriteCoil([meter |-> m, channel |-> ch, want |-> w]) : m \in Meters, ch \in Channels, w \in BOOLEAN}

Bus == INSTANCE Rs485Bus WITH Requests <- BusRequests

-----------------------------------------------------------------------------
(* What the driver makes of an answer *)

\* The status register has a bit per output.
Word(outputs) == (IF 1 \in outputs THEN 1 ELSE 0) + (IF 2 \in outputs THEN 2 ELSE 0)

\* The k-th register of an answer: of the meter and the address that were asked for it.
Value(f, k) ==
  LET address == f.request.address + k
  IN  IF address = registerDOStatus THEN Word(shown[f.exchange]) ELSE Readings[f.request.slave][address]

Returned(c) == phase[c] = "idle" /\ op[c] # "resting"
Failed(c) == Returned(c) /\ accepted[c] = {}
Succeeded(c) == Returned(c) /\ accepted[c] # {}
Raw(c, k) == Value(CHOOSE f \in accepted[c] : TRUE, k)

bitIsSet(value, bit) == (value \div (IF bit = 0 THEN 1 ELSE 2)) % 2 = 1

\* int16(raw)
Signed(raw) == IF raw < 32768 THEN raw ELSE raw - 65536

\* Units: 0.1 V, 1 mA, 1 W.
measurementsFromRaw(v, c, p) == [voltage |-> v, current |-> c, power |-> Signed(p)]

\* Mutant: both outputs are read from the same bit.
SameBit(m, outs, ins) ==
  [meter |-> m, outputs |-> {ch \in Channels : bitIsSet(outs, 0)},
   inputs |-> {ch \in Channels : bitIsSet(ins, ch - 1)}]

Snapshot(m, outs, ins) ==
  [meter |-> m, outputs |-> {ch \in Channels : bitIsSet(outs, ch - 1)},
   inputs |-> {ch \in Channels : bitIsSet(ins, ch - 1)}]

\* normalizeError, then controlErrorCode: a cause the driver does not know is a plain Modbus error, and
\* so is an unexpected answer.
controlErrorCode(why) ==
  CASE why = "timeout" -> "MODBUS_TIMEOUT"
    [] why = "mismatch" -> "STATE_MISMATCH"
    [] why = "exception" -> "MODBUS_EXCEPTION"
    [] why = "crc" -> "MODBUS_CRC_ERROR"
    [] OTHER -> "MODBUS_ERROR"

Init ==
  /\ Bus!Init
  /\ cause = "none"
  /\ op = [c \in Callers |-> "resting"]
  /\ got = [m \in Meters |-> <<>>]
  /\ report = [m \in Meters |-> None]
  /\ status = [c \in Callers |-> None]
  /\ command = None /\ attempt = 0 /\ seen = {} /\ ack = None
  /\ relay = Outputs /\ coil = Outputs
  /\ shown = [e \in 1..MaxExchanges |-> {}]

\* The caller begins its next register access.
Ask(c, r, next) ==
  /\ Bus!Call(c, r)
  /\ op' = [op EXCEPT ![c] = next]
  /\ cause' = IF c = Controller THEN "none" ELSE cause
  /\ UNCHANGED plant

-----------------------------------------------------------------------------
(* A collector's round *)

ReadVoltage(m) ==
  /\ op[m] = "resting"
  /\ Ask(m, ReadOneRegister(m, registerVoltageA), "voltage")
  /\ got' = [got EXCEPT ![m] = <<>>]
  /\ UNCHANGED <<report, status, command, attempt, seen, ack>>

ReadNext(m, from, address, to) ==
  /\ op[m] = from /\ Succeeded(m)
  /\ Ask(m, ReadOneRegister(m, address), to)
  /\ got' = [got EXCEPT ![m] = Append(@, Raw(m, 0))]
  /\ UNCHANGED <<report, status, command, attempt, seen, ack>>

\* The measurements are complete and published; the switches are next.
Measured(m) ==
  /\ op[m] = "power" /\ Succeeded(m)
  /\ Ask(m, ReadSwitches(m), "switches")
  /\ report' = [report EXCEPT ![m] = measurementsFromRaw(got[m][1], got[m][2], Raw(m, 0))]
  /\ got' = [got EXCEPT ![m] = <<>>]
  /\ UNCHANGED <<status, command, attempt, seen, ack>>

\* Mutant: a reading that fails is left out and the rest goes on.
MeasurementGoesOn(m) ==
  /\ op[m] = "voltage" /\ Failed(m)
  /\ Ask(m, ReadOneRegister(m, registerCurrentA), "current")
  /\ got' = [got EXCEPT ![m] = <<0>>]
  /\ UNCHANGED <<report, status, command, attempt, seen, ack>>

\* A reading fails: nothing is published for the measurements.
MeasurementFails(m) ==
  /\ op[m] \in {"voltage", "current", "power"} /\ Failed(m)
  /\ Ask(m, ReadSwitches(m), "switches")
  /\ got' = [got EXCEPT ![m] = <<>>]
  /\ UNCHANGED <<report, status, command, attempt, seen, ack>>

\* ReadSwitches returns, to a collector or to the controller; a failure publishes nothing.
SwitchesRead(c, m) ==
  /\ op[c] = "switches" /\ Returned(c)
  /\ op' = [op EXCEPT ![c] = "resting"]
  /\ status' = [status EXCEPT ![c] = IF Failed(c) THEN @ ELSE Snapshot(m, Raw(c, 0), Raw(c, 1))]
  /\ UNCHANGED <<bus, cause, got, report, command, attempt, seen, ack, plant>>

Collect(m) ==
  \/ ReadVoltage(m)
  \/ ReadNext(m, "voltage", registerCurrentA, "current")
  \/ ReadNext(m, "current", registerPowerA, "power")
  \/ Measured(m) \/ MeasurementFails(m) \/ SwitchesRead(m, m)

-----------------------------------------------------------------------------
(* ControlDigitalOutput, called by the controller's execute *)

Control(c) ==
  /\ op[Controller] = "resting"
  /\ Ask(Controller, WriteCoil(c), "writing")
  /\ command' = c /\ attempt' = 0 /\ seen' = {} /\ ack' = None
  /\ status' = [status EXCEPT ![Controller] = None]
  /\ UNCHANGED <<got, report>>

\* The relay's state is asked for, once more.
Confirm == Ask(Controller, ReadOneRegister(command.meter, registerDOStatus), "confirming")

CoilWritten ==
  /\ op[Controller] = "writing" /\ Succeeded(Controller)
  /\ Confirm
  /\ attempt' = 1
  /\ UNCHANGED <<got, report, status, command, seen, ack>>

State == bitIsSet(Raw(Controller, 0), command.channel - 1)

\* The control ends: its acknowledgement is published, and the switches are read again.
Finish(states, why) ==
  /\ Ask(Controller, ReadSwitches(command.meter), "switches")
  /\ seen' = states
  /\ ack' = [success |-> why = "none", actual |-> states,
             code |-> IF why = "none" THEN "" ELSE controlErrorCode(why)]
  /\ UNCHANGED <<got, report, status, command, attempt>>

ConfirmedState ==
  /\ op[Controller] = "confirming" /\ Succeeded(Controller)
  /\ State = command.want
  /\ Finish({State}, "none")

\* Mutant: the loop reads once more than it may.
OneReadMore ==
  /\ op[Controller] = "confirming" /\ Succeeded(Controller)
  /\ State # command.want
  /\ attempt <= ConfirmAttempts
  /\ Confirm
  /\ attempt' = attempt + 1 /\ seen' = {State}
  /\ UNCHANGED <<got, report, status, command, ack>>

OtherState ==
  /\ op[Controller] = "confirming" /\ Succeeded(Controller)
  /\ State # command.want
  /\ attempt < ConfirmAttempts
  /\ Confirm
  /\ attempt' = attempt + 1 /\ seen' = {State}
  /\ UNCHANGED <<got, report, status, command, ack>>

\* Mutant: the last attempt is taken for a confirmation.
GivenUpIsDone ==
  /\ op[Controller] = "confirming" /\ Succeeded(Controller)
  /\ State # command.want
  /\ attempt = ConfirmAttempts
  /\ Finish({State}, "none")

NeverFollowed ==
  /\ op[Controller] = "confirming" /\ Succeeded(Controller)
  /\ State # command.want
  /\ attempt = ConfirmAttempts
  /\ Finish({State}, "mismatch")

\* Mutant: a failed read-back tells the state that was asked for.
ControlGuesses ==
  /\ op[Controller] \in {"writing", "confirming"} /\ Failed(Controller)
  /\ Finish({command.want}, cause)

\* The write or a read-back fails: what was read before is still told.
ControlFails ==
  /\ op[Controller] \in {"writing", "confirming"} /\ Failed(Controller)
  /\ Finish(seen, cause)

Execute ==
  \/ \E c \in Commands : Control(c)
  \/ CoilWritten \/ ConfirmedState \/ OtherState \/ NeverFollowed \/ ControlFails
  \/ SwitchesRead(Controller, command.meter)

-----------------------------------------------------------------------------
(* The bus and the meters *)

\* A transaction goes on; how it ends is the error the driver gets if nothing was accepted.
Transact(c) ==
  /\ \/ (Bus!Lock(c) \/ Bus!Write(c)) /\ UNCHANGED cause
     \/ \E why \in {"timeout", "exception", "crc", "unexpected", "other"} :
          /\ cause' = IF op[c] \in {"writing", "confirming"} THEN why ELSE cause
          /\ \/ Bus!WriteFails(c) /\ why = "other"
             \/ Bus!RejectPrefix(c) /\ why = "unexpected"
             \/ Bus!ReceiveException(c) /\ why = "exception"
             \/ Bus!Receive(c) /\ why = IF request[c].function = 3 THEN "unexpected" ELSE "other"
             \/ Bus!ReceiveGarbage(c) /\ why # "exception"
             \/ Bus!Timeout(c) /\ why = "timeout"
  /\ UNCHANGED <<op, calls, plant>>

\* External: the meter does what f answers: it takes the coil's new state, or shows its outputs.
Act(f) ==
  LET m == f.request.slave
      output == {f.request.address + 1}
  IN  /\ ~f.exception
      /\ \/ /\ f.request.function = 5
            /\ coil' = [coil EXCEPT ![m] = IF f.request.echo = 0 THEN @ \ output ELSE @ \cup output]
            /\ UNCHANGED <<relay, shown>>
         \/ /\ f.request.function = 3 /\ f.request.address = registerDOStatus
            /\ shown' = [shown EXCEPT ![f.exchange] = relay[m]]
            /\ UNCHANGED <<coil, relay>>

\* An exception, and an answer about other registers, is sent as it is.
Idle(f) ==
  /\ f.exception \/ (f.request.function = 3 /\ f.request.address # registerDOStatus)
  /\ UNCHANGED plant

\* An answer is delivered, or lost on its way; a request that was lost is never acted upon.
Answer(f) ==
  /\ \/ Bus!Deliver(f) /\ (Act(f) \/ Idle(f))
     \/ Bus!Lose(f) /\ ((f.request.function = 5 /\ Act(f)) \/ UNCHANGED plant)
  /\ UNCHANGED <<cause, op, calls>>

\* External: an output follows its coil.
Follow(m, ch) ==
  /\ ch \in coil[m] <=> ch \notin relay[m]
  /\ relay' = [relay EXCEPT ![m] = IF ch \in coil[m] THEN @ \cup {ch} ELSE @ \ {ch}]
  /\ UNCHANGED <<bus, cause, op, calls, coil, shown>>

Next ==
  \/ \E m \in Meters : Collect(m)
  \/ Execute
  \/ \E c \in Callers : Transact(c)
  \/ \E f \in pending : Answer(f)
  \/ \E m \in Meters, ch \in Channels : Follow(m, ch)

Spec == Init /\ [][Next]_vars

-----------------------------------------------------------------------------
(* Properties *)

Measurement(m) ==
  [voltage |-> Readings[m][registerVoltageA], current |-> Readings[m][registerCurrentA],
   power |-> IF Readings[m][registerPowerA] > 32767 THEN Readings[m][registerPowerA] - 65536
             ELSE Readings[m][registerPowerA]]

TypeOK ==
  /\ Bus!TypeOK
  /\ cause \in {"none", "timeout", "exception", "crc", "unexpected", "other"}
  /\ op \in [Callers -> {"resting", "voltage", "current", "power", "switches", "writing", "confirming"}]
  /\ got \in [Meters -> Seq(uint16)]
  /\ command \in Commands \cup {None}
  /\ attempt \in 0..ConfirmAttempts
  /\ seen \in SUBSET BOOLEAN
  /\ ack \in [success : BOOLEAN, actual : SUBSET BOOLEAN,
              code : {"", "MODBUS_TIMEOUT", "STATE_MISMATCH", "MODBUS_EXCEPTION", "MODBUS_CRC_ERROR",
                      "MODBUS_ERROR"}] \cup {None}
  /\ coil \in [Meters -> SUBSET Channels] /\ relay \in [Meters -> SUBSET Channels]
  /\ shown \in [1..MaxExchanges -> SUBSET Channels]

\* What is published as a meter's voltage, current and power are that meter's registers 70, 76 and 79,
\* each in its place and with its sign, whatever failed and whoever used the line in between
\* (driver.go:70-100).
MeasurementsAreTheMeters == \A m \in Meters : report[m] \in {None, Measurement(m)}

\* A control is acknowledged as successful only if the output is in the state asked for, and told to
\* stay there (controller.go:155-174 and driver.go:125-149).
SuccessIsReal ==
  ack # None /\ ack.success =>
    /\ (command.channel \in relay[command.meter]) = command.want
    /\ (command.channel \in coil[command.meter]) = command.want

\* The actual state in an acknowledgement agrees with its verdict: a success tells the state asked for, a
\* failure the other one or none, a mismatch the other one (driver.go:151-188, controller.go:161-184).
AckAgreesWithItself ==
  ack # None =>
    /\ ack.success => ack.actual = {command.want} /\ ack.code = ""
    /\ ~ack.success => ack.actual \subseteq {~command.want} /\ ack.code # ""
    /\ ack.code = "STATE_MISMATCH" => ack.actual = {~command.want}

\* The switch status published after a successful control shows the output as it was acknowledged
\* (controller.go:73-97, driver.go:116-122).
StatusFollowsSuccess ==
  ack # None /\ ack.success /\ op[Controller] = "resting" /\ status[Controller] # None =>
    /\ status[Controller].meter = command.meter
    /\ (command.channel \in status[Controller].outputs) = command.want

\* A coil only changes while the controller writes it: the one output of the one meter the command
\* names, to the state it wants (driver.go:134-137).
OnlyCommandedCoilsChange ==
  [][\A m \in Meters, ch \in Channels :
       (ch \in coil[m]) # (ch \in coil'[m]) =>
         /\ op[Controller] = "writing"
         /\ m = command.meter /\ ch = command.channel
         /\ (ch \in coil'[m]) = command.want]_vars

-----------------------------------------------------------------------------
\* The plant and the control as the server sees them.
OnOf(outputs) == {o \in Meters \X Channels : o[2] \in outputs[o[1]]}
Controlled ==
  IF command = None THEN {} ELSE {[output |-> <<command.meter, command.channel>>, want |-> command.want]}
Verdict ==
  CASE op[Controller] \in {"writing", "confirming"} -> "open"
    [] op[Controller] \notin {"writing", "confirming"} /\ ack = None -> "none"
    [] OTHER -> IF ack.success THEN "success" ELSE "failure"

Promise == INSTANCE DigitalOutput WITH
  Outputs <- Meters \X Channels, Controls <- [output : Meters \X Channels, want : BOOLEAN],
  coil <- OnOf(coil), relay <- OnOf(relay), control <- Controlled, verdict <- Verdict

\* The driver on the shared line keeps what module DigitalOutput promises of a control: a success is told
\* of an output that has moved and stays, and no other output is ever touched, whoever uses the line in
\* between (controller.go:147-190, driver.go:125-188).
ImplementsDigitalOutput == Promise!Spec
=============================================================================
