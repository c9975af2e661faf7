----------------------------- MODULE Qs300Proofs -----------------------------
(***************************************************************************)
(* Proofs about Qs300: for every set of meters, every reading, every set   *)
(* of commands, every number of attempts and of transactions.              *)
(***************************************************************************)
EXTENDS Qs300, TLAPS

\* The bus the driver uses, with what is proved about it.
BusProofs == INSTANCE Rs485BusProofs WITH Requests <- BusRequests

\* The driver reads one register, or the switches, or writes a coil.
LEMMA KindsOfRequests ==
  ASSUME NEW r \in BusRequests
  PROVE  \/ \E n \in Meters, a \in {70, 76, 79, 310} : r = ReadOneRegister(n, a)
         \/ \E n \in Meters : r = ReadSwitches(n)
         \/ \E n \in Meters, ch \in Channels, w \in BOOLEAN :
              r = WriteCoil([meter |-> n, channel |-> ch, want |-> w])
BY DEF BusRequests, registerVoltageA, registerCurrentA, registerPowerA, registerDOStatus

\* The driver's requests are requests of the bus.
LEMMA BusAssumptions ==
  /\ BusRequests # {}
  /\ \A r \in BusRequests :
       DOMAIN r = {"slave", "function", "address", "echo"} /\ BusProofs!IsRequest(r)
<1>1. Meters # {} BY MeterAssumption
<1>2. BusRequests # {}
  <2>1. PICK m : m \in Meters BY <1>1
  <2>2. ReadSwitches(m) \in BusRequests BY <2>1 DEF BusRequests
  <2> QED BY <2>2
<1>3. ASSUME NEW r \in BusRequests
      PROVE  DOMAIN r = {"slave", "function", "address", "echo"} /\ BusProofs!IsRequest(r)
  <2>1. CASE \E n \in Meters, a \in {70, 76, 79, 310} : r = ReadOneRegister(n, a)
    BY <2>1 DEF ReadOneRegister, Read, BusProofs!IsRequest
  <2>2. CASE \E n \in Meters : r = ReadSwitches(n)
    BY <2>2 DEF ReadSwitches, Read, BusProofs!IsRequest
  <2>3. CASE \E n \in Meters, ch \in Channels, w \in BOOLEAN :
               r = WriteCoil([meter |-> n, channel |-> ch, want |-> w])
    BY <2>3 DEF WriteCoil, BusProofs!IsRequest
  <2> QED BY <2>1, <2>2, <2>3, KindsOfRequests
<1> QED BY <1>2, <1>3

\* The controller is no meter.
LEMMA ControllerIsNoMeter == Controller \notin Meters /\ Controller \in Callers /\ Meters \subseteq Callers
BY MeterAssumption DEF Controller, Callers

\* What the collectors and the controller ask for are requests of the bus.
LEMMA RequestsAreKnown ==
  /\ \A m \in Meters :
       /\ ReadOneRegister(m, registerVoltageA) \in BusRequests
       /\ ReadOneRegister(m, registerCurrentA) \in BusRequests
       /\ ReadOneRegister(m, registerPowerA) \in BusRequests
       /\ ReadOneRegister(m, registerDOStatus) \in BusRequests
       /\ ReadSwitches(m) \in BusRequests
  /\ \A c \in Commands : /\ c.meter \in Meters /\ c.channel \in Channels /\ c.want \in BOOLEAN
                         /\ WriteCoil(c) \in BusRequests
<1>1. ASSUME NEW m \in Meters
      PROVE  /\ ReadOneRegister(m, registerVoltageA) \in BusRequests
             /\ ReadOneRegister(m, registerCurrentA) \in BusRequests
             /\ ReadOneRegister(m, registerPowerA) \in BusRequests
             /\ ReadOneRegister(m, registerDOStatus) \in BusRequests
             /\ ReadSwitches(m) \in BusRequests
  BY DEF BusRequests
<1>2. ASSUME NEW c \in Commands
      PROVE  /\ c.meter \in Meters /\ c.channel \in Channels /\ c.want \in BOOLEAN
             /\ WriteCoil(c) \in BusRequests
  <2>1. c.meter \in Meters /\ c.channel \in Channels /\ c.want \in BOOLEAN
    BY MeterAssumption
  <2>2. WriteCoil(c) = WriteCoil([meter |-> c.meter, channel |-> c.channel, want |-> c.want])
    BY DEF WriteCoil
  <2>3. WriteCoil([meter |-> c.meter, channel |-> c.channel, want |-> c.want]) \in BusRequests
    BY <2>1 DEF BusRequests
  <2> QED BY <2>1, <2>2, <2>3
<1> QED BY <1>1, <1>2

-----------------------------------------------------------------------------
(* Each caller's transaction is the one its place in the driver asks for *)

Asked ==
  /\ op \in [Callers -> {"resting", "voltage", "current", "power", "switches", "writing", "confirming"}]
  /\ \A c \in Callers : op[c] = "resting" => phase[c] = "idle"
  /\ \A m \in Meters :
       /\ op[m] \notin {"writing", "confirming"}
       /\ op[m] = "voltage" => request[m] = ReadOneRegister(m, registerVoltageA)
       /\ op[m] = "current" => request[m] = ReadOneRegister(m, registerCurrentA)
       /\ op[m] = "power" => request[m] = ReadOneRegister(m, registerPowerA)
       /\ op[m] = "switches" => request[m] = ReadSwitches(m)
  /\ op[Controller] \notin {"voltage", "current", "power"}
  /\ command \in Commands \cup {None}
  /\ op[Controller] # "resting" => command \in Commands
  /\ op[Controller] = "writing" => request[Controller] = WriteCoil(command)
  /\ op[Controller] = "confirming" =>
       request[Controller] = ReadOneRegister(command.meter, registerDOStatus)
  /\ op[Controller] = "switches" => request[Controller] = ReadSwitches(command.meter)

BaseInv == BusProofs!TypeInv /\ Asked

\* A caller asks: nobody else notices.
LEMMA AskIsACall ==
  ASSUME BaseInv, NEW c \in Callers, NEW r \in BusRequests,
         NEW next \in {"voltage", "current", "power", "switches", "writing", "confirming"},
         Ask(c, r, next)
  PROVE  /\ BusProofs!Call(c, r)
         /\ phase[c] = "idle" /\ phase' = [phase EXCEPT ![c] = "locking"]
         /\ request' = [request EXCEPT ![c] = r] /\ op' = [op EXCEPT ![c] = next]
         /\ phase'[c] = "locking" /\ request'[c] = r /\ op'[c] = next /\ accepted'[c] = {}
         /\ \A d \in Callers : d # c => /\ phase'[d] = phase[d] /\ request'[d] = request[d]
                                        /\ op'[d] = op[d] /\ accepted'[d] = accepted[d]
                                        /\ exchange'[d] = exchange[d]
         /\ op' \in [Callers -> {"resting", "voltage", "current", "power", "switches", "writing",
                                 "confirming"}]
         /\ UNCHANGED <<pending, input, coil, relay, shown>>
         /\ cause' = IF c = Controller THEN "none" ELSE cause
BY DEF Ask, BaseInv, Asked, BusProofs!TypeInv, BusProofs!TypeOK, Bus!Call, BusProofs!Call, plant

\* A transaction's step is a step of the bus, which keeps what was asked.
LEMMA TransactIsABusStep ==
  ASSUME BaseInv, NEW c \in Callers, Transact(c)
  PROVE  /\ BusProofs!Lock(c) \/ BusProofs!Exchange(c)
         /\ request' = request /\ exchange' = exchange
         /\ phase[c] # "idle"
         /\ \A d \in Callers : d # c => phase'[d] = phase[d] /\ accepted'[d] = accepted[d]
         /\ UNCHANGED <<op, calls, plant>>
<1>1. UNCHANGED <<op, calls, plant>> BY DEF Transact
<1>2. BusProofs!Lock(c) \/ BusProofs!Exchange(c)
  <2>1. Bus!Lock(c) => BusProofs!Lock(c) BY DEF Bus!Lock, BusProofs!Lock, Bus!Inside, BusProofs!Inside
  <2>2. Bus!Write(c) => BusProofs!Write(c) BY DEF Bus!Write, BusProofs!Write
  <2>3. Bus!WriteFails(c) => BusProofs!WriteFails(c)
    BY DEF Bus!WriteFails, BusProofs!WriteFails, Bus!Return, BusProofs!Return
  <2>4. Bus!RejectPrefix(c) => BusProofs!RejectPrefix(c)
    BY DEF Bus!RejectPrefix, BusProofs!RejectPrefix, Bus!Return, BusProofs!Return, Bus!Begins,
       BusProofs!Begins, Bus!Expected, BusProofs!Expected
  <2>5. Bus!ReceiveException(c) => BusProofs!ReceiveException(c)
    BY DEF Bus!ReceiveException, BusProofs!ReceiveException, Bus!Return, BusProofs!Return,
       Bus!Begins, BusProofs!Begins, Bus!Expected, BusProofs!Expected
  <2>6. Bus!Receive(c) => BusProofs!Receive(c)
    BY DEF Bus!Receive, BusProofs!Receive, Bus!Return, BusProofs!Return, Bus!Begins,
       BusProofs!Begins, Bus!Expected, BusProofs!Expected, Bus!Fits, BusProofs!Fits, Bus!Length,
       BusProofs!Length
  <2>7. Bus!ReceiveGarbage(c) => BusProofs!ReceiveGarbage(c)
    BY DEF Bus!ReceiveGarbage, BusProofs!ReceiveGarbage, Bus!Return, BusProofs!Return
  <2>8. Bus!Timeout(c) => BusProofs!Timeout(c)
    BY DEF Bus!Timeout, BusProofs!Timeout, Bus!Return, BusProofs!Return
  <2>9. \/ Bus!Lock(c) \/ Bus!Write(c) \/ Bus!WriteFails(c) \/ Bus!RejectPrefix(c)
        \/ Bus!ReceiveException(c) \/ Bus!Receive(c) \/ Bus!ReceiveGarbage(c) \/ Bus!Timeout(c)
    BY DEF Transact
  <2> QED BY <2>1, <2>2, <2>3, <2>4, <2>5, <2>6, <2>7, <2>8, <2>9 DEF BusProofs!Exchange
<1>3. CASE BusProofs!Lock(c)
  BY <1>1, <1>2, <1>3 DEF BusProofs!Lock, BaseInv, BusProofs!TypeInv, BusProofs!TypeOK
<1>4. CASE BusProofs!Exchange(c)
  <2>1. request' = request /\ exchange' = exchange
    BY <1>4 DEF BusProofs!Exchange, BusProofs!Write, BusProofs!WriteFails, BusProofs!RejectPrefix,
       BusProofs!ReceiveException, BusProofs!Receive, BusProofs!ReceiveGarbage, BusProofs!Timeout,
       BusProofs!Return
  <2>2. /\ phase[c] # "idle" /\ \E p : phase' = [phase EXCEPT ![c] = p]
        /\ accepted' = accepted \/ \E a : accepted' = [accepted EXCEPT ![c] = a]
    BY <1>4 DEF BusProofs!Exchange, BusProofs!Write, BusProofs!WriteFails, BusProofs!RejectPrefix,
       BusProofs!ReceiveException, BusProofs!Receive, BusProofs!ReceiveGarbage, BusProofs!Timeout,
       BusProofs!Return
  <2>3. \A d \in Callers : d # c => phase'[d] = phase[d] /\ accepted'[d] = accepted[d]
    BY <2>2 DEF BaseInv, BusProofs!TypeInv, BusProofs!TypeOK
  <2> QED BY <1>1, <1>2, <2>1, <2>2, <2>3
<1> QED BY <1>2, <1>3, <1>4

\* An answer under way is delivered or lost: the callers do not notice.
LEMMA AnswerIsABusStep ==
  ASSUME NEW f \in pending, Answer(f)
  PROVE  /\ BusProofs!Deliver(f) \/ BusProofs!Lose(f)
         /\ UNCHANGED <<phase, request, exchange, accepted, cause, op, calls>>
<1>1. Bus!Oldest(f) = BusProofs!Oldest(f) BY DEF Bus!Oldest, BusProofs!Oldest
<1>2. Bus!Bytes(f) = BusProofs!Bytes(f)
  BY DEF Bus!Bytes, BusProofs!Bytes, Bus!Length, BusProofs!Length
<1>3. Bus!Deliver(f) => BusProofs!Deliver(f) BY <1>1, <1>2 DEF Bus!Deliver, BusProofs!Deliver
<1>4. Bus!Lose(f) => BusProofs!Lose(f) BY <1>1 DEF Bus!Lose, BusProofs!Lose
<1>5. Bus!Deliver(f) \/ Bus!Lose(f) BY DEF Answer
<1> QED BY <1>3, <1>4, <1>5 DEF Answer, BusProofs!Deliver, BusProofs!Lose

\* A collector's step asks for something, or comes to rest.
LEMMA CollectKeepsAsked ==
  ASSUME BaseInv, NEW m \in Meters, Collect(m)
  PROVE  Asked' /\ (BusProofs!Next \/ UNCHANGED bus)
<1>1. m \in Callers /\ m # Controller BY ControllerIsNoMeter
<1>2. ASSUME NEW r \in BusRequests, NEW next \in {"voltage", "current", "power", "switches"},
             Ask(m, r, next), command' = command,
             \/ next = "voltage" /\ r = ReadOneRegister(m, registerVoltageA)
             \/ next = "current" /\ r = ReadOneRegister(m, registerCurrentA)
             \/ next = "power" /\ r = ReadOneRegister(m, registerPowerA)
             \/ next = "switches" /\ r = ReadSwitches(m)
      PROVE  Asked' /\ BusProofs!Next
  <2>1. BusProofs!Call(m, r) BY <1>1, <1>2, AskIsACall
  <2>2. /\ op'[m] = next /\ request'[m] = r /\ phase'[m] = "locking"
        /\ op' \in [Callers -> {"resting", "voltage", "current", "power", "switches", "writing",
                                "confirming"}]
        /\ \A d \in Callers : d # m => /\ op'[d] = op[d] /\ request'[d] = request[d]
                                       /\ phase'[d] = phase[d]
    BY <1>1, <1>2, AskIsACall
  <2>3. Asked' BY <1>1, <1>2, <2>2, ControllerIsNoMeter DEF BaseInv, Asked
  <2> QED BY <1>1, <2>1, <2>3 DEF BusProofs!Next
<1>3. CASE ReadVoltage(m) BY <1>2, <1>3, RequestsAreKnown DEF ReadVoltage
<1>4. CASE ReadNext(m, "voltage", registerCurrentA, "current")
  BY <1>2, <1>4, RequestsAreKnown DEF ReadNext
<1>5. CASE ReadNext(m, "current", registerPowerA, "power")
  BY <1>2, <1>5, RequestsAreKnown DEF ReadNext
<1>6. CASE Measured(m) BY <1>2, <1>6, RequestsAreKnown DEF Measured
<1>7. CASE MeasurementFails(m) BY <1>2, <1>7, RequestsAreKnown DEF MeasurementFails
<1>8. CASE SwitchesRead(m, m)
  BY <1>1, <1>8, ControllerIsNoMeter DEF SwitchesRead, BaseInv, Asked, bus, Returned
<1> QED BY <1>3, <1>4, <1>5, <1>6, <1>7, <1>8 DEF Collect

\* So does the controller's.
LEMMA ExecuteKeepsAsked ==
  ASSUME BaseInv, Execute
  PROVE  Asked' /\ (BusProofs!Next \/ UNCHANGED bus)
<1>1. Controller \in Callers /\ Controller \notin Meters /\ Meters \subseteq Callers
  BY ControllerIsNoMeter
<1>2. ASSUME NEW r \in BusRequests, NEW next \in {"switches", "writing", "confirming"},
             Ask(Controller, r, next), command' \in Commands,
             \/ next = "writing" /\ r = WriteCoil(command')
             \/ next = "confirming" /\ r = ReadOneRegister(command'.meter, registerDOStatus)
             \/ next = "switches" /\ r = ReadSwitches(command'.meter)
      PROVE  Asked' /\ BusProofs!Next
  <2>1. BusProofs!Call(Controller, r) BY <1>1, <1>2, AskIsACall
  <2>2. /\ op'[Controller] = next /\ request'[Controller] = r /\ phase'[Controller] = "locking"
        /\ op' \in [Callers -> {"resting", "voltage", "current", "power", "switches", "writing",
                                "confirming"}]
        /\ \A d \in Callers : d # Controller => /\ op'[d] = op[d] /\ request'[d] = request[d]
                                                /\ phase'[d] = phase[d]
    BY <1>1, <1>2, AskIsACall
  <2>3. Asked' BY <1>1, <1>2, <2>2 DEF BaseInv, Asked
  <2> QED BY <1>1, <2>1, <2>3 DEF BusProofs!Next
<1>3. op[Controller] \in {"writing", "confirming", "switches"} => command \in Commands
  BY DEF BaseInv, Asked
<1>4. ASSUME NEW c \in Commands, Control(c) PROVE Asked' /\ BusProofs!Next
  BY <1>2, <1>4, RequestsAreKnown DEF Control
<1>5. CASE CoilWritten BY <1>2, <1>3, <1>5, RequestsAreKnown DEF CoilWritten, Confirm
<1>6. CASE OtherState BY <1>2, <1>3, <1>6, RequestsAreKnown DEF OtherState, Confirm
<1>7. ASSUME NEW states, NEW why, Finish(states, why), op[Controller] \in {"writing", "confirming"}
      PROVE  Asked' /\ BusProofs!Next
  BY <1>2, <1>3, <1>7, RequestsAreKnown DEF Finish
<1>8. CASE ConfirmedState \/ NeverFollowed \/ ControlFails
  BY <1>7, <1>8 DEF ConfirmedState, NeverFollowed, ControlFails
<1>9. CASE SwitchesRead(Controller, command.meter)
  BY <1>1, <1>9 DEF SwitchesRead, BaseInv, Asked, bus, Returned
<1> QED BY <1>4, <1>5, <1>6, <1>8, <1>9 DEF Execute

\* Every step of the driver is a step of the bus, or leaves it alone.
LEMMA DriverUsesTheBus ==
  ASSUME BaseInv, [Next]_vars
  PROVE  Asked' /\ [BusProofs!Next]_(BusProofs!vars)
<1>1. UNCHANGED bus => UNCHANGED BusProofs!vars BY DEF bus, BusProofs!vars
<1>2. ASSUME NEW m \in Meters, Collect(m) PROVE Asked' /\ (BusProofs!Next \/ UNCHANGED bus)
  BY <1>2, CollectKeepsAsked
<1>3. CASE Execute BY <1>3, <1>1, ExecuteKeepsAsked
<1>4. ASSUME NEW c \in Callers, Transact(c) PROVE Asked' /\ BusProofs!Next
  <2>1. Asked' BY <1>4, TransactIsABusStep DEF BaseInv, Asked, calls
  <2> QED BY <1>4, <2>1, TransactIsABusStep DEF BusProofs!Next
<1>5. ASSUME NEW f \in pending, Answer(f) PROVE Asked' /\ BusProofs!Next
  <2>1. Asked' BY <1>5, AnswerIsABusStep DEF BaseInv, Asked, calls
  <2> QED BY <1>5, <2>1, AnswerIsABusStep DEF BusProofs!Next
<1>6. ASSUME NEW m \in Meters, NEW ch \in Channels, Follow(m, ch) PROVE Asked' /\ UNCHANGED bus
  BY <1>6 DEF Follow, bus, calls, BaseInv, Asked
<1>7. CASE UNCHANGED vars
  <2>1. UNCHANGED bus BY <1>7 DEF vars
  <2>2. Asked' BY <1>7 DEF vars, bus, calls, BaseInv, Asked
  <2> QED BY <1>1, <2>1, <2>2
<1> QED BY <1>1, <1>2, <1>3, <1>4, <1>5, <1>6, <1>7 DEF Next

LEMMA BaseInductive == BaseInv /\ [Next]_vars => BaseInv'
BY DriverUsesTheBus, BusProofs!TypeInductive, BusAssumptions, LineAssumption DEF BaseInv

\* The driver uses the line as Rs485Bus describes it.
THEOREM UsesTheBus == Spec => BusProofs!Spec /\ []BaseInv
<1>1. Init => BusProofs!Init BY DEF Init, Bus!Init, BusProofs!Init
<1>2. BusProofs!Init => BusProofs!TypeInv
  BY BusAssumptions, LineAssumption DEF BusProofs!Init, BusProofs!TypeInv, BusProofs!TypeOK
<1>3. Init => Asked BY ControllerIsNoMeter DEF Init, Bus!Init, Asked
<1>4. Init => BaseInv BY <1>1, <1>2, <1>3 DEF BaseInv
<1>5. BaseInv /\ [Next]_vars => [BusProofs!Next]_(BusProofs!vars) BY DriverUsesTheBus
<1> QED BY <1>1, <1>4, <1>5, BaseInductive, PTL DEF Spec, BusProofs!Spec

\* While no answer is late or damaged each register access of the driver is atomic: its meter acts on it
\* once at most, between its call and its return, with nobody else's in between, and the value it
\* returns answers its own request.
THEOREM AccessesAreAtomic ==
  ASSUME ~Late, ~Noise
  PROVE  Spec => BusProofs!ImplementsAtomicBus
<1>1. BusProofs!Spec => BusProofs!ImplementsAtomicBus
  BY BusProofs!Implementation, BusAssumptions, LineAssumption
<1> QED BY <1>1, UsesTheBus, PTL

-----------------------------------------------------------------------------
(* Types *)

Causes == {"none", "timeout", "exception", "crc", "unexpected", "other"}
Acks == [success : BOOLEAN, actual : SUBSET BOOLEAN,
         code : {"", "MODBUS_TIMEOUT", "STATE_MISMATCH", "MODBUS_EXCEPTION", "MODBUS_CRC_ERROR",
                 "MODBUS_ERROR"}]

Typed ==
  /\ cause \in Causes
  /\ got \in [Meters -> Seq(uint16)]
  /\ attempt \in 0..ConfirmAttempts
  /\ seen \in SUBSET BOOLEAN
  /\ ack \in Acks \cup {None}
  /\ coil \in [Meters -> SUBSET Channels] /\ relay \in [Meters -> SUBSET Channels]
  /\ shown \in [1..MaxExchanges -> SUBSET Channels]

\* A register that was asked for alone is a word, whoever's answer was taken for it.
LEMMA OneRegisterIsAWord ==
  ASSUME BaseInv, Typed, BusProofs!AnswerFromAskedMeter, NEW m \in Meters,
         NEW a \in {registerVoltageA, registerCurrentA, registerPowerA, registerDOStatus},
         NEW c \in Callers, Succeeded(c), request[c] = ReadOneRegister(m, a)
  PROVE  Raw(c, 0) \in uint16
<1> DEFINE f == CHOOSE g \in accepted[c] : TRUE
<1>1. f \in accepted[c] BY DEF Succeeded
<1>2. f \in BusProofs!Frames BY <1>1 DEF BaseInv, BusProofs!TypeInv, BusProofs!TypeOK
<1>3. /\ f.exchange \in 1..MaxExchanges /\ f.request \in BusRequests
      /\ f.request.slave = m /\ f.request.function = 3 /\ f.request.echo = 1
  BY <1>1, <1>2 DEF BusProofs!Frames, BusProofs!AnswerFromAskedMeter, ReadOneRegister, Read
<1>4. f.request.address \in {70, 76, 79, 310}
  <2> HIDE DEF f
  <2>1. CASE \E n \in Meters, b \in {70, 76, 79, 310} : f.request = ReadOneRegister(n, b)
    BY <2>1 DEF ReadOneRegister, Read
  <2>2. CASE \E n \in Meters : f.request = ReadSwitches(n)
    BY <1>3, <2>2 DEF ReadSwitches, Read
  <2>3. CASE \E n \in Meters, ch \in Channels, w \in BOOLEAN :
               f.request = WriteCoil([meter |-> n, channel |-> ch, want |-> w])
    BY <1>3, <2>3 DEF WriteCoil
  <2> QED BY <1>3, <2>1, <2>2, <2>3, KindsOfRequests
<1> HIDE DEF f
<1>5. Raw(c, 0) = IF f.request.address = 310 THEN Word(shown[f.exchange])
                  ELSE Readings[m][f.request.address]
  <2>1. Raw(c, 0) = Value(f, 0) BY DEF Raw, f
  <2>2. f.request.address + 0 = f.request.address BY <1>4
  <2> QED BY <1>3, <2>1, <2>2 DEF Value, registerDOStatus
<1>6. Word(shown[f.exchange]) \in uint16 BY DEF Word, uint16
<1>7. f.request.address # 310 => f.request.address \in Registers
  BY <1>4 DEF Registers, registerVoltageA, registerCurrentA, registerPowerA, registerDIStatus
<1>8. f.request.address # 310 => Readings[m][f.request.address] \in uint16
  BY <1>7, MeterAssumption
<1> QED BY <1>5, <1>6, <1>8

\* Nothing but the controller's steps touches its bookkeeping.
LEMMA OthersStandAside ==
  ASSUME BaseInv, NEW c \in Callers, Transact(c) \/ \E f \in pending : Answer(f)
  PROVE  UNCHANGED <<op, got, report, status, command, attempt, seen, ack>>
BY DEF Transact, Answer, calls

\* What a finished control publishes.
LEMMA Finished ==
  ASSUME Typed, NEW states \in SUBSET BOOLEAN,
         NEW why \in (Causes \cup {"mismatch"}), Finish(states, why)
  PROVE  /\ ack' \in Acks /\ seen' = states
         /\ ack'.success = (why = "none") /\ ack'.actual = states
         /\ why = "none" => ack'.code = ""
         /\ why # "none" => ack'.code # ""
         /\ ack'.code = "STATE_MISMATCH" <=> why = "mismatch"
<1> DEFINE code == IF why = "none" THEN "" ELSE controlErrorCode(why)
<1>1. code \in {"", "MODBUS_TIMEOUT", "STATE_MISMATCH", "MODBUS_EXCEPTION", "MODBUS_CRC_ERROR",
                "MODBUS_ERROR"}
  BY DEF controlErrorCode, Causes
<1>2. /\ why = "none" => code = ""
      /\ why # "none" => code # ""
      /\ code = "STATE_MISMATCH" <=> why = "mismatch"
  BY DEF controlErrorCode, Causes
<1>3. ack' = [success |-> why = "none", actual |-> states, code |-> code] /\ seen' = states
  BY DEF Finish
<1> HIDE DEF code
<1>4. (why = "none") \in BOOLEAN OBVIOUS
<1> QED BY <1>1, <1>2, <1>3, <1>4 DEF Acks

\* While a control is under way only contradicting states have been seen, nothing is acknowledged, and
\* a transaction that failed has a cause.
AckInv ==
  /\ Typed
  /\ AckAgreesWithItself
  /\ op[Controller] \in {"writing", "confirming"} =>
       /\ seen \subseteq {~command.want} /\ ack = None
       /\ phase[Controller] = "idle" /\ accepted[Controller] = {} => cause # "none"

\* What the acknowledgement's facts are about.
ackState == <<op[Controller], phase[Controller], accepted[Controller], command, seen, ack, cause>>

LEMMA AckStays ==
  ASSUME AckInv, Typed', UNCHANGED ackState
  PROVE  AckInv'
BY DEF AckInv, AckAgreesWithItself, ackState

LEMMA CollectKeepsAcks ==
  ASSUME BaseInv, BusProofs!AnswerFromAskedMeter, AckInv, NEW m \in Meters, Collect(m)
  PROVE  AckInv'
<1>1. m \in Callers /\ m # Controller /\ Controller \in Callers BY ControllerIsNoMeter
<1>2. ASSUME NEW r \in BusRequests, NEW next \in {"voltage", "current", "power", "switches"},
             Ask(m, r, next), NEW values \in Seq(uint16), got' = [got EXCEPT ![m] = values],
             UNCHANGED <<command, attempt, seen, ack>>
      PROVE  AckInv'
  <2>1. /\ op'[Controller] = op[Controller] /\ phase'[Controller] = phase[Controller]
        /\ accepted'[Controller] = accepted[Controller] /\ cause' = cause
        /\ UNCHANGED <<coil, relay, shown>>
    BY <1>1, <1>2, AskIsACall
  <2>2. Typed' BY <1>2, <2>1 DEF AckInv, Typed
  <2> QED BY <1>2, <2>1, <2>2, AckStays DEF ackState
<1>3. <<>> \in Seq(uint16) OBVIOUS
<1>4. CASE ReadVoltage(m) BY <1>2, <1>3, <1>4, RequestsAreKnown DEF ReadVoltage
<1>5. ASSUME NEW from \in {"voltage", "current"}, NEW to \in {"current", "power"},
             NEW address \in {registerCurrentA, registerPowerA}, ReadNext(m, from, address, to)
      PROVE  AckInv'
  <2>1. \E a \in {registerVoltageA, registerCurrentA, registerPowerA, registerDOStatus} :
          request[m] = ReadOneRegister(m, a)
    BY <1>5 DEF ReadNext, BaseInv, Asked
  <2>2. Raw(m, 0) \in uint16 BY <1>1, <1>5, <2>1, OneRegisterIsAWord DEF ReadNext, AckInv
  <2>3. got[m] \in Seq(uint16) BY DEF AckInv, Typed
  <2>4. Append(got[m], Raw(m, 0)) \in Seq(uint16) BY <2>2, <2>3
  <2>5. got' = [got EXCEPT ![m] = Append(got[m], Raw(m, 0))] BY <1>5 DEF ReadNext
  <2> QED BY <1>2, <1>5, <2>4, <2>5, RequestsAreKnown DEF ReadNext
<1>6. CASE Measured(m) BY <1>2, <1>3, <1>6, RequestsAreKnown DEF Measured
<1>7. CASE MeasurementFails(m) BY <1>2, <1>3, <1>7, RequestsAreKnown DEF MeasurementFails
<1>8. CASE SwitchesRead(m, m)
  <2>1. op'[Controller] = op[Controller] BY <1>1, <1>8 DEF SwitchesRead, BaseInv, Asked
  <2>2. Typed' BY <1>8 DEF SwitchesRead, AckInv, Typed, plant
  <2> QED BY <1>8, <2>1, <2>2, AckStays DEF SwitchesRead, ackState, bus
<1> QED BY <1>4, <1>5, <1>6, <1>7, <1>8 DEF Collect

LEMMA ExecuteKeepsAcks ==
  ASSUME BaseInv, AckInv, Execute
  PROVE  AckInv'
<1> DEFINE st == State
<1>1. Controller \in Callers /\ Controller \notin Meters BY ControllerIsNoMeter
<1>2. op[Controller] # "resting" => command \in Commands /\ command.want \in BOOLEAN
  BY RequestsAreKnown DEF BaseInv, Asked
<1>3. st \in BOOLEAN BY DEF State, bitIsSet
<1>4. ASSUME NEW c \in Commands, Control(c) PROVE AckInv'
  <2>1. /\ phase'[Controller] = "locking" /\ cause' = "none" /\ UNCHANGED <<coil, relay, shown>>
    BY <1>1, <1>4, AskIsACall, RequestsAreKnown DEF Control
  <2>2. got' = got /\ attempt' = 0 /\ seen' = {} /\ ack' = None BY <1>4 DEF Control
  <2>3. Typed' BY <2>1, <2>2, MeterAssumption DEF AckInv, Typed, Causes
  <2> QED BY <2>1, <2>2, <2>3 DEF AckInv, AckAgreesWithItself
<1>5. ASSUME op[Controller] \in {"writing", "confirming"}, Confirm, attempt' \in 0..ConfirmAttempts,
             seen' \in SUBSET {~command.want}, UNCHANGED <<got, command, ack>>
      PROVE  AckInv'
  <2>1. /\ phase'[Controller] = "locking" /\ cause' = "none" /\ UNCHANGED <<coil, relay, shown>>
    BY <1>1, <1>2, <1>5, AskIsACall, RequestsAreKnown DEF Confirm
  <2>2. seen' \in SUBSET BOOLEAN BY <1>2, <1>5
  <2>3. Typed' BY <1>5, <2>1, <2>2 DEF AckInv, Typed, Causes
  <2>4. ack' = None /\ ack = None BY <1>5 DEF AckInv
  <2> QED BY <1>5, <2>1, <2>3, <2>4 DEF AckInv, AckAgreesWithItself
<1>6. CASE CoilWritten
  <2>1. attempt' \in 0..ConfirmAttempts BY <1>6, MeterAssumption DEF CoilWritten
  <2>2. seen' \in SUBSET {~command.want} BY <1>6 DEF CoilWritten, AckInv
  <2> QED BY <1>5, <1>6, <2>1, <2>2 DEF CoilWritten
<1>7. CASE OtherState
  <2>1. attempt' \in 0..ConfirmAttempts BY <1>7, MeterAssumption DEF OtherState, AckInv, Typed
  <2>2. seen' \in SUBSET {~command.want} BY <1>2, <1>3, <1>7 DEF OtherState
  <2> QED BY <1>5, <1>7, <2>1, <2>2 DEF OtherState
<1>8. ASSUME op[Controller] \in {"writing", "confirming"},
             NEW states \in SUBSET BOOLEAN, NEW why \in (Causes \cup {"mismatch"}),
             Finish(states, why),
             why = "none" => states = {command.want},
             why # "none" => states \subseteq {~command.want},
             why = "mismatch" => states = {~command.want}
      PROVE  AckInv'
  <2>1. /\ op'[Controller] = "switches" /\ cause' = "none" /\ UNCHANGED <<coil, relay, shown>>
    BY <1>1, <1>2, <1>8, AskIsACall, RequestsAreKnown DEF Finish
  <2>2. Typed BY DEF AckInv
  <2>3. UNCHANGED <<got, command, attempt>> BY <1>8 DEF Finish
  <2>4. Typed' BY <1>8, <2>1, <2>2, <2>3, Finished DEF Typed, Causes
  <2>5. AckAgreesWithItself' BY <1>8, <2>2, <2>3, Finished DEF AckAgreesWithItself
  <2> QED BY <2>1, <2>4, <2>5 DEF AckInv
<1>9. CASE ConfirmedState
  BY <1>2, <1>3, <1>8, <1>9 DEF ConfirmedState, Causes
<1>10. CASE NeverFollowed
  <2>1. {st} = {~command.want} BY <1>2, <1>3, <1>10 DEF NeverFollowed
  <2> QED BY <1>3, <1>8, <1>10, <2>1 DEF NeverFollowed, Causes
<1>11. CASE ControlFails
  <2>1. cause \in Causes \ {"none"} /\ seen \subseteq {~command.want} /\ seen \in SUBSET BOOLEAN
    BY <1>11 DEF ControlFails, Failed, Returned, AckInv, Typed
  <2> QED BY <1>8, <1>11, <2>1 DEF ControlFails, Causes
<1>12. CASE SwitchesRead(Controller, command.meter)
  <2>1. op'[Controller] = "resting" BY <1>1, <1>12 DEF SwitchesRead, BaseInv, Asked
  <2>2. Typed' BY <1>12 DEF SwitchesRead, AckInv, Typed, plant
  <2> QED BY <1>12, <2>1, <2>2 DEF SwitchesRead, AckInv, AckAgreesWithItself
<1> QED BY <1>4, <1>6, <1>7, <1>9, <1>10, <1>11, <1>12 DEF Execute

\* What a meter does changes its coils and what it shows, within their types.
LEMMA ActIsTyped ==
  ASSUME Typed, NEW f \in BusProofs!Frames, Act(f)
  PROVE  coil' \in [Meters -> SUBSET Channels] /\ relay' \in [Meters -> SUBSET Channels]
         /\ shown' \in [1..MaxExchanges -> SUBSET Channels]
<1>1. f.exchange \in 1..MaxExchanges /\ f.request \in BusRequests BY DEF BusProofs!Frames
<1>2. f.request.slave \in Meters /\ (f.request.function = 5 => f.request.address + 1 \in Channels)
  <2>1. CASE \E n \in Meters, b \in {70, 76, 79, 310} : f.request = ReadOneRegister(n, b)
    BY <2>1 DEF ReadOneRegister, Read
  <2>2. CASE \E n \in Meters : f.request = ReadSwitches(n)
    BY <2>2 DEF ReadSwitches, Read
  <2>3. CASE \E n \in Meters, ch \in Channels, w \in BOOLEAN :
               f.request = WriteCoil([meter |-> n, channel |-> ch, want |-> w])
    BY <2>3 DEF WriteCoil, Channels
  <2> QED BY <1>1, <2>1, <2>2, <2>3, KindsOfRequests
<1>3. CASE f.request.function = 5
  <2>1. relay' = relay /\ shown' = shown BY <1>3 DEF Act
  <2>2. \E s \in SUBSET Channels : coil' = [coil EXCEPT ![f.request.slave] = s]
    <3> DEFINE output == {f.request.address + 1}
               s == IF f.request.echo = 0 THEN coil[f.request.slave] \ output
                    ELSE coil[f.request.slave] \cup output
    <3>1. output \subseteq Channels /\ coil[f.request.slave] \subseteq Channels
      BY <1>2, <1>3 DEF Typed
    <3>2. coil' = [coil EXCEPT ![f.request.slave] = s] BY <1>3 DEF Act
    <3> HIDE DEF output
    <3>3. s \subseteq Channels BY <3>1
    <3> QED BY <3>2, <3>3
  <2> QED BY <2>1, <2>2 DEF Typed
<1>4. CASE f.request.function # 5 BY <1>1, <1>2, <1>4 DEF Act, Typed
<1> QED BY <1>3, <1>4

LEMMA AckInductive ==
  ASSUME BaseInv, BusProofs!AnswerFromAskedMeter, AckInv, [Next]_vars
  PROVE  AckInv'
<1>1. ASSUME NEW m \in Meters, Collect(m) PROVE AckInv' BY <1>1, CollectKeepsAcks
<1>2. CASE Execute BY <1>2, ExecuteKeepsAcks
<1>3. ASSUME NEW c \in Callers, Transact(c) PROVE AckInv'
  <2>1. UNCHANGED <<op, calls, plant>> BY <1>3 DEF Transact
  <2>2. cause' \in Causes BY <1>3 DEF Transact, AckInv, Typed, Causes
  <2>3. Typed' BY <2>1, <2>2 DEF AckInv, Typed, calls, plant
  <2>4. CASE c # Controller
    <3>1. phase'[Controller] = phase[Controller] /\ accepted'[Controller] = accepted[Controller]
      BY <1>3, <2>4, TransactIsABusStep, ControllerIsNoMeter
    <3>2. cause' = cause
      BY <1>3, <2>4, ControllerIsNoMeter DEF Transact, BaseInv, Asked, Callers
    <3> QED BY <2>1, <2>3, <3>1, <3>2, AckStays DEF ackState, calls
  <2>5. CASE c = Controller
    <3>1. op[Controller] \in {"writing", "confirming"} /\ phase'[Controller] = "idle" => cause' # "none"
      <4>1. Bus!Lock(c) \/ Bus!Write(c) => phase'[c] # "idle"
        BY ControllerIsNoMeter DEF Bus!Lock, Bus!Write, BaseInv, BusProofs!TypeInv, BusProofs!TypeOK
      <4> QED BY <1>3, <2>5, <4>1 DEF Transact
    <3> QED BY <2>1, <2>3, <3>1 DEF AckInv, AckAgreesWithItself, calls
  <2> QED BY <2>4, <2>5
<1>4. ASSUME NEW f \in pending, Answer(f) PROVE AckInv'
  <2>1. UNCHANGED <<phase, accepted, cause, op, calls>> BY <1>4, AnswerIsABusStep
  <2>2. f \in BusProofs!Frames BY DEF BaseInv, BusProofs!TypeInv, BusProofs!TypeOK
  <2>3. Act(f) \/ UNCHANGED plant BY <1>4 DEF Answer, Idle
  <2>4. Typed' BY <2>1, <2>2, <2>3, ActIsTyped DEF AckInv, Typed, calls, plant
  <2> QED BY <2>1, <2>4, AckStays DEF ackState, calls
<1>5. ASSUME NEW m \in Meters, NEW ch \in Channels, Follow(m, ch) PROVE AckInv'
  <2>1. Typed' BY <1>5 DEF Follow, AckInv, Typed, calls
  <2> QED BY <1>5, <2>1, AckStays DEF Follow, ackState, calls, bus
<1>6. CASE UNCHANGED vars
  BY <1>6, AckStays DEF vars, bus, calls, plant, AckInv, Typed, ackState
<1> QED BY <1>1, <1>2, <1>3, <1>4, <1>5, <1>6 DEF Next

LEMMA AcksHold == Spec => []AckInv
<1>1. Init => AckInv
  BY ControllerIsNoMeter, MeterAssumption, BusAssumptions, LineAssumption
     DEF Init, Bus!Init, AckInv, AckAgreesWithItself, Typed, Causes
<1>2. BaseInv /\ BusProofs!AnswerFromAskedMeter /\ AckInv /\ [Next]_vars => AckInv'
  BY AckInductive
<1>3. BusProofs!Spec => []BusProofs!AnswerFromAskedMeter
  BY BusProofs!AnswersAreFromAskedMeters, BusAssumptions, LineAssumption
<1> QED BY <1>1, <1>2, <1>3, UsesTheBus, PTL DEF Spec

\* Every variable keeps to its type: no step of the collectors, the controller, the line or the meters
\* leaves the values the code can hold.
THEOREM TypeCorrect == Spec => []TypeOK
<1>1. BaseInv /\ AckInv => TypeOK
  BY DEF BaseInv, Asked, AckInv, Typed, Causes, Acks, TypeOK, BusProofs!TypeInv, BusProofs!TypeOK,
     Bus!TypeOK, Bus!Frames, BusProofs!Frames
<1> QED BY <1>1, AcksHold, UsesTheBus, PTL

\* Whatever is late or damaged, an acknowledgement's actual state agrees with its verdict.
THEOREM AcksAgree == Spec => []AckAgreesWithItself
<1>1. AckInv => AckAgreesWithItself BY DEF AckInv
<1> QED BY <1>1, AcksHold, PTL

-----------------------------------------------------------------------------
(* On a line where no answer is late or damaged *)

LineInv == BaseInv /\ AckInv /\ BusProofs!InStep /\ BusProofs!Numbered

\* The line is in step for ever.
LEMMA LineHolds ==
  ASSUME ~Late, ~Noise
  PROVE  Spec => []LineInv
<1>1. BusProofs!Spec => []BusProofs!InStep
  BY BusProofs!StaysInStep, BusAssumptions, LineAssumption
<1>2. BusProofs!Spec => []BusProofs!Numbered
  BY BusProofs!NumbersHold, BusAssumptions, LineAssumption
<1> QED BY <1>1, <1>2, UsesTheBus, AcksHold, PTL DEF LineInv

\* A caller reads the registers it asked for.
LEMMA RawIsWhatWasAsked ==
  ASSUME LineInv, NEW c \in Callers, Succeeded(c), NEW k \in {0, 1},
         request[c].address \in {70, 76, 79, 310}
  PROVE  Raw(c, k) = IF request[c].address + k = 310 THEN Word(shown[exchange[c]])
                     ELSE Readings[request[c].slave][request[c].address + k]
<1> DEFINE f == CHOOSE g \in accepted[c] : TRUE
<1>1. f \in accepted[c] BY DEF Succeeded
<1>2. f.exchange = exchange[c] /\ f.request = request[c]
  BY <1>1 DEF LineInv, BusProofs!InStep, BusProofs!OwnAnswers
<1>3. Raw(c, k) = Value(f, k) BY DEF Raw, f
<1> HIDE DEF f
<1> QED BY <1>2, <1>3 DEF Value, registerDOStatus

Measurements == [voltage : uint16, current : uint16, power : Int]

\* The values read so far are the meter's own, in the order they were asked for.
Chain ==
  /\ report \in [Meters -> Measurements \cup {None}]
  /\ \A m \in Meters :
       /\ op[m] = "voltage" => Len(got[m]) = 0
       /\ op[m] = "current" => Len(got[m]) = 1 /\ got[m][1] = Readings[m][registerVoltageA]
       /\ op[m] = "power" => /\ Len(got[m]) = 2
                             /\ got[m][1] = Readings[m][registerVoltageA]
                             /\ got[m][2] = Readings[m][registerCurrentA]
  /\ MeasurementsAreTheMeters

LEMMA OneRegister ==
  ASSUME LineInv, NEW m \in Meters, NEW a \in {registerVoltageA, registerCurrentA, registerPowerA},
         Succeeded(m), request[m] = ReadOneRegister(m, a)
  PROVE  Raw(m, 0) = Readings[m][a]
<1>1. m \in Callers BY ControllerIsNoMeter
<1>2. a \in {70, 76, 79} BY DEF registerVoltageA, registerCurrentA, registerPowerA
<1>3. request[m].slave = m /\ request[m].address = a BY DEF ReadOneRegister, Read
<1>4. request[m].address \in {70, 76, 79, 310} /\ request[m].address + 0 = a /\ a # 310
  BY <1>2, <1>3
<1> QED BY <1>1, <1>3, <1>4, RawIsWhatWasAsked

LEMMA ReadingsAreWords ==
  \A m \in Meters : \A a \in {registerVoltageA, registerCurrentA, registerPowerA} :
    Readings[m][a] \in uint16
BY MeterAssumption DEF Registers

LEMMA ChainInductive ==
  ASSUME LineInv, Chain, [Next]_vars
  PROVE  Chain'
<1>1. BaseInv /\ got \in [Meters -> Seq(uint16)] BY DEF LineInv, AckInv, Typed
<1>2. CASE UNCHANGED <<op, got, report>> BY <1>2 DEF Chain, MeasurementsAreTheMeters
<1>3. ASSUME NEW m \in Meters, Collect(m) PROVE Chain'
  <2>1. m \in Callers /\ m # Controller BY ControllerIsNoMeter
  <2>2. ASSUME NEW r \in BusRequests, NEW next \in {"voltage", "current", "power", "switches"},
               Ask(m, r, next), NEW values \in Seq(uint16), got' = [got EXCEPT ![m] = values],
               next = "voltage" => Len(values) = 0,
               next = "current" => Len(values) = 1 /\ values[1] = Readings[m][registerVoltageA],
               next = "power" => /\ Len(values) = 2
                                 /\ values[1] = Readings[m][registerVoltageA]
                                 /\ values[2] = Readings[m][registerCurrentA],
               report' = [report EXCEPT ![m] = report'[m]],
               report'[m] \in Measurements \cup {None}, report'[m] \in {None, Measurement(m)}
        PROVE  Chain'
    <3>1. /\ op'[m] = next /\ got'[m] = values
          /\ \A n \in Meters : n # m => op'[n] = op[n] /\ got'[n] = got[n]
      BY <1>1, <2>1, <2>2, AskIsACall, ControllerIsNoMeter
    <3>2. \A n \in Meters : n # m => report'[n] = report[n] BY <2>2 DEF Chain
    <3>3. report' \in [Meters -> Measurements \cup {None}] BY <2>2 DEF Chain
    <3>4. MeasurementsAreTheMeters'
      BY <2>2, <3>2 DEF Chain, MeasurementsAreTheMeters, Measurement
    <3> QED BY <2>2, <3>1, <3>3, <3>4 DEF Chain
  <2>3. report[m] \in Measurements \cup {None} /\ report[m] \in {None, Measurement(m)}
    BY DEF Chain, MeasurementsAreTheMeters
  <2>4. report = [report EXCEPT ![m] = report[m]] BY DEF Chain
  <2>5. <<>> \in Seq(uint16) /\ Len(<<>>) = 0 OBVIOUS
  <2>6. CASE ReadVoltage(m)
    BY <2>2, <2>3, <2>4, <2>5, <2>6, RequestsAreKnown DEF ReadVoltage
  <2>7. CASE ReadNext(m, "voltage", registerCurrentA, "current")
    <3>1. Raw(m, 0) = Readings[m][registerVoltageA]
      BY <2>7, OneRegister DEF ReadNext, LineInv, BaseInv, Asked
    <3> DEFINE values == Append(got[m], Raw(m, 0))
    <3>2. Len(got[m]) = 0 /\ got[m] \in Seq(uint16) BY <1>1, <2>7 DEF ReadNext, Chain
    <3>3. values \in Seq(uint16) /\ Len(values) = 1 /\ values[1] = Readings[m][registerVoltageA]
      BY <3>1, <3>2, ReadingsAreWords
    <3>4. got' = [got EXCEPT ![m] = values] BY <2>7 DEF ReadNext
    <3> HIDE DEF values
    <3> QED BY <2>2, <2>3, <2>4, <2>7, <3>3, <3>4, RequestsAreKnown DEF ReadNext
  <2>8. CASE ReadNext(m, "current", registerPowerA, "power")
    <3>1. Raw(m, 0) = Readings[m][registerCurrentA]
      BY <2>8, OneRegister DEF ReadNext, LineInv, BaseInv, Asked
    <3> DEFINE values == Append(got[m], Raw(m, 0))
    <3>2. Len(got[m]) = 1 /\ got[m] \in Seq(uint16) /\ got[m][1] = Readings[m][registerVoltageA]
      BY <1>1, <2>8 DEF ReadNext, Chain
    <3>3. /\ values \in Seq(uint16) /\ Len(values) = 2 /\ values[1] = Readings[m][registerVoltageA]
          /\ values[2] = Readings[m][registerCurrentA]
      BY <3>1, <3>2, ReadingsAreWords
    <3>4. got' = [got EXCEPT ![m] = values] BY <2>8 DEF ReadNext
    <3> HIDE DEF values
    <3> QED BY <2>2, <2>3, <2>4, <2>8, <3>3, <3>4, RequestsAreKnown DEF ReadNext
  <2>9. CASE Measured(m)
    <3>1. Raw(m, 0) = Readings[m][registerPowerA]
      BY <2>9, OneRegister DEF Measured, LineInv, BaseInv, Asked
    <3>3. got[m][1] = Readings[m][registerVoltageA] /\ got[m][2] = Readings[m][registerCurrentA]
      BY <2>9 DEF Measured, Chain
    <3>4. measurementsFromRaw(got[m][1], got[m][2], Raw(m, 0)) = Measurement(m)
      BY <3>1, <3>3, ReadingsAreWords DEF measurementsFromRaw, Measurement, Signed, uint16
    <3>5. Measurement(m) \in Measurements
      BY ReadingsAreWords DEF Measurement, Measurements, uint16
    <3>6. report' = [report EXCEPT ![m] = Measurement(m)] BY <2>9, <3>4 DEF Measured
    <3>7. report'[m] = Measurement(m) BY <3>6 DEF Chain
    <3>8. got' = [got EXCEPT ![m] = <<>>] BY <2>9 DEF Measured
    <3> QED BY <2>2, <2>5, <2>9, <3>5, <3>6, <3>7, <3>8, RequestsAreKnown DEF Measured
  <2>10. CASE MeasurementFails(m)
    BY <2>2, <2>3, <2>4, <2>5, <2>10, RequestsAreKnown DEF MeasurementFails
  <2>11. CASE SwitchesRead(m, m)
    <3>1. op' = [op EXCEPT ![m] = "resting"] /\ op \in [Callers -> {"resting", "voltage", "current",
            "power", "switches", "writing", "confirming"}]
      BY <2>11 DEF SwitchesRead, LineInv, BaseInv, Asked
    <3>2. \A n \in Meters : op'[n] = op[n] \/ op'[n] = "resting" BY <3>1, ControllerIsNoMeter
    <3> QED BY <2>11, <3>2 DEF SwitchesRead, Chain, MeasurementsAreTheMeters
  <2> QED BY <1>3, <2>6, <2>7, <2>8, <2>9, <2>10, <2>11 DEF Collect
<1>4. CASE Execute
  <2>1. got' = got /\ report' = report
    BY <1>4 DEF Execute, Control, CoilWritten, ConfirmedState, OtherState, NeverFollowed,
       ControlFails, Finish, SwitchesRead
  <2>2. \A m \in Meters : op'[m] = op[m]
    <3>1. \E next : op' = [op EXCEPT ![Controller] = next]
      BY <1>4 DEF Execute, Control, CoilWritten, ConfirmedState, OtherState, NeverFollowed,
         ControlFails, Finish, Confirm, Ask, SwitchesRead
    <3>2. op \in [Callers -> {"resting", "voltage", "current", "power", "switches", "writing",
                              "confirming"}]
      BY DEF LineInv, BaseInv, Asked
    <3> QED BY <3>1, <3>2, ControllerIsNoMeter
  <2> QED BY <2>1, <2>2 DEF Chain, MeasurementsAreTheMeters
<1>5. CASE (\E c \in Callers : Transact(c)) \/ (\E f \in pending : Answer(f))
  BY <1>1, <1>2, <1>5, OthersStandAside, ControllerIsNoMeter
<1>6. CASE (\E m \in Meters, ch \in Channels : Follow(m, ch)) \/ UNCHANGED vars
  BY <1>2, <1>6 DEF Follow, calls, vars
<1> QED BY <1>3, <1>4, <1>5, <1>6 DEF Next

\* What is published as a meter's voltage, current and power are its own registers, each in its place
\* and with its sign, however the collectors and the controller share the line.
THEOREM MeasurementsAreRight ==
  ASSUME ~Late, ~Noise
  PROVE  Spec => []MeasurementsAreTheMeters
<1>1. Init => Chain BY ControllerIsNoMeter DEF Init, Chain, MeasurementsAreTheMeters
<1>2. LineInv /\ Chain /\ [Next]_vars => Chain' BY ChainInductive
<1>3. Chain => MeasurementsAreTheMeters BY DEF Chain
<1> QED BY <1>1, <1>2, <1>3, LineHolds, PTL DEF Spec

-----------------------------------------------------------------------------
(* The control *)

\* The status word has the bit of each output.
LEMMA BitsOfWord ==
  ASSUME NEW outputs \in SUBSET Channels, NEW ch \in Channels
  PROVE  bitIsSet(Word(outputs), ch - 1) = (ch \in outputs)
<1>1. CASE ch = 1
  <2>1. (Word(outputs) \div 1) % 2 = IF 1 \in outputs THEN 1 ELSE 0 BY DEF Word
  <2> QED BY <1>1, <2>1 DEF bitIsSet
<1>2. CASE ch = 2
  <2>1. (Word(outputs) \div 2) % 2 = IF 2 \in outputs THEN 1 ELSE 0 BY DEF Word
  <2> QED BY <1>2, <2>1 DEF bitIsSet
<1> QED BY <1>1, <1>2 DEF Channels

\* The controlled output is, among these, in the state asked for.
Wanted(outputs) == (command.channel \in outputs) = command.want

\* The answer to the controller's last request has left its meter.
Answered == BusProofs!Carried(Controller)

\* What an answer showed as the outputs is what they are.
Shows == Wanted(shown[exchange[Controller]])

Statuses == [meter : Meters, outputs : SUBSET Channels, inputs : SUBSET Channels]

\* The coil is as commanded once the write is answered, the output once an answer has shown it so.
ControlInv ==
  /\ status \in [Callers -> Statuses \cup {None}]
  /\ ack # None => command \in Commands
  /\ op[Controller] # "resting" => status[Controller] = None
  /\ op[Controller] = "writing" /\ Answered => Wanted(coil[command.meter])
  /\ op[Controller] = "confirming" => Wanted(coil[command.meter])
  /\ op[Controller] = "confirming" /\ Answered /\ Shows => Wanted(relay[command.meter])
  /\ op[Controller] = "switches" /\ Answered /\ ack # None /\ ack.success => Shows
  /\ SuccessIsReal
  /\ StatusFollowsSuccess

\* What those facts are about, the answers aside.
LEMMA ControlStays ==
  ASSUME ControlInv, status' \in [Callers -> Statuses \cup {None}],
         op'[Controller] = op[Controller], status'[Controller] = status[Controller],
         exchange'[Controller] = exchange[Controller],
         UNCHANGED <<command, ack, coil, relay, shown>>, Answered' => Answered
  PROVE  ControlInv'
BY DEF ControlInv, Wanted, Shows, SuccessIsReal, StatusFollowsSuccess

LEMMA CollectKeepsControl ==
  ASSUME LineInv, ControlInv, NEW m \in Meters, Collect(m)
  PROVE  ControlInv'
<1>1. m \in Callers /\ m # Controller /\ Controller \in Callers BY ControllerIsNoMeter
<1>2. BaseInv BY DEF LineInv
<1>3. ASSUME NEW r \in BusRequests, NEW next \in {"voltage", "current", "power", "switches"},
             Ask(m, r, next), UNCHANGED <<status, command, ack>>
      PROVE  ControlInv'
  <2>1. /\ op'[Controller] = op[Controller] /\ phase'[Controller] = phase[Controller]
        /\ accepted'[Controller] = accepted[Controller]
        /\ exchange'[Controller] = exchange[Controller] /\ UNCHANGED <<input, coil, relay, shown>>
    BY <1>1, <1>2, <1>3, AskIsACall
  <2>2. Answered' => Answered BY <2>1 DEF Answered, BusProofs!Carried
  <2> QED BY <1>3, <2>1, <2>2, ControlStays DEF ControlInv
<1>4. CASE ReadVoltage(m) BY <1>3, <1>4, RequestsAreKnown DEF ReadVoltage
<1>5. CASE ReadNext(m, "voltage", registerCurrentA, "current")
  BY <1>3, <1>5, RequestsAreKnown DEF ReadNext
<1>6. CASE ReadNext(m, "current", registerPowerA, "power")
  BY <1>3, <1>6, RequestsAreKnown DEF ReadNext
<1>7. CASE Measured(m) BY <1>3, <1>7, RequestsAreKnown DEF Measured
<1>8. CASE MeasurementFails(m) BY <1>3, <1>8, RequestsAreKnown DEF MeasurementFails
<1>9. CASE SwitchesRead(m, m)
  <2>1. op'[Controller] = op[Controller] BY <1>1, <1>2, <1>9 DEF SwitchesRead, BaseInv, Asked
  <2>2. \A o, i : Snapshot(m, o, i) \in Statuses BY DEF Snapshot, Statuses
  <2>3. status' \in [Callers -> Statuses \cup {None}] /\ status'[Controller] = status[Controller]
    BY <1>1, <1>9, <2>2 DEF SwitchesRead, ControlInv
  <2>4. Answered' => Answered BY <1>9 DEF SwitchesRead, bus, Answered, BusProofs!Carried
  <2> QED BY <1>9, <2>1, <2>3, <2>4, ControlStays DEF SwitchesRead, bus, plant
<1> QED BY <1>4, <1>5, <1>6, <1>7, <1>8, <1>9 DEF Collect

\* A read of the outputs that succeeded tells what its answer showed.
LEMMA ReadOutputs ==
  ASSUME LineInv, Succeeded(Controller), op[Controller] \in {"confirming", "switches"}
  PROVE  /\ Answered /\ command \in Commands
         /\ \A ch \in Channels :
              bitIsSet(Raw(Controller, 0), ch - 1) = (ch \in shown[exchange[Controller]])
<1>1. Controller \in Callers BY ControllerIsNoMeter
<1>2. Answered BY DEF Succeeded, Returned, Answered, BusProofs!Carried
<1>3. command \in Commands /\ request[Controller].address = 310
  BY DEF LineInv, BaseInv, Asked, ReadOneRegister, ReadSwitches, Read, registerDOStatus
<1>4. request[Controller].address + 0 = 310 BY <1>3
<1>5. Raw(Controller, 0) = Word(shown[exchange[Controller]])
  BY <1>1, <1>3, <1>4, RawIsWhatWasAsked
<1>6. exchange[Controller] \in 1..MaxExchanges
  <2>1. PICK f : f \in accepted[Controller] BY DEF Succeeded
  <2>2. f \in BusProofs!Frames
    BY <1>1, <2>1 DEF LineInv, BaseInv, BusProofs!TypeInv, BusProofs!TypeOK
  <2>3. f.exchange = exchange[Controller]
    BY <1>1, <2>1 DEF LineInv, BusProofs!InStep, BusProofs!OwnAnswers
  <2> QED BY <2>2, <2>3 DEF BusProofs!Frames
<1>7. shown[exchange[Controller]] \in SUBSET Channels
  BY <1>6 DEF LineInv, AckInv, Typed
<1> QED BY <1>2, <1>3, <1>5, <1>7, BitsOfWord

LEMMA ExecuteKeepsControl ==
  ASSUME LineInv, ControlInv, Execute
  PROVE  ControlInv'
<1> DEFINE st == State
<1>1. Controller \in Callers /\ Controller \notin Meters BY ControllerIsNoMeter
<1>2. BaseInv /\ AckInv /\ Typed BY DEF LineInv, AckInv
<1>3. op[Controller] # "resting" =>
        command \in Commands /\ command.want \in BOOLEAN /\ command.channel \in Channels
  BY <1>2, RequestsAreKnown DEF BaseInv, Asked
<1>4. ASSUME NEW r \in BusRequests, NEW next \in {"switches", "writing", "confirming"},
             Ask(Controller, r, next)
      PROVE  /\ op'[Controller] = next /\ ~Answered' /\ UNCHANGED <<coil, relay, shown>>
  <2>1. /\ phase'[Controller] = "locking" /\ op'[Controller] = next
        /\ UNCHANGED <<coil, relay, shown>>
    BY <1>1, <1>2, <1>4, AskIsACall
  <2> QED BY <2>1 DEF Answered, BusProofs!Carried
<1>5. ASSUME NEW c \in Commands, Control(c) PROVE ControlInv'
  <2>1. op'[Controller] = "writing" /\ ~Answered'
    BY <1>4, <1>5, RequestsAreKnown DEF Control
  <2>2. ack' = None /\ status' = [status EXCEPT ![Controller] = None] BY <1>5 DEF Control
  <2>3. status' \in [Callers -> Statuses \cup {None}] /\ status'[Controller] = None
    BY <1>1, <2>2 DEF ControlInv
  <2> QED BY <2>1, <2>2, <2>3 DEF ControlInv, SuccessIsReal, StatusFollowsSuccess
<1>6. ASSUME op[Controller] \in {"writing", "confirming"}, Confirm, Wanted(coil[command.meter]),
             UNCHANGED <<status, command, ack>>
      PROVE  ControlInv'
  <2>1. op'[Controller] = "confirming" /\ ~Answered' /\ UNCHANGED <<coil, relay, shown>>
    BY <1>3, <1>4, <1>6, RequestsAreKnown DEF Confirm
  <2>2. ack = None BY <1>2, <1>6 DEF AckInv
  <2> QED BY <1>6, <2>1, <2>2 DEF ControlInv, Wanted, SuccessIsReal, StatusFollowsSuccess
<1>7. CASE CoilWritten
  <2>1. Answered BY <1>7 DEF CoilWritten, Succeeded, Returned, Answered, BusProofs!Carried
  <2> QED BY <1>6, <1>7, <2>1 DEF CoilWritten, ControlInv
<1>8. CASE OtherState BY <1>6, <1>8 DEF OtherState, ControlInv
<1>9. ASSUME op[Controller] \in {"writing", "confirming"},
             NEW states \in SUBSET BOOLEAN, NEW why \in (Causes \cup {"mismatch"}),
             Finish(states, why),
             why = "none" => Wanted(coil[command.meter]) /\ Wanted(relay[command.meter])
      PROVE  ControlInv'
  <2>1. op'[Controller] = "switches" /\ ~Answered' /\ UNCHANGED <<coil, relay, shown>>
    BY <1>3, <1>4, <1>9, RequestsAreKnown DEF Finish
  <2>2. UNCHANGED <<status, command>> BY <1>9 DEF Finish
  <2>3. ack'.success = (why = "none") BY <1>2, <1>9, Finished
  <2>4. SuccessIsReal' BY <1>9, <2>1, <2>2, <2>3 DEF SuccessIsReal, Wanted
  <2> QED BY <1>3, <1>9, <2>1, <2>2, <2>4 DEF ControlInv, StatusFollowsSuccess
<1>10. CASE ConfirmedState
  <2>1. Answered /\ st = (command.channel \in shown[exchange[Controller]])
    BY <1>3, <1>10, ReadOutputs DEF ConfirmedState, State
  <2>2. Shows BY <1>10, <2>1 DEF ConfirmedState, Shows, Wanted
  <2>3. Wanted(coil[command.meter]) /\ Wanted(relay[command.meter])
    BY <1>10, <2>1, <2>2 DEF ConfirmedState, ControlInv
  <2>4. st \in BOOLEAN BY DEF State, bitIsSet
  <2> QED BY <1>9, <1>10, <2>3, <2>4 DEF ConfirmedState, Causes
<1>11. CASE NeverFollowed
  <2>1. st \in BOOLEAN BY DEF State, bitIsSet
  <2> QED BY <1>9, <1>11, <2>1 DEF NeverFollowed, Causes
<1>12. CASE ControlFails
  <2>1. cause \in Causes \ {"none"} /\ seen \in SUBSET BOOLEAN
    BY <1>2, <1>12 DEF ControlFails, Failed, Returned, AckInv, Typed
  <2> QED BY <1>9, <1>12, <2>1 DEF ControlFails
<1>13. CASE SwitchesRead(Controller, command.meter)
  <2>1. op'[Controller] = "resting" BY <1>1, <1>2, <1>13 DEF SwitchesRead, BaseInv, Asked
  <2>2. UNCHANGED <<coil, relay, shown, command, ack>> BY <1>13 DEF SwitchesRead, plant
  <2>3. command.meter \in Meters
    BY <1>3, <1>13, RequestsAreKnown DEF SwitchesRead
  <2>4. SuccessIsReal' BY <2>2 DEF ControlInv, SuccessIsReal
  <2>5. CASE Failed(Controller)
    <3>1. status' = status /\ status[Controller] = None
      BY <1>13, <2>5 DEF SwitchesRead, ControlInv
    <3> QED BY <2>1, <2>2, <2>4, <3>1 DEF ControlInv, StatusFollowsSuccess
  <2>6. CASE ~Failed(Controller)
    <3>1. Succeeded(Controller) BY <1>13, <2>6 DEF SwitchesRead, Succeeded, Failed
    <3> DEFINE snapshot == Snapshot(command.meter, Raw(Controller, 0), Raw(Controller, 1))
    <3>2. /\ snapshot \in Statuses /\ snapshot.meter = command.meter
          /\ \A ch \in Channels :
               ch \in snapshot.outputs <=> bitIsSet(Raw(Controller, 0), ch - 1)
      BY <2>3 DEF Snapshot, Statuses
    <3>3. status' = [status EXCEPT ![Controller] = snapshot]
      BY <1>13, <2>6 DEF SwitchesRead
    <3> HIDE DEF snapshot
    <3>4. status' \in [Callers -> Statuses \cup {None}] /\ status'[Controller] = snapshot
      BY <1>1, <3>2, <3>3 DEF ControlInv
    <3>5. Answered /\ \A ch \in Channels :
            ch \in snapshot.outputs <=> ch \in shown[exchange[Controller]]
      BY <1>13, <3>1, <3>2, ReadOutputs DEF SwitchesRead
    <3>6. StatusFollowsSuccess'
      BY <1>3, <1>13, <2>2, <3>2, <3>4, <3>5
         DEF StatusFollowsSuccess, ControlInv, Shows, Wanted, SwitchesRead
    <3> QED BY <2>1, <2>2, <2>4, <3>4, <3>6 DEF ControlInv
  <2> QED BY <2>5, <2>6
<1> QED BY <1>5, <1>7, <1>8, <1>10, <1>11, <1>12, <1>13 DEF Execute

\* A meter that takes a coil's state does what the controller is writing.
LEMMA CoilIsTheCommands ==
  ASSUME LineInv, NEW f \in pending, Act(f), f.request.function = 5
  PROVE  /\ op[Controller] = "writing" /\ command \in Commands
         /\ relay' = relay /\ shown' = shown
         /\ coil' = [coil EXCEPT ![command.meter] =
                       IF command.want THEN @ \cup {command.channel} ELSE @ \ {command.channel}]
<1>1. PICK c \in Callers : phase[c] = "awaiting" /\ f.request = request[c]
  BY BusProofs!SomebodyAsked, BusAssumptions, LineAssumption DEF LineInv, BusProofs!Answers
<1>2. op[c] # "resting" BY <1>1 DEF LineInv, BaseInv, Asked
<1>3. \A m \in Meters : op[m] # "resting" => request[m].function = 3
  <2> SUFFICES ASSUME NEW m \in Meters, op[m] # "resting" PROVE request[m].function = 3
    OBVIOUS
  <2>1. op[m] \in {"voltage", "current", "power", "switches"}
    BY ControllerIsNoMeter DEF LineInv, BaseInv, Asked
  <2>2. \E first, count : request[m] = Read(m, first, count)
    BY <2>1 DEF LineInv, BaseInv, Asked, ReadOneRegister, ReadSwitches
  <2> QED BY <2>2 DEF Read
<1>4. c = Controller BY <1>1, <1>2, <1>3 DEF Callers
<1>5. op[Controller] = "writing"
  <2>1. op[Controller] \in {"writing", "confirming", "switches"}
    BY <1>2, <1>4 DEF LineInv, BaseInv, Asked
  <2> QED BY <1>1, <1>4, <2>1 DEF LineInv, BaseInv, Asked, ReadOneRegister, ReadSwitches, Read
<1>6. command \in Commands /\ f.request = WriteCoil(command)
  BY <1>1, <1>4, <1>5 DEF LineInv, BaseInv, Asked
<1>7. command.channel \in {1, 2} /\ command.want \in BOOLEAN
  BY <1>6, RequestsAreKnown DEF Channels
<1>8. /\ f.request.slave = command.meter /\ f.request.address + 1 = command.channel
      /\ f.request.echo = 0 <=> ~command.want
  BY <1>6, <1>7 DEF WriteCoil
<1>9. coil' = [coil EXCEPT ![command.meter] =
                 IF command.want THEN @ \cup {command.channel} ELSE @ \ {command.channel}]
  BY <1>8 DEF Act
<1> QED BY <1>5, <1>6, <1>9 DEF Act

LEMMA AnswerKeepsControl ==
  ASSUME LineInv, ControlInv, NEW f \in pending, Answer(f)
  PROVE  ControlInv'
<1>1. UNCHANGED <<phase, request, exchange, accepted, cause, op, calls>>
  BY AnswerIsABusStep
<1>2. UNCHANGED <<op, status, command, ack, exchange>> BY <1>1 DEF calls
<1>3. Controller \in Callers BY ControllerIsNoMeter
<1>4. Answered' => Answered \/ (/\ phase[Controller] = "awaiting" /\ ~f.exception
                               /\ BusProofs!Answers(f, Controller) /\ Bus!Deliver(f))
  <2>1. CASE Bus!Lose(f)
    BY <1>1, <2>1 DEF Bus!Lose, Answered, BusProofs!Carried
  <2>2. CASE Bus!Deliver(f)
    <3>1. BusProofs!Deliver(f)
      BY <2>2 DEF Bus!Deliver, BusProofs!Deliver, Bus!Oldest, BusProofs!Oldest, Bus!Bytes,
         BusProofs!Bytes, Bus!Length, BusProofs!Length
    <3> QED
      BY <1>3, <2>2, <3>1, BusProofs!CarriedByDelivery, BusAssumptions, LineAssumption
         DEF Answered, LineInv, BaseInv
  <2> QED BY <2>1, <2>2 DEF Answer
<1>5. CASE Act(f) /\ f.request.function = 5
  <2>1. /\ op[Controller] = "writing" /\ command \in Commands
        /\ relay' = relay /\ shown' = shown
        /\ coil' = [coil EXCEPT ![command.meter] =
                      IF command.want THEN @ \cup {command.channel} ELSE @ \ {command.channel}]
    BY <1>5, CoilIsTheCommands
  <2>2. command.meter \in Meters /\ command.want \in BOOLEAN /\ ack = None
    BY <2>1, RequestsAreKnown DEF LineInv, AckInv
  <2>3. Wanted(coil'[command.meter])
    BY <2>1, <2>2 DEF Wanted, LineInv, AckInv, Typed
  <2>4. Wanted(coil[command.meter])' BY <1>2, <2>3 DEF Wanted
  <2> QED BY <1>2, <2>1, <2>2, <2>4 DEF ControlInv, SuccessIsReal, StatusFollowsSuccess
<1>6. CASE Act(f) /\ f.request.function # 5
  <2>1. /\ f.request.function = 3 /\ f.request.address = registerDOStatus
        /\ shown' = [shown EXCEPT ![f.exchange] = relay[f.request.slave]]
        /\ UNCHANGED <<coil, relay>>
    BY <1>6 DEF Act
  <2>2. PICK d \in Callers : phase[d] = "awaiting" /\ BusProofs!Answers(f, d)
    BY BusProofs!SomebodyAsked, BusAssumptions, LineAssumption DEF LineInv
  <2>3. f.exchange = exchange[d] /\ f.request = request[d] BY <2>2 DEF BusProofs!Answers
  <2>4. f.exchange \in 1..MaxExchanges
    BY DEF LineInv, BaseInv, BusProofs!TypeInv, BusProofs!TypeOK, BusProofs!Frames
  <2>5. CASE d # Controller
    <3>1. exchange[d] # exchange[Controller]
      BY <1>3, <2>3, <2>4, <2>5 DEF LineInv, BusProofs!Numbered
    <3>2. shown'[exchange[Controller]] = shown[exchange[Controller]]
      BY <2>1, <2>3, <3>1
    <3>3. Answered' => Answered BY <1>4, <2>3, <3>1 DEF BusProofs!Answers
    <3>4. /\ Shows' = Shows /\ Wanted(relay[command.meter])' = Wanted(relay[command.meter])
          /\ Wanted(coil[command.meter])' = Wanted(coil[command.meter])
      BY <1>2, <2>1, <3>2 DEF Shows, Wanted
    <3> QED BY <1>2, <2>1, <3>3, <3>4 DEF ControlInv, SuccessIsReal, StatusFollowsSuccess
  <2>6. CASE d = Controller
    <3>1. op[Controller] \in {"confirming", "switches"} /\ f.request.slave = command.meter
      <4>1. op[Controller] \in {"writing", "confirming", "switches"}
        BY <2>2, <2>6 DEF LineInv, BaseInv, Asked
      <4>2. op[Controller] # "writing"
        BY <1>6, <2>3, <2>6 DEF LineInv, BaseInv, Asked, WriteCoil
      <4> QED BY <2>3, <2>6, <4>1, <4>2
              DEF LineInv, BaseInv, Asked, ReadOneRegister, ReadSwitches, Read
    <3>2. shown'[exchange[Controller]] = relay[command.meter]
      BY <2>1, <2>3, <2>4, <2>6, <3>1 DEF LineInv, AckInv, Typed
    <3>3. /\ Shows' = Wanted(relay[command.meter])
          /\ Wanted(relay[command.meter])' = Wanted(relay[command.meter])
          /\ Wanted(coil[command.meter])' = Wanted(coil[command.meter])
      BY <1>2, <2>1, <3>2 DEF Shows, Wanted
    <3>4. ack # None /\ ack.success => Wanted(relay[command.meter])
      BY DEF ControlInv, SuccessIsReal, Wanted
    <3> QED BY <1>2, <2>1, <3>1, <3>3, <3>4 DEF ControlInv, SuccessIsReal, StatusFollowsSuccess
  <2> QED BY <2>5, <2>6
<1>7. CASE UNCHANGED plant /\ (Bus!Lose(f) \/ Idle(f))
  <2>1. Answered' => Answered
    <3>1. CASE Bus!Lose(f) BY <1>1, <3>1 DEF Bus!Lose, Answered, BusProofs!Carried
    <3>2. CASE Idle(f) /\ op[Controller] # "resting"
      <4>1. request[Controller].function = 5 \/ request[Controller].address = registerDOStatus
        <5>1. op[Controller] \in {"writing", "confirming", "switches"}
          BY <1>3, <3>2 DEF LineInv, BaseInv, Asked
        <5> QED BY <5>1 DEF LineInv, BaseInv, Asked, ReadOneRegister, ReadSwitches, Read, WriteCoil
      <4>2. f.exception \/ (f.request.function = 3 /\ f.request.address # registerDOStatus)
        BY <3>2 DEF Idle
      <4> QED BY <1>4, <4>1, <4>2 DEF BusProofs!Answers
    <3>3. CASE op[Controller] = "resting"
      BY <1>3, <1>4, <3>3 DEF LineInv, BaseInv, Asked
    <3> QED BY <1>7, <3>1, <3>2, <3>3
  <2> QED BY <1>2, <1>7, <2>1, ControlStays DEF ControlInv, plant
<1>8. Act(f) \/ (UNCHANGED plant /\ (Bus!Lose(f) \/ Idle(f))) BY DEF Answer, Idle
<1> QED BY <1>5, <1>6, <1>7, <1>8

\* An output that follows its coil does not leave the state that was confirmed.
LEMMA FollowKeepsControl ==
  ASSUME LineInv, ControlInv, NEW m \in Meters, NEW ch \in Channels, Follow(m, ch)
  PROVE  ControlInv'
<1>1. UNCHANGED <<bus, cause, op, calls, coil, shown>> BY DEF Follow
<1>2. UNCHANGED <<op, status, command, ack, exchange, coil, shown>> BY <1>1 DEF calls, bus
<1>3. Answered' = Answered BY <1>1 DEF bus, Answered, BusProofs!Carried
<1>4. ASSUME command \in Commands, Wanted(coil[command.meter]), Wanted(relay[command.meter])
      PROVE  Wanted(relay[command.meter])'
  <2>1. command.meter \in Meters /\ command.channel \in Channels /\ command.want \in BOOLEAN
    BY <1>4, RequestsAreKnown
  <2>2. relay \in [Meters -> SUBSET Channels] BY DEF LineInv, AckInv, Typed
  <2>3. CASE m = command.meter /\ ch = command.channel
    BY <1>4, <2>1, <2>3 DEF Follow, Wanted
  <2>4. CASE m # command.meter \/ ch # command.channel
    <3>1. (command.channel \in relay'[command.meter]) = (command.channel \in relay[command.meter])
      BY <2>1, <2>2, <2>4 DEF Follow
    <3> QED BY <1>2, <1>4, <3>1 DEF Wanted
  <2> QED BY <2>3, <2>4
<1>5. /\ Shows' = Shows
      /\ Wanted(coil[command.meter])' = Wanted(coil[command.meter])
  BY <1>2 DEF Shows, Wanted
<1>6. SuccessIsReal'
  BY <1>2, <1>4, <1>5 DEF ControlInv, SuccessIsReal, Wanted
<1>7. op[Controller] = "confirming" /\ Answered /\ Shows => Wanted(relay[command.meter])'
  BY <1>4 DEF ControlInv, LineInv, BaseInv, Asked
<1> QED BY <1>2, <1>3, <1>5, <1>6, <1>7 DEF ControlInv, StatusFollowsSuccess

LEMMA ControlInductive ==
  ASSUME LineInv, ControlInv, [Next]_vars
  PROVE  ControlInv'
<1>1. ASSUME NEW c \in Callers, Transact(c) PROVE ControlInv'
  <2>1. BaseInv /\ Controller \in Callers BY ControllerIsNoMeter DEF LineInv
  <2>2. BusProofs!Lock(c) \/ BusProofs!Exchange(c) BY <1>1, <2>1, TransactIsABusStep
  <2>3. exchange' = exchange /\ UNCHANGED <<op, calls, plant>>
    BY <1>1, <2>1, TransactIsABusStep
  <2>4. Answered' => Answered
    BY <2>1, <2>2, BusProofs!CarriedIsKept, BusAssumptions, LineAssumption
       DEF Answered, LineInv, BaseInv
  <2> QED BY <2>3, <2>4, ControlStays DEF ControlInv, calls, plant
<1>2. CASE UNCHANGED vars
  BY <1>2, ControlStays DEF vars, bus, calls, plant, Answered, BusProofs!Carried, ControlInv
<1> QED BY <1>1, <1>2, CollectKeepsControl, ExecuteKeepsControl, AnswerKeepsControl,
           FollowKeepsControl DEF Next

LEMMA ControlHolds ==
  ASSUME ~Late, ~Noise
  PROVE  Spec => []ControlInv
<1>1. Init => ControlInv
  BY ControllerIsNoMeter DEF Init, ControlInv, SuccessIsReal, StatusFollowsSuccess
<1>2. LineInv /\ ControlInv /\ [Next]_vars => ControlInv' BY ControlInductive
<1> QED BY <1>1, <1>2, LineHolds, PTL DEF Spec

\* A control is only acknowledged as successful if its output is in the state asked for.
THEOREM SuccessesAreReal ==
  ASSUME ~Late, ~Noise
  PROVE  Spec => []SuccessIsReal
<1>1. ControlInv => SuccessIsReal BY DEF ControlInv
<1> QED BY <1>1, ControlHolds, PTL

\* The switches published after a successful control show it.
THEOREM StatusFollows ==
  ASSUME ~Late, ~Noise
  PROVE  Spec => []StatusFollowsSuccess
<1>1. ControlInv => StatusFollowsSuccess BY DEF ControlInv
<1> QED BY <1>1, ControlHolds, PTL

\* Coils only change while the controller writes them, as it was commanded.
THEOREM CoilsAreTheCommands ==
  ASSUME ~Late, ~Noise
  PROVE  Spec => OnlyCommandedCoilsChange
<1> DEFINE Commanded ==
      \A m \in Meters, ch \in Channels :
        (ch \in coil[m]) # (ch \in coil'[m]) =>
          /\ op[Controller] = "writing"
          /\ m = command.meter /\ ch = command.channel
          /\ (ch \in coil'[m]) = command.want
<1>1. ASSUME LineInv, [Next]_vars PROVE Commanded
  <2>1. ASSUME NEW f \in pending, Act(f), f.request.function = 5 PROVE Commanded
    <3>1. /\ op[Controller] = "writing" /\ command \in Commands
          /\ coil' = [coil EXCEPT ![command.meter] =
                        IF command.want THEN @ \cup {command.channel} ELSE @ \ {command.channel}]
      BY <1>1, <2>1, CoilIsTheCommands
    <3>2. coil \in [Meters -> SUBSET Channels] BY <1>1 DEF LineInv, AckInv, Typed
    <3>3. command.want \in BOOLEAN BY <3>1, RequestsAreKnown
    <3> QED BY <3>1, <3>2, <3>3
  <2>2. CASE coil' = coil BY <2>2
  <2>3. ASSUME NEW m \in Meters, Collect(m) PROVE coil' = coil
    BY <2>3 DEF Collect, ReadVoltage, ReadNext, Measured, MeasurementFails, SwitchesRead, Ask, plant
  <2>4. CASE Execute
    BY <2>2, <2>4 DEF Execute, Control, CoilWritten, ConfirmedState, OtherState, NeverFollowed,
       ControlFails, Finish, Confirm, SwitchesRead, Ask, plant
  <2>5. ASSUME NEW f \in pending, Answer(f) PROVE Commanded
    <3>1. CASE Act(f) /\ f.request.function = 5 BY <2>1, <3>1
    <3>2. CASE ~(Act(f) /\ f.request.function = 5)
      <4>1. coil' = coil BY <2>5, <3>2 DEF Answer, Act, Idle, plant
      <4> QED BY <2>2, <4>1
    <3> QED BY <3>1, <3>2
  <2>6. CASE (\E c \in Callers : Transact(c)) \/ (\E m \in Meters, ch \in Channels : Follow(m, ch))
             \/ UNCHANGED vars
    BY <2>2, <2>6 DEF Transact, Follow, vars, plant
  <2> QED BY <1>1, <2>2, <2>3, <2>4, <2>5, <2>6 DEF Next
<1>2. LineInv /\ [Next]_vars => [Commanded]_vars BY <1>1
<1> QED BY <1>2, LineHolds, PTL DEF Spec, OnlyCommandedCoilsChange

-----------------------------------------------------------------------------
(* Module DigitalOutput's promise *)

Wish == [output |-> <<command.meter, command.channel>>, want |-> command.want]
Executing == op[Controller] \in {"writing", "confirming"}

\* An output of one meter that is told a state is among those on, or no longer.
LEMMA SetOutput ==
  ASSUME NEW f \in [Meters -> SUBSET Channels], NEW m \in Meters, NEW ch \in Channels,
         NEW want \in BOOLEAN,
         NEW g, \A n \in Meters : n # m => g[n] = f[n],
         want => g[m] = f[m] \cup {ch}, ~want => g[m] = f[m] \ {ch}
  PROVE  OnOf(g) = Promise!With(OnOf(f), <<m, ch>>, want)
<1>1. \A n \in Meters, k \in Channels :
        k \in g[n] <=> IF n = m /\ k = ch THEN want ELSE k \in f[n]
  OBVIOUS
<1>2. \A o \in Meters \X Channels :
        o[2] \in g[o[1]] <=> IF o = <<m, ch>> THEN want ELSE o[2] \in f[o[1]]
  BY <1>1
<1>3. <<m, ch>> \in Meters \X Channels OBVIOUS
<1> QED BY <1>2, <1>3 DEF OnOf, Promise!With

\* What the mapping makes of each place the controller can be in.
LEMMA Places ==
  /\ command \in Commands => Controlled = {Wish}
  /\ Executing => Verdict = "open"
  /\ ~Executing => Verdict = IF ack = None THEN "none" ELSE IF ack.success THEN "success" ELSE "failure"
<1>1. command \in Commands => command # None BY MeterAssumption DEF None
<1> QED BY <1>1 DEF Controlled, Wish, Executing, Verdict

LEMMA PlacesAfter ==
  /\ command' \in Commands => Controlled' = {Wish'}
  /\ Executing' => Verdict' = "open"
  /\ ~Executing' => Verdict' = IF ack' = None THEN "none"
                               ELSE IF ack'.success THEN "success" ELSE "failure"
<1>1. command' \in Commands => command' # None BY MeterAssumption DEF None
<1> QED BY <1>1 DEF Controlled, Wish, Executing, Verdict

\* A step that leaves the controller's place, its command and the outputs as they are.
LEMMA Unnoticed ==
  ASSUME op'[Controller] = op[Controller], UNCHANGED <<command, ack, coil, relay>>
  PROVE  UNCHANGED Promise!vars
BY DEF Promise!vars, OnOf, Controlled, Verdict

LEMMA ExecuteKeepsPromise ==
  ASSUME LineInv, ControlInv, Execute
  PROVE  [Promise!Next]_(Promise!vars)
<1>1. Controller \in Callers /\ BaseInv /\ Typed
  BY ControllerIsNoMeter DEF LineInv, AckInv
<1>2. op[Controller] # "resting" => command \in Commands BY <1>1 DEF BaseInv, Asked
<1>3. UNCHANGED <<coil, relay>>
  BY <1>1 DEF Execute, Control, CoilWritten, ConfirmedState, OtherState, NeverFollowed,
     ControlFails, Finish, Confirm, SwitchesRead, Ask, plant
<1>4. OnOf(coil)' = OnOf(coil) /\ OnOf(relay)' = OnOf(relay) BY <1>3 DEF OnOf
<1>5. ASSUME NEW r \in BusRequests, NEW next \in {"switches", "writing", "confirming"},
             Ask(Controller, r, next)
      PROVE  op'[Controller] = next
  BY <1>1, <1>5, AskIsACall
<1>6. ASSUME NEW c \in Commands, Control(c) PROVE Promise!Next
  <2>1. op[Controller] = "resting" /\ op'[Controller] = "writing" /\ command' = c
    BY <1>5, <1>6, RequestsAreKnown DEF Control
  <2>2. Verdict # "open" BY <2>1, Places DEF Executing
  <2>3. Verdict' = "open" /\ Controlled' = {Wish'} BY <2>1, PlacesAfter DEF Executing
  <2>4. Wish' \in [output : Meters \X Channels, want : BOOLEAN]
    BY <2>1, RequestsAreKnown DEF Wish
  <2>5. Promise!Begin(Wish') BY <1>4, <2>2, <2>3 DEF Promise!Begin
  <2> QED BY <2>4, <2>5 DEF Promise!Next
<1>7. CASE CoilWritten \/ OtherState
  <2>1. Executing /\ command \in Commands /\ Confirm /\ UNCHANGED command
    BY <1>2, <1>7 DEF CoilWritten, OtherState, Executing
  <2>2. op'[Controller] = "confirming"
    BY <1>5, <2>1, RequestsAreKnown DEF Confirm
  <2>3. Verdict' = Verdict BY <2>1, <2>2, Places, PlacesAfter DEF Executing
  <2>4. Controlled' = Controlled BY <2>1 DEF Controlled
  <2> QED BY <1>4, <2>3, <2>4 DEF Promise!vars
<1>8. ASSUME Executing, NEW states \in SUBSET BOOLEAN, NEW why \in (Causes \cup {"mismatch"}),
             Finish(states, why)
      PROVE  /\ Verdict = "open" /\ Verdict' = IF why = "none" THEN "success" ELSE "failure"
             /\ Controlled = {Wish} /\ Controlled' = Controlled
  <2>1. command \in Commands /\ command' = command BY <1>2, <1>8 DEF Executing, Finish
  <2>2. op'[Controller] = "switches"
    BY <1>5, <1>8, <2>1, RequestsAreKnown DEF Finish
  <2>3. ack' \in Acks /\ ack'.success = (why = "none") BY <1>1, <1>8, Finished
  <2>4. ack' # None
    <3>1. \A a \in Acks : DOMAIN a = {"success", "actual", "code"} BY DEF Acks
    <3>2. DOMAIN None = {"none"} BY DEF None
    <3> QED BY <2>3, <3>1, <3>2
  <2>5. Controlled' = Controlled BY <2>1 DEF Controlled
  <2> QED BY <1>8, <2>1, <2>2, <2>3, <2>4, <2>5, Places, PlacesAfter DEF Executing
<1>9. State \in BOOLEAN BY DEF State, bitIsSet
<1>10. CASE ConfirmedState
  <2>1. Executing /\ Finish({State}, "none") BY <1>10 DEF ConfirmedState, Executing
  <2>2. /\ Verdict = "open" /\ Verdict' = "success"
        /\ Controlled = {Wish} /\ Controlled' = Controlled
    BY <1>8, <1>9, <2>1 DEF Causes
  <2>3. Answered /\ command \in Commands /\ State = (command.channel \in shown[exchange[Controller]])
    <3>1. command \in Commands /\ command.channel \in Channels
      BY <1>2, <1>10, RequestsAreKnown DEF ConfirmedState
    <3> QED BY <1>10, <3>1, ReadOutputs DEF ConfirmedState, State
  <2>4. Shows BY <1>10, <2>3 DEF ConfirmedState, Shows, Wanted
  <2>5. Wanted(coil[command.meter]) /\ Wanted(relay[command.meter])
    BY <1>10, <2>3, <2>4 DEF ConfirmedState, ControlInv
  <2>6. <<command.meter, command.channel>> \in Meters \X Channels BY <2>3, RequestsAreKnown
  <2>7. /\ (<<command.meter, command.channel>> \in OnOf(coil)) = command.want
        /\ (<<command.meter, command.channel>> \in OnOf(relay)) = command.want
    BY <2>5, <2>6 DEF OnOf, Wanted
  <2>8. \A c \in {Wish} : /\ (c.output \in OnOf(coil)) = c.want
                          /\ (c.output \in OnOf(relay)) = c.want
    BY <2>7 DEF Wish
  <2> QED BY <1>4, <2>2, <2>8 DEF Promise!Next, Promise!Succeed
<1>11. ASSUME Executing, NEW states \in SUBSET BOOLEAN,
              NEW why \in ((Causes \cup {"mismatch"}) \ {"none"}), Finish(states, why)
       PROVE  Promise!Next
  <2>1. Verdict = "open" /\ Verdict' = "failure" /\ Controlled' = Controlled BY <1>8, <1>11
  <2> QED BY <1>4, <2>1 DEF Promise!Next, Promise!Fail
<1>12. CASE NeverFollowed
  BY <1>9, <1>11, <1>12 DEF NeverFollowed, Executing, Causes
<1>13. CASE ControlFails
  <2>1. cause \in Causes \ {"none"} /\ seen \in SUBSET BOOLEAN
    BY <1>13 DEF ControlFails, Failed, Returned, LineInv, AckInv, Typed
  <2> QED BY <1>11, <1>13, <2>1 DEF ControlFails, Executing
<1>14. CASE SwitchesRead(Controller, command.meter)
  <2>1. /\ op[Controller] = "switches" /\ op'[Controller] = "resting" /\ UNCHANGED <<command, ack>>
    BY <1>1, <1>14 DEF SwitchesRead, BaseInv, Asked
  <2>2. Verdict' = Verdict BY <2>1, Places, PlacesAfter DEF Executing
  <2>3. Controlled' = Controlled BY <2>1 DEF Controlled
  <2> QED BY <1>4, <2>2, <2>3 DEF Promise!vars
<1> QED BY <1>6, <1>7, <1>10, <1>12, <1>13, <1>14 DEF Execute

LEMMA PromiseStep ==
  ASSUME LineInv, ControlInv, [Next]_vars
  PROVE  [Promise!Next]_(Promise!vars)
<1>1. ASSUME NEW m \in Meters, Collect(m) PROVE UNCHANGED Promise!vars
  <2>1. m \in Callers /\ m # Controller BY ControllerIsNoMeter
  <2>2. \E next : op' = [op EXCEPT ![m] = next]
    BY <1>1 DEF Collect, ReadVoltage, ReadNext, Measured, MeasurementFails, SwitchesRead, Ask
  <2>3. op'[Controller] = op[Controller]
    BY <2>1, <2>2, ControllerIsNoMeter DEF LineInv, BaseInv, Asked
  <2>4. UNCHANGED <<command, ack, coil, relay>>
    BY <1>1 DEF Collect, ReadVoltage, ReadNext, Measured, MeasurementFails, SwitchesRead, Ask, plant
  <2> QED BY <2>3, <2>4, Unnoticed
<1>2. ASSUME NEW c \in Callers, Transact(c) PROVE UNCHANGED Promise!vars
  BY <1>2, Unnoticed DEF Transact, calls, plant
<1>3. ASSUME NEW f \in pending, Answer(f) PROVE [Promise!Next]_(Promise!vars)
  <2>1. UNCHANGED <<op, command, ack>> BY <1>3 DEF Answer, calls
  <2>2. CASE Act(f) /\ f.request.function = 5
    <3>1. /\ op[Controller] = "writing" /\ command \in Commands
          /\ relay' = relay
          /\ coil' = [coil EXCEPT ![command.meter] =
                        IF command.want THEN @ \cup {command.channel} ELSE @ \ {command.channel}]
      BY <2>2, CoilIsTheCommands
    <3>2. coil \in [Meters -> SUBSET Channels] BY DEF LineInv, AckInv, Typed
    <3>3. OnOf(coil)' = Promise!With(OnOf(coil), <<command.meter, command.channel>>, command.want)
      <4>1. /\ command.meter \in Meters /\ command.channel \in Channels
            /\ command.want \in BOOLEAN
        BY <3>1, RequestsAreKnown
      <4>2. OnOf(coil') = Promise!With(OnOf(coil), <<command.meter, command.channel>>, command.want)
        <5>1. /\ \A n \in Meters : n # command.meter => coil'[n] = coil[n]
              /\ command.want => coil'[command.meter] = coil[command.meter] \cup {command.channel}
              /\ ~command.want => coil'[command.meter] = coil[command.meter] \ {command.channel}
          BY <3>1, <3>2, <4>1
        <5> QED BY <3>2, <4>1, <5>1, SetOutput
      <4> QED BY <4>2 DEF OnOf
    <3>4. \E c \in {Wish} : OnOf(coil)' = Promise!With(OnOf(coil), c.output, c.want)
      BY <3>3 DEF Wish
    <3>5. Verdict = "open" /\ Controlled = {Wish} BY <3>1, Places DEF Executing
    <3>6. UNCHANGED <<OnOf(relay), Controlled, Verdict>>
      BY <2>1, <3>1 DEF OnOf, Controlled, Verdict
    <3> QED BY <3>4, <3>5, <3>6 DEF Promise!Next, Promise!Write
  <2>3. CASE ~(Act(f) /\ f.request.function = 5)
    <3>1. UNCHANGED <<coil, relay>> BY <1>3, <2>3 DEF Answer, Act, Idle, plant
    <3> QED BY <2>1, <3>1, Unnoticed
  <2> QED BY <2>2, <2>3
<1>4. ASSUME NEW m \in Meters, NEW ch \in Channels, Follow(m, ch) PROVE Promise!Next
  <2>1. /\ relay' = [relay EXCEPT ![m] = IF ch \in coil[m] THEN @ \cup {ch} ELSE @ \ {ch}]
        /\ UNCHANGED <<op, command, ack, coil>>
    BY <1>4 DEF Follow, calls
  <2>2. relay \in [Meters -> SUBSET Channels] BY DEF LineInv, AckInv, Typed
  <2>3. PICK want \in BOOLEAN : want <=> ch \in coil[m] OBVIOUS
  <2>4. want <=> <<m, ch>> \in OnOf(coil) BY <2>3 DEF OnOf
  <2>5. OnOf(relay)' = Promise!With(OnOf(relay), <<m, ch>>, <<m, ch>> \in OnOf(coil))
    <3>1. /\ \A n \in Meters : n # m => relay'[n] = relay[n]
          /\ want => relay'[m] = relay[m] \cup {ch}
          /\ ~want => relay'[m] = relay[m] \ {ch}
      BY <2>1, <2>2, <2>3
    <3>2. OnOf(relay') = Promise!With(OnOf(relay), <<m, ch>>, want)
      BY <2>2, <3>1, SetOutput
    <3> QED BY <2>4, <3>2 DEF OnOf, Promise!With
  <2>6. UNCHANGED <<OnOf(coil), Controlled, Verdict>> BY <2>1 DEF OnOf, Controlled, Verdict
  <2>7. <<m, ch>> \in Meters \X Channels OBVIOUS
  <2> QED BY <2>5, <2>6, <2>7 DEF Promise!Next, Promise!Follow
<1>5. CASE UNCHANGED vars BY <1>5, Unnoticed DEF vars, calls, plant
<1> QED BY <1>1, <1>2, <1>3, <1>4, <1>5, ExecuteKeepsPromise DEF Next

\* While no answer is late or damaged the driver keeps on the shared line what DigitalOutput promises of
\* a control, for any meters and commands: only the open control's output is written, to the state it
\* wants, and a success is told only of an output that has moved, and it stays there.
THEOREM Implementation ==
  ASSUME ~Late, ~Noise
  PROVE  Spec => ImplementsDigitalOutput
<1>1. Init => Promise!Init
  <2> SUFFICES ASSUME Init PROVE Promise!Init OBVIOUS
  <2>1. /\ op[Controller] = "resting" /\ command = None /\ ack = None /\ coil = relay
    BY ControllerIsNoMeter DEF Init
  <2>2. Verdict = "none" /\ Controlled = {} BY <2>1 DEF Verdict, Controlled
  <2>3. OnOf(coil) \subseteq Meters \X Channels BY DEF OnOf
  <2> QED BY <2>1, <2>2, <2>3 DEF Promise!Init
<1>2. LineInv /\ ControlInv /\ [Next]_vars => [Promise!Next]_(Promise!vars) BY PromiseStep
<1> QED BY <1>1, <1>2, LineHolds, ControlHolds, PTL DEF Spec, ImplementsDigitalOutput, Promise!Spec
=============================================================================
