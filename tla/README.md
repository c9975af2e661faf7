# Verification of the meter gateway

TLA+ models of the gateway in `src/` (Go): a program that reads QS300 electricity meters over one
shared RS485 line, uploads what it reads to a Python server over MQTT in framed, acknowledged
sessions, and executes remote commands for the meters' digital outputs. TLC checks small instances;
TLAPS proves the safety properties for every value of the constants.

    tlc -workers 2 -config <cfg> <MC module>     tlapm <...Proofs>.tla

## 1. Inventory

| Part | Source | State it keeps | Operations | Talks to |
|---|---|---|---|---|
| Application | `meter/app/app.go`, both `main.go` | run context, wait group, `ready`, `clientFinished` | `Run`: open meters, start client, wait for readiness, start workers, wait for an end, wait for everybody, close | everything below: starts and cancels it |
| Collector (one per meter) | `meter/collector` | a ticker | `Run`, `collectAndPublish`: measure, report, sample switches, report | driver, `Client.Publish` |
| Controller (one) | `meter/controller` | ACK cache of 50 entries | `Run`, `execute`, `publishACK` | `Client.Commands`, driver, `Client.Publish` |
| MQTT client: sessions | `common/mqttclient/client.go` 202-294, 378-408, 523-795 | two tables of pending posts, session and business counters | `Publish`, `handlePostReply`, `stop` | broker, server; called by all workers at once |
| MQTT client: connection | same, 94-194, 355-376, 665-682 | readiness, first startup error, stop channel | `Run`, OnConnect callback, `subscribe`, `disconnect` | paho, Application |
| MQTT client: commands | same, 410-521 | channel of 20 commands | `handleSet`, `decodeSetRequest` | server to Controller |
| QS300 driver | `meter/driver/qs300` | none | `ReadMeasurements`, `ReadSwitches`, `ControlDigitalOutput` | bus |
| Configuration, factories | `common/config`, `meter/driver/factory.go`, `meter/transport/factory.go`, `openConfiguredMeters` | the configuration, drivers, routes by meter id | load, convert, override, validate, open, start | environment, file, port |
| Framing | client.go 733-795, `common/protocol/mqtt_frame.go` | none | `buildFrames`, `EncodeMQTTFrame`, `validateLossIndexes` | sessions |
| RS485 bus, Modbus-RTU | `meter/modbus/rtu.go` | mutex, the port's input buffer | `ReadHoldingRegisters`, `WriteSingleCoil` | serial line, meters |
| CRCs, messages, diagnostics | `common/protocol`, `meter/modbus/crc16.go`, `meter/app/diagnostics.go` | none | pure functions, printing | called by the above |

What is hard here:

* several goroutines publish at once and share two tables that have to stay in step on a dozen ways
  out of `publishPost`; the reply handler uses what it looked up after it has released the lock;
* frames are QoS 0 and may be lost, replies may be duplicated, delayed, misdirected, or ask for
  frames that do not exist; a timer, a reply and `stop` may be ready at once;
* a relay must not be moved twice for one request, nor an ACK given for another meter's request, and
  an ACK of success needs the relay, not only the coil;
* five kinds of goroutine end in an order nobody wrote down, and the serial port must outlive them;
* one serial buffer is shared by all requests and keeps what came too late;
* a measurement is three transactions and a control up to eleven, and the line serves others in
  between; any of them may fail after the earlier ones have had their effect;
* ids, addresses, channels, coils and bits are different numberings of the same things, fixed in
  different files, and a start may fail with the port already open.

`PROJECT.json` lists each hazard at its line with the properties about it.

## 2. Modules

    PostSession    ==implements==> Reporting    MCPostSession     PostSessionProofs
    CommandControl ==implements==> AckLog, DigitalOutput
                                                MCCommandControl  CommandControlProofs
    Lifecycle                                   MCLifecycle       LifecycleProofs
    Rs485Bus       ==implements==> AtomicBus    MCRs485Bus        Rs485BusProofs
    Qs300          ==composes====> Rs485Bus
                   ==implements==> DigitalOutput
                                                MCQs300           Qs300Proofs
    Startup        ==extends=====> Framing      MCStartup         StartupProofs, FramingProofs

**Reporting** is what `Client.Publish` promises: a call takes an id later than every earlier one, and
returns nil only if the server holds its whole report. An error promises nothing.

**PostSession** is `publishPost` and all it calls. `pendingBySession`, `pendingByBusiness`,
`nextSession` and `nextBusiness` are the fields under `pendingMu`; `post`, `todo`, `retransmits` are
the locals of each running call; `inbox` is the reply channel of capacity one; `handler` holds what
`handlePostReply` found under the lock and has not sent yet, so that everything may happen in
between. Actions: `Begin`/`Exhausted` (`registerPending`), `PublishFrame`, `NextFrame`,
`StopWhilePausing` (`publishFrames`), `TakeReply`, `ReplyTimeout`, `StopWhileWaiting`
(`waitPostReply` and the switch on its result), `Return` (the deferred `removePending`),
`HandlePostReply` and `DeliverReply` (the two halves of the handler), `Stop`.
Abstractions: a frame is its index, the frames of a round are written in any order, a loss list is a
set. A report that cannot be encoded, which fails before a frame is written, ends like one whose
first frame could not be written. (How frames are cut and loss lists cleaned is `Framing`.) The
server is external. It is given every freedom (any reply,
about any session it has heard of, any number of times, named in any of the ways `findPending`
understands) but one: it says "accepted" only of a report whose frames it has.

**CommandControl** is `handleSet`, the command channel, `Controller.Run` with `execute` and the ACK
cache, and the driver's write followed by reads until the output shows the wanted state. `coil` and
`relay` are the meters': a failed write may have been carried out, a relay follows its coil after a
while or never. A crash is possible between any two steps; `Restart` keeps only the meters' state.
`recent` is a history variable, the keys of the last `CacheSize + 1` executions. `inStep` says whether
the line gives every request its own answer or none, for good. If it does not, which is what
`rtu.go:180` permits, a read-back shows any state, an earlier echo may confirm a write that was never
carried out, and one given up on may be carried out at any time (`CarryOut`). Queue, cache and
acknowledgements are then as before, but nothing is promised of the relay: `SuccessMeansMoved` and
`ImplementsDigitalOutput` are about lines in step. Finding 3 is what happens on the others.

**AckLog** is what that promises the server: the last `Memory` executions form a log; a request in it
is only acknowledged again, with the outcome it had; one that is not is executed and logged; a restart
forgets. `CommandControl` maps its cache's `order` and `values` to the log and the acknowledgement
about to be published to `told`.

**DigitalOutput** is what a remote control promises of the outputs: while it is open its own output may
be told the wanted state, and no output is told anything else at any time; it succeeds only with coil
and relay both in that state. Two modules implement it on a line in step. `CommandControl` does, through
queue, cache, crashes and restarts, with a control open while `execute` writes and reads back; on
another line it maps to outputs of which nothing is shown. `Qs300` does, with
every access a transaction on the shared line, so that what `CommandControl` takes as one step is
there a request, an answer and everybody else's in between.

**Lifecycle** is `Application.Run`, `Client.Run`, the OnConnect goroutine of each connection, the
collectors and the controller, with the paho connection as environment. `subscribe` asks for one topic
after the other and waits for each, on whatever connection is open at that moment: a callback that
outlives its connection (`hook`, one per connection) may have its topics on two of them, and announce
readiness although no connection has both. The code allows this, and the model has it. `topics` is what
the broker has for the newest connection; a new one starts without any (CleanSession). A worker is the
stage its round is in. The two selects of `Run` are the disjuncts enabled in `starting` and `running`.

**Rs485Bus** is the mutex, `exchange`, `readResponse` and the two Modbus functions over a buffer that
nothing flushes. A byte is known by its frame and its place in it. The meters answer a request once,
normally or with an exception; with `Late` an answer may come after its timeout, with `Noise` it may
be damaged. What follows a damaged byte, or the tail of a frame, is read in any amount the code could
read.

**AtomicBus** is what the bus promises its callers, "one question, one answer" (rtu.go:172): between a
call and its return its request leaves the line once, acted upon or lost, with no other's in between
and none after the return; what is returned is an error or the answer to that very request, address
included. `Rs485Bus` maps a call that is not idle to a question asked, an awaited exchange of which
nothing is under way any more to a request handled, and `accepted` to the answer.

**Qs300** is the driver with the collectors and the controller that call it, composed with `Rs485Bus`:
every register access is a transaction of that module, whose variables it shares (`INSTANCE`), so that
interleaving, loss, lateness and exceptions are the bus's own. `op` is the access each caller is
engaged in; `got` are the locals of `ReadMeasurements`; `attempt` and `seen` those of
`waitForDigitalOutputState`; `ack` is the acknowledgement; `cause` is the error of the transaction,
which `controlErrorCode` (with `normalizeError`) turns into a code. A meter acts when its answer
leaves: it takes the coil's state, or shows its outputs as they are at that moment (`shown`). A lost
write may have been carried out. Publishing is one step here: its delays are `Lifecycle`'s.

**Framing** has the pure functions of a report's frames, with a payload known by its length and a frame
by the bytes it carries. **Startup** is `LoadAppConfig` (conversion, environment, `Validate`),
`Application.Run` up to the ready client with `openConfiguredMeters` and both factories, and the
reports and resends of the running gateway under the configuration it was given. `Given` is `app.New`
by a caller that skipped `LoadAppConfig`, for whom `Run` validates again. Texts are model strings with
`TrimSpace`, `ToLower` and `ToUpper` as operator constants.

What the models take for granted:

* the clock is past the first 66 s of 1970, so that no business id reads as a 16-bit session id
  (`ClockAssumption`);
* with `LateReplies = FALSE`, a reply about a session does not come after its 16-bit id went round to
  another report. `OkMeansAccepted` and the refinement need this (the reply would confirm the wrong
  report); the other properties are checked and proved without it;
* a line in step for what is said of relays, measured values and exchanges: `inStep` in
  `CommandControl`, `~Late` and `~Noise` in `Rs485Bus` and `Qs300`. Each property that needs it says
  so, and `driver_late` shows that the code does not guarantee it;
* a CRC detects damage; an answer reaches the buffer whole, and a read of the port does not
  time out within it; the 5 ms silent interval between frames is left out;
* `publishControlACK` is one step, sent or lost.

## 3. What TLC checks

| Run | Question | Bounds |
|---|---|---|
| `session_safety` | the tables agree, nil means accepted, ids grow, `PostSession` implements `Reporting` | 2 publishers, 2 sessions, 2 frames, 1 round, clock of 2 values that may go back |
| `session_reuse` | the same tables with session ids running out, no bad frame index, bounded rounds, types | 2 publishers, 1 session, 2 rounds, all commands, empty and invalid loss lists, late replies |
| `session_returns` | every `Publish` returns, whatever the server keeps asking for; after `stop` without the reply timer | 2 publishers, 2 sessions, 2 frames, 1 round, late replies; a server that accepts or asks for more, replies lost at a full channel |
| `control` | no repeat in the window, the right ACK, every queued command answered, `CommandControl` implements `AckLog`; on a line in step success only for a moved relay and `DigitalOutput` implemented | 2 meters, 2 ids, queue 1, cache 2, 2 confirmation reads, crashes, lines in and out of step |
| `lifecycle` | port outlives users, an unasked stop is an error, no work before a callback had both topics and none announced for the open connection without them, every stop finishes, an asked one without a reply timer | 2 meters, 2 connections, the callbacks of both at once |
| `bus_safety` | one transaction at a time; an answer is given to one call only, to its last byte | 2 goroutines, 4 requests to 2 meters, 3 exchanges, late and damaged answers |
| `bus_in_step` | one question, one answer; the buffer is left empty; every call returns; `Rs485Bus` implements `AtomicBus` | 2 goroutines, 5 requests, 4 exchanges, lost answers and exceptions only |
| `driver` | reports hold the meter's registers, a success is real and shown, an acknowledgement agrees with itself, only commanded coils change, `Qs300` implements `DigitalOutput` | 1 meter: its collector and the controller, 3 commands, 2 confirmation reads, 6 exchanges, lost answers and exceptions |
| `startup` | a failed start leaves no port open, ids reach their meters, reports rejoin, resends are the loss list | 37 files, each one step from a good one, 6 environments, `Limit` 3 for 65535, payloads to 10, loss lists to 3 |
| `lifecycle_race`, `lifecycle_deaf`, `driver_late` | findings, see section 5 | |

Why these bounds are enough to be interesting: two publishers and one or two session ids already give
registration during a reply, reuse of an id, and exhaustion; two business ids beyond the clock's value
make the counter leave the clock; a cache of two with two meters and two ids evicts; a queue of one
overflows; two connections give a reconnection; three exchanges let the answer to the first be
taken for the second and its tail for the third; six hold a whole control with its status beside part
of a collector's round, or a round beside part of a control; a limit of 3 frames makes all three
limits on frames and chunks bite. The theorems lift the bounds for safety.
Bounds on counters are constants named in the modules: `MaxBusiness` (business ids),
`MaxConnections`, `MaxExchanges`; `Limit` stands for the largest 16-bit number.

Deadlock is checked in `control`. Elsewhere the system may stop: the program returns (`Lifecycle`),
or a bound is reached (`PostSession`, `Rs485Bus`, `Qs300`, `Startup` after its end).

Each property has a mutant in `PROJECT.json`: a change to one modelled definition, of the kind a
bug in that code would be, that violates it. The mutants stand next to the definitions they replace.

### Fairness

* `PostSession!FairSpec`: a goroutine inside a call is scheduled. Nothing is asked of the server or the
  handler. That reply timers fire is the premise of `EveryPublishReturns` only, so that
  `StopReleasesPublishers` cannot lean on it.
* `CommandControl!FairSpec`: the control loop's goroutine is scheduled; every call it makes returns
  (the bus has a timeout, Publish by `session_returns`). Relays need not settle.
* `Lifecycle!FairSpec`: goroutines are scheduled and the calls they make return, all of them having
  short timeouts, except uploads: these wait for the server, for minutes if need be, and are owed an
  end only once the client's `stop` has released them (`Prompt`, `Stopped`). `EveryStopFinishes` takes
  the reply timers as its premise; `StopNeedsNoTimer` does without. An idle worker's select picks at
  random among ready cases, so one whose context is done
  each time it comes round does end (strong fairness of `End`). Signals, ticks, commands and the
  network are owed to nobody.
* `Rs485Bus!FairSpec`: the holder of the mutex goes on (the port has a read timeout), and Go's mutex
  does not starve a waiter (strong fairness of `Lock`). Where answers are never late (`~Late`), one
  that is under way arrives or is lost.

## 4. What is proved

All in the `...Proofs` modules, for any number of publishers, sessions, frames, meters, goroutines,
requests, exchanges and any sizes.

* **PostSessionProofs.** `CallInv` is inductive: types, the bound on rounds, and `Registered` (both
  tables are exactly the entries of the running calls, each call's entry is its own, with its own
  session and business id). The property alone is not inductive: that `removePending` removes the
  right entry needs distinct keys. From it `TypeCorrect`, `TablesAgree`, `RetransmissionIsBounded`,
  `BusinessIdsAlwaysGrow`. `ReplyInv`, under `~LateReplies`, follows an "accepted" from the server
  through the handler and the channel: a business id is never a session id, the server holds a
  report under one session only, and an "accepted" still to be delivered either finds its own call or
  a channel nobody reads. It gives `OkIsAccepted` and, with a lemma per action, `Implementation`.
* **CommandControlProofs.** `IInv`: `order` is the end of `recent`, `values` has exactly its keys and
  each value is its key's ACK, and, on a line in step, a coil being confirmed holds the wanted state
  and a relay acknowledged as moved still has it. Hence
  `NoRepeat`, `AckMatchesCommand`, `SuccessIsReal`. `Implementation`: a put is `AckLog!Execute` of the
  same entry, whether it evicts or not, since `order` has no key twice; a hit is `Repeat`; `Restart`
  is `Forget`; everything else stutters. `SwitchingImplementation`: a line stays in step or out of it.
  Out of it nothing is shown. In step, of `IInv` it needs that a coil being confirmed holds the wanted
  state, without which a read-back would not be a `Succeed`; a failed write is `Fail` with or without
  the coil told, publishing and `Restart` are `Forget`.
* **LifecycleProofs.** `Staffed` (who may be alive in each phase of `Run`) gives `PortIsSafe`;
  `CancelIsAccounted` (who cancelled the context) gives `CleanStopsAreAsked`; `Announced` (readiness
  has a callback with both topics behind it) and `OwnTopics` (a topic that the callback of the open
  connection has had is one this connection has) give `WorkIsSubscribed`.
* **Rs485BusProofs.** Whatever the line does, `MutualExclusion` and `AnswersAreUsedUp`. The latter's
  invariant `Used` adds that there is no answer yet to a request still to be written (`Fresh`), and that
  the bytes of an answer come to the buffer once and lie there side by side (`Contiguous`), so that
  reading as many as the answer has takes all of them. The lemma
  `AnswersAreFromAskedMeters` serves the driver's `AcksAgree`.
  `InStep`, the strengthening that says where the one answer to the one open request is, gives
  `AnswersAreInOrder` and `LineIsLeftClean` assuming neither late nor damaged answers. `Numbered`
  (exchange numbers grow) serves the driver's proofs. `Implementation` (of `AtomicBus`, on such a
  line): `Handle` is the answer leaving the line, by delivery or loss, and `InStep` and `Numbered`
  together say that it is the open request's and that no earlier one is still under way.
* **Qs300Proofs.** `UsesTheBus` shows every step to be one of the bus or a stutter of it, so the bus's
  theorems hold of the driver. `TypeCorrect` and `AcksAgree` hold whatever the line does; the other
  six assume `~Late` and `~Noise`. `Chain`, that each value in `got` is the register its place says,
  gives `MeasurementsAreRight`. `ControlInv` follows a control: the coil changes when the write's answer
  leaves, and stays; an answer that shows the wanted output saw a relay that agrees with its coil, which
  therefore stays. It gives `SuccessesAreReal`, `StatusFollows` and `CoilsAreTheCommands`. Run
  `driver_late` shows that the assumption is needed. `AccessesAreAtomic` is the bus's refinement,
  carried over to the composed system by `UsesTheBus`. `Implementation` (of `DigitalOutput`) adds to
  `ControlInv` that the only request that tells a coil anything is the controller's, with the command
  it executes (`CoilIsTheCommands`).
* **FramingProofs** and **StartupProofs.** `ReportRejoins`, by the arithmetic of the rounded-up division.
  `PortIsNeverLeaked` is inductive with types. `RoutesAreRight` needs `Validated` (the configuration of
  an open port passed `Validate`) and `Bound` (the drivers made so far have the addresses of the first
  meters, in order). `ReportsAlwaysRejoin` applies `ReportRejoins` to the accepted chunk size.
  `ResendSendsTheLoss` is about the loop of `validateLossIndexes` over a list of any length. The
  induction is by the least counterexample: the natural numbers are well founded under <
  (`NatLessThanWellFounded`), so the set of lengths a claim fails for, if not empty, has a least member
  (`LeastNumber`), and the step refutes it. First that the recursive function exists (`LoopRuns`),
  then that it keeps every index once (`KeptOnce`). `ResendsAreTheLoss` applies it to the running
  gateway.

Only model-checked: everything about liveness (`EveryPublishReturns`, `StopReleasesPublishers`,
`EveryCommandAnswered`, `EveryStopFinishes`, `StopNeedsNoTimer`, `EveryCallReturns`), which needs
ENABLED and is out of the prover's reach. Every invariant, action property and refinement a run checks
is also a theorem.

## 5. Findings

1. `app.go:192`. The second select of `Run` may find `runCtx` done and the client's nil both ready and
   take the latter, and an orderly stop ends in an error. The window is short: the signal and the
   client's end must both come while `Run` starts the workers, before it waits in that select. The
   first select looks at `runCtx.Err()` in the same situation. (`lifecycle_race`)
2. `client.go:127`. A subscription that fails on a later connection is logged and never tried again:
   connected, and deaf to replies and commands until the connection is lost once more.
   (`lifecycle_deaf`)
3. `rtu.go:180`. Nothing empties the input buffer before a request. An answer that comes after its
   timeout is accepted by the next read of as many registers of that meter, since a response does
   not name its address. A late voltage is then reported as the current, and, worse, taken for the
   output register: a control is acknowledged as successful though its relay never moved.
   (`driver_late`)

## 6. Not modelled

* Modbus CRC-16, CRC16-CCITT and the bytes of the frame header: loops over bits without state. The bus
  takes it that a CRC detects damage; the server alone checks the other.
* `ReadInfo` and diagnostics: read and printed once before anything runs, used for nothing.
* JSON, timestamps, logging, YAML decoding, the fake device.
* The frame counter of the control ACK, left out with the bytes, and `compactTimestamp`'s fallback.
* Branches no caller reaches: a driver without a bus, a transport `Validate` has refused, a channel
  other than 1 and 2 in the driver after `decodeSetRequest` and `execute` have refused it.
* The 5 ms silent interval and the 200 ms between read-backs: time is only order here.
* Session ids that come round with a reply still under way, and dropped commands at a full queue: the
  first is excluded by `LateReplies = FALSE` where it matters, the second is what the code intends.

## 7. Plan

Done: sessions, commands, lifecycle, bus; the driver on the bus; start, configuration and framing; four
abstract specifications with five refinements, checked and proved; safety proved throughout.

What could come next:

1. The driver over `AtomicBus` instead of `Rs485Bus`, so that it can be checked with two meters and
   longer histories; `AccessesAreAtomic` says why nothing is lost by it on a line in step.
2. `Gateway`: connection and sessions together (a reply needs a subscription), and the control ACK's
   own frames.
3. Both CRCs against their bitwise definitions over bounded inputs.
