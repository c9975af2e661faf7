--------------------------- MODULE CommandControl ---------------------------
(***************************************************************************)
(* Remote control of the meters' digital outputs: the set-topic handler of *)
(* common/mqttclient/client.go, the bounded channel of commands, the       *)
(* control loop and acknowledgement cache of meter/controller, and the     *)
(* write-then-read-back of meter/driver/qs300.                             *)
(*                                                                         *)
(* The server may send any request at any time and as often as it likes.   *)
(* One control loop serves the queue; a request whose acknowledgement is   *)
(* still cached is answered from the cache and does not reach the relay.   *)
(* The bus is seen here as each operation's possible outcomes (module      *)
(* Rs485Bus has its bytes): a write may fail and yet have been carried     *)
(* out, and a relay follows its coil after a while or never.  A line in    *)
(* step gives every request its own answer or none.  On a line that is out *)
(* of step an answer may belong to an earlier request, since the port's    *)
(* buffer is never flushed (rtu.go:180): a read shows anything, and a      *)
(* write is taken for confirmed by an earlier write's echo.                *)
(***************************************************************************)
EXTENDS Integers, Sequences, FiniteSets, Functions

CONSTANTS
  Meters,           \* the configured meter ids
  Channels,         \* the outputs of a meter: 1 and 2 in the code
  Ids,              \* well-formed request ids (13 digits)
  Requests,         \* the set messages the server may send
  QueueCapacity,    \* capacity of Client.commands: 20 in the code
  CacheSize,        \* maxCachedACKs: 50 in the code
  ConfirmAttempts   \* doStateConfirmAttempts: 10 in the code

Absent == -1        \* a request without meter_id
States == {"on", "off"}

\* id: an element of Ids, or anything else for a malformed one; channel: 0 for a request that does not
\* name exactly one of do1, do2; want: "junk" for a value that is neither on nor off.
ASSUME RequestAssumption ==
  /\ Meters # {} /\ Meters \subseteq Nat /\ IsFiniteSet(Meters)
  /\ Channels \subseteq {1, 2}
  /\ \A r \in Requests : /\ DOMAIN r = {"id", "meter", "channel", "want"}
                         /\ r.channel \in Channels \cup {0}
                         /\ r.want \in States \cup {"junk"}

ASSUME SizeAssumption ==
  /\ QueueCapacity \in Nat \ {0}
  /\ CacheSize \in Nat \ {0}
  /\ ConfirmAttempts \in Nat \ {0}

VARIABLES
  up,         \* the process runs
  cancelled,  \* its context is cancelled
  queue,      \* Client.commands
  pc,         \* where the control loop stands
  cur,        \* the command it serves
  attempt,    \* waitForDigitalOutputState's loop counter
  ack,        \* the acknowledgement it is about to publish
  fresh,      \* that acknowledgement comes from an execution, not from the cache
  values,     \* ackCache.values: a function from keys to acknowledgements
  order,      \* ackCache.order
  coil,       \* external: the state each meter was last told to give an output
  relay,      \* external: the state each output is in
  inStep,     \* external: the line gives every request its own answer or none; it is so for good, or not
  recent      \* history: the keys last executed, CacheSize + 1 of them

process == <<up, cancelled>>
cache == <<values, order>>
outputs == <<coil, relay, inStep>>
vars == <<process, queue, pc, cur, attempt, ack, fresh, cache, outputs, recent>>

Outputs == Meters \X Channels
Commands == [id : Ids, meter : Meters, channel : Channels, want : States]
Keys == Meters \X Ids
Acks == [id : Ids, meter : Meters, channel : Channels, success : BOOLEAN]
None == [id |-> "none"]

Output(c) == <<c.meter, c.channel>>
AckOf(c, success) == [id |-> c.id, meter |-> c.meter, channel |-> c.channel, success |-> success]

\* The last n elements of a sequence of at most n + 1.
LastOf(s, n) == IF Len(s) > n THEN Tail(s) ELSE s
-----------------------------------------------------------------------------
\* Mutant: a meter that is named is not looked for among those configured.
NamedMeter(meter) == IF meter = Absent THEN IF Cardinality(Meters) = 1 THEN Meters ELSE {} ELSE {meter}

\* resolveMeterID: the configured meter meant, or none.  One meter alone needs not be named.
resolveMeterID(meter) ==
  IF meter = Absent THEN IF Cardinality(Meters) = 1 THEN Meters ELSE {}
  ELSE {meter} \cap Meters

\* decodeSetRequest: the command of a valid request, or none.
decodeSetRequest(r) ==
  {[id |-> r.id, meter |-> m, channel |-> r.channel, want |-> r.want] :
     m \in {n \in resolveMeterID(r.meter) : r.id \in Ids /\ r.channel \in Channels /\ r.want \in States}}

\* Mutant: the cache is keyed by the request id alone.
KeyWithoutMeter(c) == <<CHOOSE m \in Meters : TRUE, c.id>>

cacheKey(c) == <<c.meter, c.id>>

\* Mutant: the entry just added counts twice against the limit.
PutEvictsEarly(key, a) ==
  LET grown == Append(order, key)
      kept == IF Len(grown) >= CacheSize THEN Tail(grown) ELSE grown
  IN  /\ order' = kept
      /\ values' = [k \in Range(kept) |-> IF k = key THEN a ELSE values[k]]

\* ackCache.put: the oldest key goes when there are more than CacheSize.
put(key, a) ==
  LET full == Len(order) + 1 > CacheSize
      stored == [k \in DOMAIN values \cup {key} |-> IF k = key THEN a ELSE values[k]]
  IN  /\ order' = LastOf(Append(order, key), CacheSize)
      /\ values' = IF full THEN [k \in DOMAIN stored \ {Head(order)} |-> stored[k]] ELSE stored
-----------------------------------------------------------------------------
Init ==
  /\ up = TRUE
  /\ cancelled = FALSE
  /\ queue = <<>>
  /\ pc = "idle"
  /\ cur = None
  /\ attempt = 0
  /\ ack = None
  /\ fresh = FALSE
  /\ values = <<>>
  /\ order = <<>>
  /\ recent = <<>>
  /\ relay \in [Outputs -> States]
  /\ coil = relay
  /\ inStep \in BOOLEAN

\* handleSet: an invalid request is dropped, and so is a valid one when the channel is full.
HandleSet(r) ==
  /\ up
  /\ \E c \in decodeSetRequest(r) :
       queue' = IF Len(queue) < QueueCapacity THEN Append(queue, c) ELSE queue
  /\ UNCHANGED <<process, pc, cur, attempt, ack, fresh, cache, outputs, recent>>

\* Controller.Run takes a command whose acknowledgement is cached...
ServeRepeated ==
  /\ up /\ pc = "idle" /\ queue # <<>>
  /\ LET c == Head(queue) IN
       /\ cacheKey(c) \in DOMAIN values
       /\ cur' = c
       /\ ack' = values[cacheKey(c)]
  /\ queue' = Tail(queue)
  /\ pc' = "acking"
  /\ fresh' = FALSE
  /\ UNCHANGED <<process, attempt, cache, outputs, recent>>

\* ... or one it has to execute.
Serve ==
  /\ up /\ pc = "idle" /\ queue # <<>>
  /\ cacheKey(Head(queue)) \notin DOMAIN values
  /\ cur' = Head(queue)
  /\ queue' = Tail(queue)
  /\ pc' = "writing"
  /\ UNCHANGED <<process, attempt, ack, fresh, cache, outputs, recent>>

\* Mutant: only successes are remembered, so that a failed request may be tried again.
FinishForgettingFailures(success) ==
  /\ ack' = AckOf(cur, success)
  /\ fresh' = TRUE
  /\ IF success THEN put(cacheKey(cur), AckOf(cur, success)) ELSE UNCHANGED cache
  /\ pc' = "acking"
  /\ attempt' = 0

\* The end of execute, whatever its outcome: the acknowledgement is cached and will be published.
Finish(success) ==
  /\ ack' = AckOf(cur, success)
  /\ fresh' = TRUE
  /\ put(cacheKey(cur), AckOf(cur, success))
  /\ pc' = "acking"
  /\ attempt' = 0

\* Mutant: a coil written is a relay moved.
NoReadBack ==
  /\ up /\ pc = "writing"
  /\ coil' = [coil EXCEPT ![Output(cur)] = cur.want]
  /\ recent' = LastOf(Append(recent, cacheKey(cur)), CacheSize + 1)
  /\ Finish(TRUE)
  /\ UNCHANGED <<process, queue, cur, relay, inStep>>

\* WriteSingleCoil is answered: the write was carried out, or, out of step, the echo is that of an
\* earlier one like it, of this process or the one before.
WriteConfirmed ==
  /\ up /\ pc = "writing"
  /\ \/ coil' = [coil EXCEPT ![Output(cur)] = cur.want]
     \/ ~inStep /\ UNCHANGED coil
  /\ recent' = LastOf(Append(recent, cacheKey(cur)), CacheSize + 1)
  /\ pc' = "confirming"
  /\ attempt' = 1
  /\ UNCHANGED <<process, queue, cur, ack, fresh, cache, relay, inStep>>

\* WriteSingleCoil fails, on its way to the meter or on its way back, or because its answer is late.
WriteFails ==
  /\ up /\ pc = "writing"
  /\ \/ UNCHANGED coil
     \/ coil' = [coil EXCEPT ![Output(cur)] = cur.want]
  /\ recent' = LastOf(Append(recent, cacheKey(cur)), CacheSize + 1)
  /\ Finish(FALSE)
  /\ UNCHANGED <<process, queue, cur, relay, inStep>>

\* What a read of an output's state may show.
Shown(o) == IF inStep THEN {relay[o]} ELSE States

\* waitForDigitalOutputState: one read of the output's state.  It ends the wait with success when it
\* shows the wanted state, and with an error when it fails or was the last one allowed.
ReadWanted ==
  /\ up /\ pc = "confirming"
  /\ cur.want \in Shown(Output(cur))
  /\ Finish(TRUE)
  /\ UNCHANGED <<process, queue, cur, outputs, recent>>

ReadsOther == up /\ pc = "confirming" /\ Shown(Output(cur)) # {cur.want}

\* Mutant: the loop starts over when its attempts run out.
ReadForever ==
  /\ ReadsOther
  /\ attempt' = 1 + (attempt % ConfirmAttempts)
  /\ UNCHANGED <<process, queue, pc, cur, ack, fresh, cache, outputs, recent>>

ReadOther ==
  /\ ReadsOther
  /\ \/ /\ attempt < ConfirmAttempts
        /\ attempt' = attempt + 1
        /\ UNCHANGED <<pc, ack, fresh, cache>>
     \/ /\ attempt = ConfirmAttempts
        /\ Finish(FALSE)
  /\ UNCHANGED <<process, queue, cur, outputs, recent>>

\* Mutant: a control that cannot be confirmed is undone.
UndoUnread ==
  /\ up /\ pc = "confirming"
  /\ \E state \in States \ {cur.want} : coil' = [coil EXCEPT ![Output(cur)] = state]
  /\ Finish(FALSE)
  /\ UNCHANGED <<process, queue, cur, relay, inStep, recent>>

ReadFails ==
  /\ up /\ pc = "confirming"
  /\ Finish(FALSE)
  /\ UNCHANGED <<process, queue, cur, outputs, recent>>

\* publishACK, sent or lost; after an execution the switches are read and reported (module
\* PostSession has the report), after a repeated request they are not.
PublishACK ==
  /\ up /\ pc = "acking"
  /\ pc' = IF fresh THEN "reporting" ELSE "idle"
  /\ ack' = None
  /\ fresh' = FALSE
  /\ cur' = IF fresh THEN cur ELSE None
  /\ UNCHANGED <<process, queue, attempt, cache, outputs, recent>>

ReportSwitches ==
  /\ up /\ pc = "reporting"
  /\ pc' = "idle"
  /\ cur' = None
  /\ UNCHANGED <<process, queue, attempt, ack, fresh, cache, outputs, recent>>

\* External: a relay takes the state of its coil.
Settle(o) ==
  /\ relay' = [relay EXCEPT ![o] = coil[o]]
  /\ UNCHANGED <<process, queue, pc, cur, attempt, ack, fresh, cache, coil, inStep, recent>>

\* External: out of step, a write that was given up on is carried out after all.  Which writes those may
\* be is not kept: any will do, since nothing is promised of outputs on such a line.
CarryOut(o, state) ==
  /\ ~inStep
  /\ coil' = [coil EXCEPT ![o] = state]
  /\ UNCHANGED <<process, queue, pc, cur, attempt, ack, fresh, cache, relay, inStep, recent>>

Cancel ==
  /\ up /\ ~cancelled
  /\ cancelled' = TRUE
  /\ UNCHANGED <<up, queue, pc, cur, attempt, ack, fresh, cache, outputs, recent>>

\* The loop sees the cancelled context, only between commands; a crash ends it anywhere.
Ends(orderly) ==
  /\ up
  /\ orderly => cancelled /\ pc = "idle"
  /\ up' = FALSE
  /\ UNCHANGED <<cancelled, queue, pc, cur, attempt, ack, fresh, cache, outputs, recent>>

\* The program is started again: nothing of the old process is kept, the outputs stay as they were.
Restart ==
  /\ ~up
  /\ up' = TRUE
  /\ cancelled' = FALSE
  /\ queue' = <<>>
  /\ pc' = "idle"
  /\ cur' = None
  /\ attempt' = 0
  /\ ack' = None
  /\ fresh' = FALSE
  /\ values' = <<>>
  /\ order' = <<>>
  /\ recent' = <<>>
  /\ UNCHANGED outputs

Loop ==
  \/ ServeRepeated \/ Serve
  \/ WriteConfirmed \/ WriteFails
  \/ ReadWanted \/ ReadOther \/ ReadFails
  \/ PublishACK \/ ReportSwitches
  \/ Ends(TRUE)

Next ==
  \/ \E r \in Requests : HandleSet(r)
  \/ Loop
  \/ \E o \in Outputs : Settle(o)
  \/ \E o \in Outputs, state \in States : CarryOut(o, state)
  \/ Cancel
  \/ Ends(FALSE)
  \/ Restart

Spec == Init /\ [][Next]_vars

\* The control loop's goroutine is scheduled, and every bus operation and Publish returns.
FairSpec == Spec /\ WF_vars(Loop)
-----------------------------------------------------------------------------
TypeOK ==
  /\ up \in BOOLEAN
  /\ cancelled \in BOOLEAN
  /\ queue \in Seq(Commands) /\ Len(queue) <= QueueCapacity
  /\ pc \in {"idle", "writing", "confirming", "acking", "reporting"}
  /\ cur \in Commands \cup {None}
  /\ pc # "idle" => cur \in Commands
  /\ attempt \in 0..ConfirmAttempts
  /\ ack \in Acks \cup {None}
  /\ fresh \in BOOLEAN
  /\ order \in Seq(Keys)
  /\ values \in [Range(order) -> Acks]
  /\ coil \in [Outputs -> States]
  /\ relay \in [Outputs -> States]
  /\ inStep \in BOOLEAN
  /\ recent \in Seq(Keys)

\* Within one process, a request repeated while fewer than CacheSize other requests were executed
\* since is not executed again: among the last CacheSize + 1 executions no key occurs twice
\* (ackCache: a repeated request_id does not move the relay again).
NoRepeatInWindow ==
  IsInjective(recent)

\* What is published for a command is the acknowledgement of that request and of that meter, also
\* when it comes from the cache and two meters were sent the same request id.
AckIsForThisCommand ==
  pc = "acking" => ack.id = cur.id /\ ack.meter = cur.meter

\* On a line in step an execution acknowledged as successful has moved the relay: the output is in the
\* wanted state when the acknowledgement is published, and its coil holds it there
\* (driver.go:128-188, controller.go:147-190).
SuccessMeansMoved ==
  inStep /\ pc = "acking" /\ fresh /\ ack.success =>
    relay[Output(cur)] = cur.want /\ coil[Output(cur)] = cur.want

\* A command that got into the queue is answered unless the process ends first, even if the relay
\* never moves and whatever else the server sends.
EveryCommandAnswered ==
  \A c \in Commands :
    (up /\ c \in Range(queue)) ~> (pc = "acking" /\ cur = c) \/ ~up
-----------------------------------------------------------------------------
\* The cache as a log of executions, and the acknowledgement about to be published.
Entry(k, a) == [key |-> k, ack |-> a]
Log == [i \in DOMAIN order |-> Entry(order[i], values[order[i]])]
Told == IF pc = "acking" THEN {Entry(cacheKey(cur), ack)} ELSE {}

Promise == INSTANCE AckLog WITH Memory <- CacheSize, log <- Log, told <- Told

\* Queue, cache, eviction, failed writes and restarts together do what AckLog promises the server, on
\* any line: the outcome of a request does not change while it is remembered (cache.go:9-51,
\* controller.go:58-75).
ImplementsAckLog == Promise!Spec

\* The control being executed, or just acknowledged, and the outputs that are on; on a line out of step
\* nothing is promised of them, and nothing is shown.
OnOf(states) == {o \in Outputs : inStep /\ states[o] = "on"}
Executing == inStep /\ pc \in {"writing", "confirming"}
Concluded == inStep /\ pc = "acking" /\ fresh
Controlled ==
  IF Executing \/ Concluded
  THEN {[output |-> Output(cur), want |-> cur.want = "on"]} ELSE {}
Verdict ==
  CASE Executing -> "open"
    [] Concluded -> IF ack.success THEN "success" ELSE "failure"
    [] OTHER -> "none"

Switching == INSTANCE DigitalOutput WITH
  Controls <- [output : Outputs, want : BOOLEAN],
  coil <- OnOf(coil), relay <- OnOf(relay), control <- Controlled, verdict <- Verdict

\* On a line in step, and through the queue, the cache, crashes and restarts, the outputs are switched
\* as module DigitalOutput promises: the same promise the driver keeps on the line (module Qs300)
\* (controller.go:147-190).
ImplementsDigitalOutput == Switching!Spec
=============================================================================
