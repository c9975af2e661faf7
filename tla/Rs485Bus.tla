------------------------------ MODULE Rs485Bus ------------------------------
(***************************************************************************)
(* The shared RS485 line (meter/modbus/rtu.go): goroutines that take the   *)
(* bus mutex, write one request and read one response from the serial      *)
(* port's input buffer, which nothing ever flushes.  The meters and the    *)
(* line are external: a meter answers a request once, normally or with an  *)
(* exception, late or not at all.                                          *)
(***************************************************************************)
EXTENDS Naturals, Sequences

CONSTANTS Callers,       \* the goroutines: collectors and the controller
          Requests,      \* the requests they make
          MaxExchanges,  \* bound: exchanges in one behaviour
          Late,          \* whether an answer may come after its timeout
          Noise          \* whether the line may damage an answer

\* Modbus functions 03 and 05, and what a response repeats of its request: for a
\* read the number of registers and never their address, for a write everything.
IsRequest(r) ==
  /\ r.function \in {3, 5}
  /\ r.function = 3 => r.echo \in 1..125

ASSUME RequestAssumption ==
  /\ Requests # {}
  /\ \A r \in Requests : DOMAIN r = {"slave", "function", "address", "echo"} /\ IsRequest(r)
ASSUME BoundAssumption == MaxExchanges \in Nat /\ Late \in BOOLEAN /\ Noise \in BOOLEAN

VARIABLES
  phase,     \* each caller: "idle", "locking", "writing" or "awaiting"
  request,   \* the request each caller makes, or made last
  exchange,  \* the number of that exchange
  accepted,  \* the frame it accepted, if it returned one
  last,      \* the number of exchanges so far
  pending,   \* the answers the meters have still to send
  input      \* the serial port's input buffer, a sequence of bytes

vars == <<phase, request, exchange, accepted, last, pending, input>>

Frames == [exchange : 1..MaxExchanges, request : Requests,
           exception : BOOLEAN, damaged : BOOLEAN]

\* slave, function and code or data, then two bytes of CRC.
Length(f) == IF f.exception THEN 5
             ELSE IF f.request.function = 3 THEN 5 + 2 * f.request.echo ELSE 8

\* A byte is known by its frame and its place in it.
Bytes(f) == [i \in 1..Length(f) |-> [frame |-> f, at |-> i]]

TypeOK ==
  /\ phase \in [Callers -> {"idle", "locking", "writing", "awaiting"}]
  /\ request \in [Callers -> Requests]
  /\ exchange \in [Callers -> 0..MaxExchanges]
  /\ accepted \in [Callers -> SUBSET Frames]
  /\ last \in 0..MaxExchanges
  /\ pending \subseteq Frames
  /\ input \in Seq([frame : Frames, at : Nat])

Init ==
  /\ phase = [c \in Callers |-> "idle"]
  /\ request = [c \in Callers |-> CHOOSE r \in Requests : TRUE]
  /\ exchange = [c \in Callers |-> 0]
  /\ accepted = [c \in Callers |-> {}]
  /\ last = 0
  /\ pending = {}
  /\ input = <<>>

Inside(c) == phase[c] \in {"writing", "awaiting"}

-----------------------------------------------------------------------------
(* ReadHoldingRegisters and WriteSingleCoil *)

Call(c, r) ==
  /\ phase[c] = "idle" /\ last < MaxExchanges
  /\ phase' = [phase EXCEPT ![c] = "locking"]
  /\ request' = [request EXCEPT ![c] = r]
  /\ exchange' = [exchange EXCEPT ![c] = last + 1]
  /\ accepted' = [accepted EXCEPT ![c] = {}]
  /\ last' = last + 1
  /\ UNCHANGED <<pending, input>>

\* Mutant: a caller only waits for those that are still writing.
LockForWriting(c) ==
  /\ phase[c] = "locking" /\ \A d \in Callers : phase[d] # "writing"
  /\ phase' = [phase EXCEPT ![c] = "writing"]
  /\ UNCHANGED <<request, exchange, accepted, last, pending, input>>

\* transactionMu.Lock()
Lock(c) ==
  /\ phase[c] = "locking" /\ \A d \in Callers : ~Inside(d)
  /\ phase' = [phase EXCEPT ![c] = "writing"]
  /\ UNCHANGED <<request, exchange, accepted, last, pending, input>>

\* writeAll; the meter that is addressed will answer, with an exception if it
\* refuses the request.
Write(c) ==
  /\ phase[c] = "writing"
  /\ phase' = [phase EXCEPT ![c] = "awaiting"]
  /\ \E exception \in BOOLEAN, damaged \in IF Noise THEN BOOLEAN ELSE {FALSE} :
       pending' = pending \cup {[exchange |-> exchange[c], request |-> request[c],
                                 exception |-> exception, damaged |-> damaged]}
  /\ UNCHANGED <<request, exchange, accepted, last, input>>

\* The exchange is over, with `taken` bytes read from the port; the deferred
\* Unlock lets the next caller in.
Return(c, outcome, taken) ==
  /\ phase' = [phase EXCEPT ![c] = "idle"]
  /\ accepted' = [accepted EXCEPT ![c] = outcome]
  /\ input' = SubSeq(input, taken + 1, Len(input))
  /\ UNCHANGED <<request, exchange, last, pending>>

\* The port refuses the request's bytes.
WriteFails(c) == phase[c] = "writing" /\ Return(c, {}, 0)

\* The buffer begins with the first byte of an undamaged frame f.
Begins(f) == input # <<>> /\ input[1] = [frame |-> f, at |-> 1] /\ ~f.damaged

\* The first two bytes are those the reader expects, the exception bit aside.
Expected(f, r) == f.request.slave = r.slave /\ f.request.function = r.function

\* The rest of what the caller checks: a read wants as many registers as it asked
\* for, a write its own coil and state.
Fits(f, r) ==
  /\ f.request.echo = r.echo
  /\ r.function = 5 => f.request.address = r.address

\* Three bytes are read, and are not those of an answer to this request.
RejectPrefix(c) ==
  /\ phase[c] = "awaiting"
  /\ \E f \in {input[i].frame : i \in 1..Len(input)} :
        Begins(f) /\ ~Expected(f, request[c])
  /\ Return(c, {}, 3)

\* Mutant: an exception is returned without reading its CRC.
ExceptionWithoutCRC(c) ==
  /\ phase[c] = "awaiting"
  /\ \E f \in {input[i].frame : i \in 1..Len(input)} :
        Begins(f) /\ Expected(f, request[c]) /\ f.exception
  /\ Return(c, {}, 3)

\* An exception response is read to its end.
ReceiveException(c) ==
  /\ phase[c] = "awaiting"
  /\ \E f \in {input[i].frame : i \in 1..Len(input)} :
        Begins(f) /\ Expected(f, request[c]) /\ f.exception
  /\ Return(c, {}, 5)

\* Mutant: the two bytes of a response's CRC are left in the buffer.
ReceiveWithoutCRC(c) ==
  /\ phase[c] = "awaiting"
  /\ \E f \in {input[i].frame : i \in 1..Len(input)} :
        /\ Begins(f) /\ Expected(f, request[c]) /\ ~f.exception
        /\ Return(c, IF Fits(f, request[c]) THEN {f} ELSE {}, Length(f) - 2)

\* The whole frame is read, as long as it says itself.
Receive(c) ==
  /\ phase[c] = "awaiting"
  /\ \E f \in {input[i].frame : i \in 1..Len(input)} :
        /\ Begins(f) /\ Expected(f, request[c]) /\ ~f.exception
        /\ Return(c, IF Fits(f, request[c]) THEN {f} ELSE {}, Length(f))

\* The bytes that come first are damaged, or the tail of a frame whose head
\* was read before.  Whatever they look like, some are read, never less than
\* three unless the wait for more runs out, and the CRC refuses them.
ReceiveGarbage(c) ==
  /\ phase[c] = "awaiting" /\ input # <<>>
  /\ input[1].at # 1 \/ input[1].frame.damaged
  /\ \E taken \in 1..Len(input) :
        (taken >= 3 \/ taken = Len(input)) /\ Return(c, {}, taken)

\* Mutant: the port is opened without a timeout.
WaitForEver(c) == phase[c] = "awaiting" /\ input # <<>> /\ Return(c, {}, Len(input))

\* Mutant: a request without an answer is written once more.
WriteAgain(c) ==
  /\ phase[c] = "awaiting" /\ input = <<>> /\ \A f \in pending : f.exchange # exchange[c]
  /\ phase' = [phase EXCEPT ![c] = "writing"]
  /\ UNCHANGED <<request, exchange, accepted, last, pending, input>>

\* Nothing arrives within the port's timeout: the answer is lost, or late.
Timeout(c) ==
  /\ phase[c] = "awaiting" /\ input = <<>>
  /\ Late \/ \A f \in pending : f.exchange # exchange[c]
  /\ Return(c, {}, 0)

Exchange(c) ==
  \/ Write(c) \/ WriteFails(c) \/ RejectPrefix(c) \/ ReceiveException(c)
  \/ Receive(c) \/ ReceiveGarbage(c) \/ Timeout(c)

-----------------------------------------------------------------------------
(* The line *)

\* A meter serves its requests in the order they came.
Oldest(f) == \A g \in pending : g.request.slave = f.request.slave => f.exchange <= g.exchange

\* An answer reaches the port's buffer.
Deliver(f) ==
  /\ Oldest(f)
  /\ pending' = pending \ {f}
  /\ input' = input \o Bytes(f)
  /\ UNCHANGED <<phase, request, exchange, accepted, last>>

Lose(f) ==
  /\ Oldest(f)
  /\ pending' = pending \ {f}
  /\ UNCHANGED <<phase, request, exchange, accepted, last, input>>

Next ==
  \/ \E c \in Callers : (\E r \in Requests : Call(c, r)) \/ Lock(c) \/ Exchange(c)
  \/ \E f \in pending : Deliver(f) \/ Lose(f)

Spec == Init /\ [][Next]_vars

\* A caller that holds the mutex goes on, a read times out, and Go's mutex
\* hands itself to a goroutine that has waited for a millisecond.  An answer
\* that is never late comes, or is lost, before its reader gives up.
FairSpec ==
  /\ Spec
  /\ \A c \in Callers : WF_vars(Exchange(c)) /\ SF_vars(Lock(c))
  /\ Late \/ WF_vars(\E f \in pending : Deliver(f) \/ Lose(f))

-----------------------------------------------------------------------------
(* Properties *)

\* Two requests are never on the line at once, whatever the goroutines of the
\* collectors and the controller do (rtu.go:37-39, bus_test.go:50-86).
OneAtATime ==
  \A c, d \in Callers : Inside(c) /\ Inside(d) => c = d

\* Even with late and damaged answers about, and the line out of step for good, an answer is given to one
\* call and used up by it: nobody else was given it, it will not come again, and none of its bytes is left
\* in the buffer for a later exchange to begin in the middle of (rtu.go:172-247).
AnswerIsUsedUp ==
  \A c \in Callers : \A f \in accepted[c] :
    /\ f \notin pending
    /\ \A i \in 1..Len(input) : input[i].frame # f
    /\ \A d \in Callers \ {c} : f \notin accepted[d]

\* "One question, one answer" (rtu.go:172): what an exchange returns answers
\* the request it wrote.  It holds when no answer is late or damaged; a late
\* one stays in the buffer and is taken for the answer to a later request.
OneQuestionOneAnswer ==
  \A c \in Callers : \A f \in accepted[c] : f.exchange = exchange[c]

\* When no answer is late or damaged every way out of an exchange, errors
\* included, leaves the line clean for the next one: with the mutex free the
\* buffer is empty and no answer is under way (rtu.go:180-246).
LeavesNothing ==
  (\A c \in Callers : ~Inside(c)) => input = <<>> /\ pending = {}

\* Every call returns: nobody keeps the mutex, and nobody waits for it for ever.
EveryCallReturns ==
  \A c \in Callers : phase[c] = "locking" ~> phase[c] = "idle"

-----------------------------------------------------------------------------
\* The bus as its callers see it: what each waits with, whose request has left the line while its caller
\* still waits, and what each was answered.
Question(c) == [exchange |-> exchange[c], request |-> request[c]]
Waiting == [c \in Callers |-> IF phase[c] = "idle" THEN {} ELSE {Question(c)}]
OffTheLine == {c \in Callers : phase[c] = "awaiting" /\ \A f \in pending : f.exchange # exchange[c]}
GivenAnswers ==
  [c \in Callers |-> {[exchange |-> f.exchange, request |-> f.request] : f \in accepted[c]}]

Atomic == INSTANCE AtomicBus WITH asked <- Waiting, handled <- OffTheLine, answer <- GivenAnswers

\* While no answer is late or damaged, the mutex and the reading of whole frames make every exchange
\* atomic: no request takes effect during another's exchange or after its own has failed, and what is
\* returned answers the request that was made, register address included (rtu.go:100-190).
ImplementsAtomicBus == Atomic!Spec
=============================================================================
