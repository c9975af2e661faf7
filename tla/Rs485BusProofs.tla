--------------------------- MODULE Rs485BusProofs ----------------------------
(***************************************************************************)
(* Proofs about Rs485Bus, for every set of callers, every set of requests  *)
(* and every number of exchanges.                                          *)
(***************************************************************************)
EXTENDS Rs485Bus, TLAPS, SequenceTheorems

\* A response has a length, which its bytes have.
LEMMA LengthIsNat == \A f \in Frames : Length(f) \in Nat /\ Length(f) >= 5
<1> SUFFICES ASSUME NEW f \in Frames PROVE Length(f) \in Nat /\ Length(f) >= 5
  OBVIOUS
<1>1. f.request \in Requests BY DEF Frames
<1>2. IsRequest(f.request) BY <1>1, RequestAssumption
<1>3. CASE f.request.function = 3 BY <1>2, <1>3 DEF IsRequest, Length
<1>4. CASE f.request.function # 3 BY <1>4 DEF Length
<1> QED BY <1>3, <1>4

\* A function on an initial segment of the naturals is a sequence.
LEMMA FunctionIsSequence ==
  ASSUME NEW S, NEW n \in Nat, NEW s \in [1..n -> S]
  PROVE  s \in Seq(S)
BY SeqDef, Zenon

\* The bytes of a frame, in order, as many as its length.
LEMMA BytesAreASequence ==
  ASSUME NEW f \in Frames
  PROVE  /\ Bytes(f) \in Seq([frame : Frames, at : Nat])
         /\ Len(Bytes(f)) = Length(f)
         /\ Bytes(f)[1] = [frame |-> f, at |-> 1]
         /\ Bytes(f) # <<>>
<1>1. Length(f) \in Nat /\ Length(f) >= 5 BY LengthIsNat
<1>2. \A i \in 1..Length(f) : [frame |-> f, at |-> i] \in [frame : Frames, at : Nat]
  OBVIOUS
<1>3. Bytes(f) \in [1..Length(f) -> [frame : Frames, at : Nat]]
  BY <1>1, <1>2 DEF Bytes
<1>4. Bytes(f) \in Seq([frame : Frames, at : Nat])
  BY <1>1, <1>3, FunctionIsSequence
<1>5. Len(Bytes(f)) = Length(f)
  <2>1. 1..Len(Bytes(f)) = 1..Length(f) /\ Len(Bytes(f)) \in Nat
    BY <1>3, <1>4, LenProperties
  <2> QED BY <1>1, <2>1
<1>6. Bytes(f)[1] = [frame |-> f, at |-> 1] BY <1>1 DEF Bytes
<1> QED BY <1>1, <1>4, <1>5, <1>6, EmptySeq

\* A caller that has made its call has a number for it.
TypeInv ==
  /\ TypeOK
  /\ \A c \in Callers : phase[c] # "idle" => exchange[c] \in 1..MaxExchanges

\* The bytes in the buffer are bytes of frames.
LEMMA BufferHoldsFrames ==
  ASSUME TypeOK, NEW i \in 1..Len(input)
  PROVE  input[i].frame \in Frames
<1>1. input[i] \in [frame : Frames, at : Nat] BY ElementOfSeq DEF TypeOK
<1> QED BY <1>1

\* What is left of the buffer when some bytes were read is a buffer again.
LEMMA ReturnIsTyped ==
  ASSUME TypeInv, NEW c \in Callers, NEW outcome \in SUBSET Frames, NEW taken \in Nat,
         Return(c, outcome, taken)
  PROVE  TypeInv'
<1>1. SubSeq(input, taken + 1, Len(input)) \in Seq([frame : Frames, at : Nat])
  <2>1. input \in Seq([frame : Frames, at : Nat]) BY DEF TypeInv, TypeOK
  <2>2. Len(input) \in Nat BY <2>1, LenProperties
  <2>3. \A i \in (taken + 1)..Len(input) : input[i] \in [frame : Frames, at : Nat]
    <3>1. \A i \in (taken + 1)..Len(input) : i \in 1..Len(input) BY <2>2
    <3> QED BY <2>1, <3>1, ElementOfSeq
  <2>4. taken + 1 \in Int /\ Len(input) \in Int BY <2>2
  <2> QED BY <2>3, <2>4, SubSeqProperties, Zenon
<1> QED BY <1>1 DEF Return, TypeInv, TypeOK

\* Every step keeps the types, and the number of every call under way.
LEMMA TypeInductive == TypeInv /\ [Next]_vars => TypeInv'
<1> SUFFICES ASSUME TypeInv, [Next]_vars PROVE TypeInv'
  OBVIOUS
<1> USE BoundAssumption
<1>1. ASSUME NEW c \in Callers, NEW r \in Requests, Call(c, r) PROVE TypeInv'
  BY <1>1 DEF Call, TypeInv, TypeOK
<1>2. ASSUME NEW c \in Callers, Lock(c) PROVE TypeInv'
  BY <1>2 DEF Lock, TypeInv, TypeOK
<1>3. ASSUME NEW c \in Callers, Exchange(c) PROVE TypeInv'
  <2>1. CASE Write(c)
    <3>1. PICK e \in BOOLEAN, d \in BOOLEAN :
            pending' = pending \cup {[exchange |-> exchange[c], request |-> request[c],
                                      exception |-> e, damaged |-> d]}
      BY <2>1 DEF Write
    <3>2. [exchange |-> exchange[c], request |-> request[c],
           exception |-> e, damaged |-> d] \in Frames
      BY <2>1 DEF Write, TypeInv, TypeOK, Frames
    <3> QED BY <2>1, <3>1, <3>2 DEF Write, TypeInv, TypeOK
  <2>2. CASE WriteFails(c) BY <2>2, ReturnIsTyped DEF WriteFails
  <2>3. CASE RejectPrefix(c) BY <2>3, ReturnIsTyped DEF RejectPrefix
  <2>4. CASE ReceiveException(c) BY <2>4, ReturnIsTyped DEF ReceiveException
  <2>5. CASE Receive(c)
    <3>1. PICK f \in {input[i].frame : i \in 1..Len(input)} :
            Return(c, IF Fits(f, request[c]) THEN {f} ELSE {}, Length(f))
      BY <2>5 DEF Receive
    <3>2. f \in Frames BY <3>1, BufferHoldsFrames DEF TypeInv
    <3> QED BY <3>1, <3>2, LengthIsNat, ReturnIsTyped
  <2>6. CASE ReceiveGarbage(c) BY <2>6, ReturnIsTyped DEF ReceiveGarbage
  <2>7. CASE Timeout(c) BY <2>7, ReturnIsTyped DEF Timeout
  <2> QED BY <1>3, <2>1, <2>2, <2>3, <2>4, <2>5, <2>6, <2>7 DEF Exchange
<1>4. ASSUME NEW f \in pending, Deliver(f) PROVE TypeInv'
  <2>1. f \in Frames BY DEF TypeInv, TypeOK
  <2>2. input' \in Seq([frame : Frames, at : Nat])
    BY <1>4, <2>1, BytesAreASequence, ConcatProperties DEF Deliver, TypeInv, TypeOK
  <2> QED BY <1>4, <2>2 DEF Deliver, TypeInv, TypeOK
<1>5. ASSUME NEW f \in pending, Lose(f) PROVE TypeInv'
  BY <1>5 DEF Lose, TypeInv, TypeOK
<1>6. CASE UNCHANGED vars BY <1>6 DEF vars, TypeInv, TypeOK
<1> QED BY <1>1, <1>2, <1>3, <1>4, <1>5, <1>6 DEF Next

\* What all the other proofs start from.
LEMMA TypeInvHolds == Spec => []TypeInv
<1>1. Init => TypeInv
  BY BoundAssumption, RequestAssumption DEF Init, TypeInv, TypeOK
<1> QED BY <1>1, TypeInductive, PTL DEF Spec

\* Type correctness: the buffer is a sequence of bytes of answers that meters
\* have sent.
THEOREM TypeCorrect == Spec => []TypeOK
<1>1. TypeInv => TypeOK BY DEF TypeInv
<1> QED BY <1>1, TypeInvHolds, PTL

-----------------------------------------------------------------------------
\* The ways out of an exchange, for the proofs that only care what it accepts.
LEMMA ExchangeSteps ==
  ASSUME TypeInv, NEW c \in Callers, Exchange(c)
  PROVE  /\ Inside(c)
         /\ request' = request /\ exchange' = exchange
         /\ \/ phase' = [phase EXCEPT ![c] = "awaiting"] /\ accepted' = accepted
            \/ phase' = [phase EXCEPT ![c] = "idle"] /\ accepted' = [accepted EXCEPT ![c] = {}]
            \/ /\ phase' = [phase EXCEPT ![c] = "idle"]
               /\ \E f \in Frames :
                    /\ Begins(f) /\ Expected(f, request[c]) /\ ~f.exception
                    /\ Fits(f, request[c])
                    /\ accepted' = [accepted EXCEPT ![c] = {f}]
<1>1. CASE Write(c) BY <1>1 DEF Write, Inside
<1>2. CASE Receive(c)
  <2>1. PICK f \in {input[i].frame : i \in 1..Len(input)} :
          /\ Begins(f) /\ Expected(f, request[c]) /\ ~f.exception
          /\ Return(c, IF Fits(f, request[c]) THEN {f} ELSE {}, Length(f))
    BY <1>2 DEF Receive
  <2>2. f \in Frames BY <2>1, BufferHoldsFrames DEF TypeInv
  <2> QED BY <1>2, <2>1, <2>2 DEF Receive, Return, Inside
<1>3. CASE \/ WriteFails(c) \/ RejectPrefix(c) \/ ReceiveException(c)
           \/ ReceiveGarbage(c) \/ Timeout(c)
  BY <1>3 DEF WriteFails, RejectPrefix, ReceiveException, ReceiveGarbage, Timeout, Return, Inside
<1> QED BY <1>1, <1>2, <1>3 DEF Exchange

\* Only Lock lets a caller in, and it finds nobody inside.
LEMMA OneInductive == TypeInv /\ OneAtATime /\ [Next]_vars => OneAtATime'
<1> SUFFICES ASSUME TypeInv, OneAtATime, [Next]_vars PROVE OneAtATime'
  OBVIOUS
<1> USE DEF OneAtATime, Inside, TypeInv, TypeOK
<1>1. ASSUME NEW c \in Callers, NEW r \in Requests, Call(c, r) PROVE OneAtATime'
  BY <1>1 DEF Call
<1>2. ASSUME NEW c \in Callers, Lock(c) PROVE OneAtATime'
  BY <1>2 DEF Lock
<1>3. ASSUME NEW c \in Callers, Exchange(c) PROVE OneAtATime'
  BY <1>3, ExchangeSteps
<1>4. CASE UNCHANGED phase BY <1>4
<1> QED BY <1>1, <1>2, <1>3, <1>4 DEF Next, Deliver, Lose, vars

\* Two requests are never on the line at once.
THEOREM MutualExclusion == Spec => []OneAtATime
<1>1. Init => OneAtATime BY DEF Init, OneAtATime, Inside
<1> QED BY <1>1, OneInductive, TypeInvHolds, PTL DEF Spec

\* What a caller has been given was sent by the meter it asked, in answer to a
\* request of the same function and the same size or echo.
AnswerFromAskedMeter ==
  \A c \in Callers : \A f \in accepted[c] :
    /\ f.request.slave = request[c].slave
    /\ f.request.function = request[c].function
    /\ f.request.echo = request[c].echo
    /\ request[c].function = 5 => f.request.address = request[c].address
    /\ ~f.exception /\ ~f.damaged

\* Only Receive accepts a frame, and it has looked at its prefix, its CRC and
\* its size or its echo.
LEMMA AskedInductive == TypeInv /\ AnswerFromAskedMeter /\ [Next]_vars => AnswerFromAskedMeter'
<1> SUFFICES ASSUME TypeInv, AnswerFromAskedMeter, [Next]_vars PROVE AnswerFromAskedMeter'
  OBVIOUS
<1> USE DEF AnswerFromAskedMeter, TypeInv, TypeOK
<1>1. ASSUME NEW c \in Callers, NEW r \in Requests, Call(c, r) PROVE AnswerFromAskedMeter'
  BY <1>1 DEF Call
<1>2. ASSUME NEW c \in Callers, Exchange(c) PROVE AnswerFromAskedMeter'
  <2>1. request' = request BY <1>2, ExchangeSteps
  <2>2. \A d \in Callers : d # c => accepted'[d] = accepted[d]
    BY <1>2, ExchangeSteps
  <2>3. \/ accepted'[c] = accepted[c] \/ accepted'[c] = {}
        \/ \E f \in Frames : /\ Begins(f) /\ Expected(f, request[c]) /\ ~f.exception
                             /\ Fits(f, request[c])
                             /\ accepted'[c] = {f}
    BY <1>2, ExchangeSteps
  <2> DEFINE Right(d, f) ==
        /\ f.request.slave = request[d].slave
        /\ f.request.function = request[d].function
        /\ f.request.echo = request[d].echo
        /\ request[d].function = 5 => f.request.address = request[d].address
        /\ ~f.exception /\ ~f.damaged
  <2>4. \A f \in accepted[c] : Right(c, f)
    OBVIOUS
  <2>5. \A f \in Frames : Begins(f) /\ Expected(f, request[c]) /\ ~f.exception /\ Fits(f, request[c])
                          => Right(c, f)
    BY DEF Begins, Expected, Fits
  <2>6. \A f \in accepted'[c] : Right(c, f)
    <3> HIDE DEF Right
    <3> QED BY <2>3, <2>4, <2>5
  <2>7. \A d \in Callers : d # c => \A f \in accepted'[d] : Right(d, f)
    BY <2>2
  <2> HIDE DEF TypeInv, TypeOK
  <2>8. \A d \in Callers : \A f \in accepted'[d] : Right(d, f)
    <3> HIDE DEF Right
    <3> QED BY <2>6, <2>7
  <2> QED BY <2>1, <2>8
<1>3. CASE UNCHANGED <<accepted, request>> BY <1>3
<1> QED BY <1>1, <1>2, <1>3 DEF Next, Lock, Deliver, Lose, vars

\* Whatever is late or damaged, it stays so; the driver's acknowledgements rest
\* on it (module Qs300Proofs).
LEMMA AnswersAreFromAskedMeters == Spec => []AnswerFromAskedMeter
<1>1. Init => AnswerFromAskedMeter BY DEF Init, AnswerFromAskedMeter
<1> QED BY <1>1, AskedInductive, TypeInvHolds, PTL DEF Spec

-----------------------------------------------------------------------------
\* The answer f is the one that caller c's meter sends to its request.
Answers(f, c) == f.exchange = exchange[c] /\ f.request = request[c] /\ ~f.damaged

\* What an exchange returned is the answer to its own request.
OwnAnswers ==
  \A c \in Callers : \A f \in accepted[c] : f.exchange = exchange[c] /\ f.request = request[c]

\* On a line that is in step the answer under way, or in the buffer, is that to
\* the request of the caller inside; without one there is neither.
InStep ==
  /\ OneAtATime
  /\ (\A c \in Callers : phase[c] # "awaiting") => input = <<>> /\ pending = {}
  /\ \A c \in Callers : phase[c] = "awaiting" =>
       \E f \in Frames :
         /\ Answers(f, c)
         /\ \/ input = <<>> /\ pending \in {{}, {f}}
            \/ input = Bytes(f) /\ pending = {}
  /\ OwnAnswers

\* Reading all the bytes of a frame leaves the buffer empty.
LEMMA WholeFrameLeavesNothing ==
  ASSUME NEW f \in Frames
  PROVE  SubSeq(Bytes(f), Length(f) + 1, Len(Bytes(f))) = <<>>
<1>1. Len(Bytes(f)) = Length(f) /\ Length(f) \in Nat
  BY BytesAreASequence, LengthIsNat
<1>2. Length(f) < Length(f) + 1 /\ Length(f) \in Int /\ Length(f) + 1 \in Int
  BY <1>1
<1> QED BY <1>1, <1>2, SubSeqEmpty

\* Reading nothing of an empty buffer leaves it empty.
LEMMA NothingLeavesNothing == SubSeq(<<>>, 0 + 1, Len(<<>>)) = <<>>
<1>1. Len(<<>>) = 0 BY EmptySeq
<1>2. 0 < 0 + 1 /\ 0 \in Int /\ 0 + 1 \in Int OBVIOUS
<1> QED BY <1>1, <1>2, SubSeqEmpty

\* The exchange that is awaiting its answer ends with the line clean, having
\* accepted nothing or the answer.
LEMMA CleanReturn ==
  ASSUME TypeInv, InStep, ~Late, NEW c \in Callers, phase[c] = "awaiting",
         RejectPrefix(c) \/ ReceiveException(c) \/ Receive(c) \/ ReceiveGarbage(c) \/ Timeout(c)
  PROVE  /\ phase' = [phase EXCEPT ![c] = "idle"]
         /\ request' = request /\ exchange' = exchange
         /\ input' = <<>> /\ pending' = {}
         /\ \/ accepted' = [accepted EXCEPT ![c] = {}]
            \/ \E f \in Frames : /\ f.exchange = exchange[c] /\ f.request = request[c]
                                 /\ accepted' = [accepted EXCEPT ![c] = {f}]
<1>1. PICK g \in Frames : /\ Answers(g, c)
                          /\ \/ input = <<>> /\ pending \in {{}, {g}}
                             \/ input = Bytes(g) /\ pending = {}
  BY DEF InStep
<1>2. input # <<>> => input = Bytes(g) /\ pending = {}
  BY <1>1
<1>3. input = Bytes(g) => input # <<>> /\ input[1] = [frame |-> g, at |-> 1]
  BY BytesAreASequence
<1>4. ASSUME NEW f, Begins(f) PROVE f = g
  <2>1. [frame |-> f, at |-> 1] = [frame |-> g, at |-> 1] BY <1>2, <1>3, <1>4 DEF Begins
  <2>2. [frame |-> f, at |-> 1].frame = [frame |-> g, at |-> 1].frame BY <2>1
  <2> QED BY <2>2
<1>5. Expected(g, request[c]) BY <1>1 DEF Answers, Expected
<1>6. ~RejectPrefix(c) BY <1>4, <1>5 DEF RejectPrefix
<1>7. ~ReceiveGarbage(c)
  <2>1. SUFFICES ASSUME ReceiveGarbage(c) PROVE FALSE OBVIOUS
  <2>2. input[1] = [frame |-> g, at |-> 1] BY <1>2, <1>3, <2>1 DEF ReceiveGarbage
  <2>3. input[1].at = 1 /\ input[1].frame = g BY <2>2
  <2> QED BY <2>1, <2>3, <1>1 DEF ReceiveGarbage, Answers
<1>8. CASE ReceiveException(c)
  <2>1. PICK f : Begins(f) /\ f.exception BY <1>8 DEF ReceiveException
  <2>2. g.exception /\ input = Bytes(g) /\ pending = {}
    BY <2>1, <1>2, <1>4 DEF Begins
  <2>3. Length(g) = 5 BY <2>2 DEF Length
  <2>4. input' = SubSeq(Bytes(g), Length(g) + 1, Len(Bytes(g)))
    BY <1>8, <2>2, <2>3 DEF ReceiveException, Return
  <2> QED BY <1>8, <2>2, <2>4, WholeFrameLeavesNothing DEF ReceiveException, Return
<1>9. CASE Receive(c)
  <2>1. PICK f : /\ Begins(f)
                 /\ Return(c, IF Fits(f, request[c]) THEN {f} ELSE {}, Length(f))
    BY <1>9 DEF Receive
  <2>2. f = g /\ input = Bytes(g) /\ pending = {}
    BY <2>1, <1>2, <1>4 DEF Begins
  <2>3. input' = <<>> BY <2>1, <2>2, WholeFrameLeavesNothing DEF Return
  <2> QED BY <1>1, <2>1, <2>2, <2>3 DEF Return, Answers
<1>10. CASE Timeout(c)
  <2>1. input = <<>> /\ pending = {}
    BY <1>1, <1>3, <1>10 DEF Timeout, Answers
  <2> QED BY <1>10, <2>1, NothingLeavesNothing DEF Timeout, Return
<1> QED BY <1>6, <1>7, <1>8, <1>9, <1>10

\* Every step keeps a line in step on which nothing is late or damaged.
LEMMA InStepInductive ==
  ASSUME ~Late, ~Noise, TypeInv, InStep, [Next]_vars
  PROVE  InStep'
<1>1. OneAtATime' BY OneInductive DEF InStep
<1>2. ASSUME NEW c \in Callers, NEW r \in Requests, Call(c, r) PROVE InStep'
  <2>1. \A d \in Callers : (phase'[d] = "awaiting") = (phase[d] = "awaiting")
    BY <1>2 DEF Call, TypeInv, TypeOK
  <2>2. phase[c] # "awaiting" BY <1>2 DEF Call
  <2>3. \A d \in Callers : d # c =>
          exchange'[d] = exchange[d] /\ request'[d] = request[d] /\ accepted'[d] = accepted[d]
    BY <1>2 DEF Call, TypeInv, TypeOK
  <2>4. accepted'[c] = {} /\ input' = input /\ pending' = pending
    BY <1>2 DEF Call, TypeInv, TypeOK
  <2> QED BY <1>1, <2>1, <2>2, <2>3, <2>4 DEF InStep, OwnAnswers, Answers
<1>3. ASSUME NEW c \in Callers, Lock(c) PROVE InStep'
  <2>1. \A d \in Callers : (phase'[d] = "awaiting") = (phase[d] = "awaiting")
    BY <1>3 DEF Lock, TypeInv, TypeOK
  <2> QED BY <1>1, <1>3, <2>1 DEF Lock, InStep, OwnAnswers, Answers
<1>4. ASSUME NEW c \in Callers, Exchange(c) PROVE InStep'
  <2>1. \A d \in Callers : d # c => ~Inside(d)
    BY <1>4, ExchangeSteps DEF InStep, OneAtATime
  <2>2. CASE Write(c)
    <3>1. PICK e \in BOOLEAN : pending' = pending \cup
            {[exchange |-> exchange[c], request |-> request[c],
              exception |-> e, damaged |-> FALSE]}
      BY <2>2 DEF Write
    <3>2. PICK g \in Frames : /\ pending' = pending \cup {g} /\ ~g.damaged
                              /\ g.exchange = exchange[c] /\ g.request = request[c]
      <4> DEFINE answer == [exchange |-> exchange[c], request |-> request[c],
                            exception |-> e, damaged |-> FALSE]
      <4>1. answer \in Frames BY <2>2 DEF Write, TypeInv, TypeOK, Frames
      <4>2. /\ ~answer.damaged /\ answer.exchange = exchange[c]
            /\ answer.request = request[c] /\ pending' = pending \cup {answer}
        BY <3>1
      <4> HIDE DEF answer
      <4> QED BY <4>1, <4>2
    <3>3. \A d \in Callers : phase[d] # "awaiting"
      BY <2>1, <2>2 DEF Write, Inside
    <3>4. input' = <<>> /\ pending' = {g} BY <2>2, <3>2, <3>3 DEF InStep, Write
    <3>5. \A d \in Callers : phase'[d] = "awaiting" => d = c
      BY <2>2, <3>3 DEF Write, TypeInv, TypeOK
    <3>6. phase'[c] = "awaiting" BY <2>2 DEF Write, TypeInv, TypeOK
    <3>7. g.exchange = exchange'[c] /\ g.request = request'[c]
      BY <2>2, <3>2 DEF Write
    <3>8. OwnAnswers' BY <2>2 DEF Write, InStep, OwnAnswers
    <3> QED BY <1>1, <3>2, <3>4, <3>5, <3>6, <3>7, <3>8 DEF InStep, Answers
  <2>3. CASE WriteFails(c)
    <3>1. \A d \in Callers : phase[d] # "awaiting"
      BY <2>1, <2>3 DEF WriteFails, Inside
    <3>2. input' = <<>> /\ pending' = {}
      BY <2>3, <3>1, NothingLeavesNothing DEF WriteFails, Return, InStep
    <3>3. \A d \in Callers : phase'[d] # "awaiting"
      BY <2>3, <3>1 DEF WriteFails, Return, TypeInv, TypeOK
    <3>4. OwnAnswers'
      BY <2>3 DEF WriteFails, Return, InStep, OwnAnswers, TypeInv, TypeOK
    <3> QED BY <1>1, <3>2, <3>3, <3>4 DEF InStep
  <2>4. CASE RejectPrefix(c) \/ ReceiveException(c) \/ Receive(c) \/ ReceiveGarbage(c)
             \/ Timeout(c)
    <3>1. phase[c] = "awaiting"
      BY <2>4 DEF RejectPrefix, ReceiveException, Receive, ReceiveGarbage, Timeout
    <3>2. \A d \in Callers : phase'[d] # "awaiting"
      <4>1. phase' = [phase EXCEPT ![c] = "idle"] BY <2>4, <3>1, CleanReturn
      <4>2. \A d \in Callers : d # c => phase[d] # "awaiting" BY <2>1 DEF Inside
      <4> QED BY <4>1, <4>2 DEF TypeInv, TypeOK
    <3>3. OwnAnswers'
      <4>1. exchange' = exchange /\ request' = request BY <2>4, <3>1, CleanReturn
      <4>2. \A d \in Callers : d # c => accepted'[d] = accepted[d]
        BY <2>4, <3>1, CleanReturn DEF TypeInv, TypeOK
      <4>3. \A f \in accepted'[c] : f.exchange = exchange[c] /\ f.request = request[c]
        BY <2>4, <3>1, CleanReturn DEF TypeInv, TypeOK
      <4> QED BY <4>1, <4>2, <4>3 DEF InStep, OwnAnswers
    <3>4. input' = <<>> /\ pending' = {} BY <2>4, <3>1, CleanReturn
    <3> QED BY <1>1, <3>2, <3>3, <3>4 DEF InStep
  <2> QED BY <1>4, <2>2, <2>3, <2>4 DEF Exchange
<1>5. ASSUME NEW f \in pending, Deliver(f) \/ Lose(f) PROVE InStep'
  <2>1. PICK c \in Callers : phase[c] = "awaiting" BY DEF InStep
  <2>2. PICK g \in Frames : /\ Answers(g, c)
                            /\ \/ input = <<>> /\ pending \in {{}, {g}}
                               \/ input = Bytes(g) /\ pending = {}
    BY <2>1 DEF InStep
  <2>3. input = <<>> /\ pending = {g} /\ f = g BY <2>2
  <2>4. pending' = {} BY <1>5, <2>3 DEF Deliver, Lose
  <2>5. input' = Bytes(g) \/ input' = <<>>
    BY <1>5, <2>3, BytesAreASequence, ConcatEmptySeq DEF Deliver, Lose
  <2>6. UNCHANGED <<phase, request, exchange, accepted>> BY <1>5 DEF Deliver, Lose
  <2>7. \A d \in Callers : phase[d] = "awaiting" => d = c
    BY <2>1 DEF InStep, OneAtATime, Inside
  <2> QED BY <1>1, <2>1, <2>2, <2>4, <2>5, <2>6, <2>7
          DEF InStep, OwnAnswers, Answers
<1>6. CASE UNCHANGED vars
  BY <1>1, <1>6 DEF vars, InStep, OwnAnswers, Answers
<1> QED BY <1>2, <1>3, <1>4, <1>5, <1>6 DEF Next

\* With answers neither late nor damaged the line is in step for ever.
LEMMA StaysInStep ==
  ASSUME ~Late, ~Noise
  PROVE  Spec => []InStep
<1>1. Init => InStep
  BY DEF Init, InStep, OneAtATime, Inside, OwnAnswers
<1>2. TypeInv /\ InStep /\ [Next]_vars => InStep'
  BY InStepInductive
<1> QED BY <1>1, <1>2, TypeInvHolds, PTL DEF Spec

\* On a line without late or damaged answers an exchange returns the answer to
\* its own request.
THEOREM AnswersAreInOrder ==
  ASSUME ~Late, ~Noise
  PROVE  Spec => []OneQuestionOneAnswer
<1>1. InStep => OneQuestionOneAnswer BY DEF InStep, OwnAnswers, OneQuestionOneAnswer
<1> QED BY <1>1, StaysInStep, PTL

\* On such a line every way out of an exchange leaves the line clean.
THEOREM LineIsLeftClean ==
  ASSUME ~Late, ~Noise
  PROVE  Spec => []LeavesNothing
<1>1. InStep => LeavesNothing BY DEF InStep, LeavesNothing, Inside
<1> QED BY <1>1, StaysInStep, PTL

-----------------------------------------------------------------------------
(* The numbers of exchanges *)

\* No two exchanges have the same number.
Numbered ==
  /\ \A c \in Callers : exchange[c] <= last
  /\ \A c, d \in Callers : exchange[c] = exchange[d] /\ exchange[c] # 0 => c = d

LEMMA NumberedInductive == TypeInv /\ Numbered /\ [Next]_vars => Numbered'
<1> SUFFICES ASSUME TypeInv, Numbered, [Next]_vars PROVE Numbered'
  OBVIOUS
<1> USE BoundAssumption DEF TypeInv, TypeOK
<1>1. ASSUME NEW c \in Callers, NEW r \in Requests, Call(c, r) PROVE Numbered'
  <2>1. exchange' = [exchange EXCEPT ![c] = last + 1] /\ last' = last + 1 BY <1>1 DEF Call
  <2>2. last \in Nat /\ \A d \in Callers : exchange[d] \in Nat OBVIOUS
  <2>3. exchange'[c] = last + 1 /\ \A d \in Callers : d # c => exchange'[d] = exchange[d]
    BY <2>1
  <2>4. \A d \in Callers : exchange[d] < last + 1 BY <2>2 DEF Numbered
  <2>5. \A d \in Callers : exchange'[d] <= last' BY <2>1, <2>2, <2>3, <2>4
  <2>6. ASSUME NEW d \in Callers, NEW e \in Callers, exchange'[d] = exchange'[e], exchange'[d] # 0
        PROVE  d = e
    BY <2>2, <2>3, <2>4, <2>6 DEF Numbered
  <2> QED BY <2>5, <2>6 DEF Numbered
<1>2. ASSUME NEW c \in Callers, Exchange(c) PROVE exchange' = exchange /\ last' = last
  BY <1>2 DEF Exchange, Write, WriteFails, RejectPrefix, ReceiveException, Receive,
     ReceiveGarbage, Timeout, Return
<1>3. CASE exchange' = exchange /\ last' = last BY <1>3 DEF Numbered
<1> QED BY <1>1, <1>2, <1>3 DEF Next, Lock, Deliver, Lose, vars

\* Exchanges keep their numbers for ever.
LEMMA NumbersHold == Spec => []Numbered
<1>1. Init => Numbered BY BoundAssumption DEF Init, Numbered
<1> QED BY <1>1, NumberedInductive, TypeInvHolds, PTL DEF Spec

-----------------------------------------------------------------------------
(* Answers that are late and bytes that are damaged *)

\* The answer f is under way, or some of it is in the buffer, or a caller was given it.
About(f) ==
  \/ f \in pending
  \/ \E i \in 1..Len(input) : input[i].frame = f
  \/ \E c \in Callers : f \in accepted[c]

\* No answer is about to a request that is not yet written.
Fresh ==
  /\ \A f \in Frames : About(f) => f.exchange <= last
  /\ \A c \in Callers : phase[c] \in {"locking", "writing"} =>
       \A f \in Frames : About(f) => f.exchange # exchange[c]

\* The bytes of an answer lie in the buffer side by side and in order, and come there only once.
Contiguous ==
  /\ \A i \in 1..Len(input) :
       input[i].at \in 1..Length(input[i].frame) /\ input[i].frame \notin pending
  /\ \A i, j \in 1..Len(input) :
       input[i].frame = input[j].frame => input[i].at + j = input[j].at + i

Used == Fresh /\ Contiguous /\ AnswerIsUsedUp

\* What the types say of the buffer, before a step and after it.
BufferTyped ==
  /\ input \in Seq([frame : Frames, at : Nat]) /\ Len(input) \in Nat
  /\ \A i \in 1..Len(input) : input[i].frame \in Frames /\ input[i].at \in Nat

LEMMA BufferIsTyped == TypeInv => BufferTyped
<1> SUFFICES ASSUME TypeInv PROVE BufferTyped
  OBVIOUS
<1>1. input \in Seq([frame : Frames, at : Nat]) BY DEF TypeInv, TypeOK
<1>2. \A i \in 1..Len(input) : input[i] \in [frame : Frames, at : Nat] BY <1>1, ElementOfSeq
<1> QED BY <1>1, <1>2, LenProperties DEF BufferTyped

LEMMA BufferStaysTyped == TypeInv' => BufferTyped'
BY BufferIsTyped, PTL

\* The elements of the end of a sequence.
LEMMA EndOfSequence ==
  ASSUME NEW S, NEW s \in Seq(S), NEW k \in Nat
  PROVE  \A i \in 1..Len(SubSeq(s, k + 1, Len(s))) :
           i + k \in 1..Len(s) /\ SubSeq(s, k + 1, Len(s))[i] = s[i + k]
OBVIOUS

\* The buffer after some bytes were read is its end.
LEMMA RestOfInput ==
  ASSUME TypeInv, NEW taken \in Nat, input' = SubSeq(input, taken + 1, Len(input))
  PROVE  \A i \in 1..Len(input') : i + taken \in 1..Len(input) /\ input'[i] = input[i + taken]
<1>1. input \in Seq([frame : Frames, at : Nat]) BY DEF TypeInv, TypeOK
<1> QED BY <1>1, EndOfSequence

\* An exchange that returns nothing, or the whole of the answer the buffer begins with, uses it up.
LEMMA ReturnUses ==
  ASSUME TypeInv, Used, NEW c \in Callers, NEW outcome, NEW taken \in Nat, Return(c, outcome, taken),
         \/ outcome = {}
         \/ \E f \in Frames : outcome = {f} /\ Begins(f) /\ taken = Length(f)
  PROVE  Used'
<1>1. /\ input' = SubSeq(input, taken + 1, Len(input)) /\ pending' = pending
      /\ exchange' = exchange /\ last' = last
      /\ phase'[c] = "idle" /\ \A d \in Callers : d # c => phase'[d] = phase[d]
      /\ accepted'[c] = outcome /\ \A d \in Callers : d # c => accepted'[d] = accepted[d]
  BY DEF Return, TypeInv, TypeOK
<1>2. /\ Len(input) \in Nat /\ Len(input') \in Nat
      /\ \A i \in 1..Len(input) : input[i].frame \in Frames /\ input[i].at \in Nat
  <2>1. outcome \in SUBSET Frames OBVIOUS
  <2>2. TypeInv' BY <2>1, ReturnIsTyped
  <2> QED BY <2>2, BufferIsTyped, BufferStaysTyped DEF BufferTyped
<1>3. \A i \in 1..Len(input') : i + taken \in 1..Len(input) /\ input'[i] = input[i + taken]
  BY <1>1, RestOfInput
<1>4. ASSUME NEW f \in outcome
      PROVE  /\ f \in Frames /\ input # <<>> /\ input[1] = [frame |-> f, at |-> 1]
             /\ 1 \in 1..Len(input) /\ input[1].frame = f /\ input[1].at = 1 /\ taken = Length(f)
  <2>1. f \in Frames /\ Begins(f) /\ taken = Length(f) BY <1>4
  <2>2. input # <<>> /\ input[1] = [frame |-> f, at |-> 1] BY <2>1 DEF Begins
  <2>3. input[1].frame = f /\ input[1].at = 1 BY <2>2
  <2>4. Len(input) # 0 BY <2>2, EmptySeq DEF TypeInv, TypeOK
  <2> QED BY <1>2, <2>1, <2>2, <2>3, <2>4
<1>5. ASSUME NEW f \in Frames, About(f)' PROVE About(f)
  <2>1. CASE f \in outcome BY <1>4, <2>1 DEF About
  <2>2. CASE f \notin outcome
    <3>1. CASE f \in pending' BY <1>1, <3>1 DEF About
    <3>2. CASE \E i \in 1..Len(input') : input'[i].frame = f BY <1>3, <3>2 DEF About
    <3>3. CASE \E d \in Callers : f \in accepted'[d] BY <1>1, <2>2, <3>3 DEF About
    <3> QED BY <1>5, <3>1, <3>2, <3>3 DEF About
  <2> QED BY <2>1, <2>2
<1>6. Fresh' BY <1>1, <1>5 DEF Used, Fresh
<1>7. Contiguous'
  <2>1. \A i \in 1..Len(input') : /\ input'[i].at \in 1..Length(input'[i].frame)
                                  /\ input'[i].frame \notin pending'
    BY <1>1, <1>3 DEF Used, Contiguous
  <2>2. ASSUME NEW i \in 1..Len(input'), NEW j \in 1..Len(input'), input'[i].frame = input'[j].frame
        PROVE  input'[i].at + j = input'[j].at + i
    <3>1. input[i + taken].at + (j + taken) = input[j + taken].at + (i + taken)
      BY <1>3, <2>2 DEF Used, Contiguous
    <3>2. input[i + taken].at \in Nat /\ input[j + taken].at \in Nat BY <1>2, <1>3
    <3>3. input'[i].at = input[i + taken].at /\ input'[j].at = input[j + taken].at BY <1>3
    <3>4. i \in Nat /\ j \in Nat BY <1>2
    <3>5. \A a \in Nat, b \in Nat : a + (j + taken) = b + (i + taken) => a + j = b + i BY <3>4
    <3>6. input[i + taken].at + j = input[j + taken].at + i BY <3>1, <3>2, <3>5, Zenon
    <3> QED BY <3>3, <3>6, Zenon
  <2> QED BY <2>1, <2>2 DEF Contiguous
<1>8. ASSUME NEW d \in Callers, NEW f \in accepted'[d]
      PROVE  /\ f \notin pending' /\ \A i \in 1..Len(input') : input'[i].frame # f
             /\ \A e \in Callers \ {d} : f \notin accepted'[e]
  <2>1. CASE d # c
    <3>1. f \in accepted[d] BY <1>1, <1>8, <2>1
    <3>2. f \notin pending /\ \A i \in 1..Len(input) : input[i].frame # f
      BY <3>1 DEF Used, AnswerIsUsedUp
    <3>3. f \notin outcome BY <1>4, <3>2
    <3>4. \A e \in Callers \ {d} : f \notin accepted'[e]
      BY <1>1, <3>1, <3>3 DEF Used, AnswerIsUsedUp
    <3> QED BY <1>1, <1>3, <3>2, <3>4
  <2>2. CASE d = c
    <3>1. f \in outcome BY <1>1, <1>8, <2>2
    <3>2. f \in Frames /\ 1 \in 1..Len(input) /\ input[1].frame = f /\ input[1].at = 1 /\ taken = Length(f)
      BY <1>4, <3>1
    <3>3. f \notin pending BY <3>2 DEF Used, Contiguous
    <3>4. ASSUME NEW i \in 1..Len(input'), input'[i].frame = f PROVE FALSE
      <4>1. i + taken \in 1..Len(input) /\ input[i + taken].frame = f BY <1>3, <3>4
      <4>2. input[i + taken].at + 1 = 1 + (i + taken)
        <5>1. input[i + taken].at + 1 = input[1].at + (i + taken)
          BY <3>2, <4>1, Zenon DEF Used, Contiguous
        <5> QED BY <3>2, <5>1, Zenon
      <4>3. input[i + taken].at \in 1..taken BY <3>2, <4>1 DEF Used, Contiguous
      <4> QED BY <1>2, <3>2, <4>1, <4>2, <4>3, LengthIsNat
    <3>5. \A e \in Callers : f \notin accepted[e] BY <3>2 DEF Used, AnswerIsUsedUp
    <3> QED BY <1>1, <2>2, <3>3, <3>4, <3>5
  <2> QED BY <2>1, <2>2
<1>9. AnswerIsUsedUp' BY <1>8 DEF AnswerIsUsedUp
<1> QED BY <1>6, <1>7, <1>9 DEF Used

\* The line's next answer is put at the end of the buffer.
LEMMA DeliverUses ==
  ASSUME TypeInv, Used, NEW f \in pending, Deliver(f)
  PROVE  Used'
<1> DEFINE n == Len(input)
<1>1. /\ f \in Frames /\ pending' = pending \ {f} /\ input' = input \o Bytes(f)
      /\ UNCHANGED <<phase, exchange, accepted, last>>
  BY DEF Deliver, TypeInv, TypeOK
<1>2. /\ n \in Nat /\ Length(f) \in Nat /\ Length(f) >= 5
      /\ input \in Seq([frame : Frames, at : Nat]) /\ Bytes(f) \in Seq([frame : Frames, at : Nat])
      /\ \A i \in 1..n : input[i].frame \in Frames /\ input[i].at \in Nat
  BY <1>1, LengthIsNat, BytesAreASequence, BufferIsTyped DEF BufferTyped
<1>3. /\ Len(input') = n + Length(f)
      /\ \A i \in 1..n + Length(f) : input'[i] = IF i <= n THEN input[i] ELSE Bytes(f)[i - n]
  <2>1. Len(Bytes(f)) = Length(f) BY <1>1, BytesAreASequence
  <2> QED BY <1>1, <1>2, <2>1, ConcatProperties
<1>4. \A i \in 1..Len(input') : input'[i].at \in Nat
  <2>1. TypeInv' BY TypeInductive DEF Next
  <2> QED BY <2>1, BufferStaysTyped DEF BufferTyped
<1>5. \A i \in 1..Len(input') : \/ i \in 1..n /\ input'[i] = input[i]
                                \/ /\ i \in (n + 1)..(n + Length(f)) /\ input'[i].frame = f
                                   /\ input'[i].at + n = i
  <2>1. TAKE i \in 1..Len(input')
  <2>2. CASE i <= n BY <1>2, <1>3, <2>2
  <2>3. CASE ~(i <= n)
    <3>1. i - n \in 1..Length(f) /\ i \in (n + 1)..(n + Length(f)) BY <1>2, <1>3, <2>3
    <3>2. input'[i] = Bytes(f)[i - n]
      BY <1>2, <1>3, <2>3, <3>1
    <3>3. input'[i].frame = f /\ input'[i].at = i - n BY <3>1, <3>2 DEF Bytes
    <3> QED BY <1>2, <3>1, <3>3
  <2> QED BY <2>2, <2>3
<1> HIDE DEF n
<1>6. \A i \in 1..n : input[i].frame # f BY DEF Used, Contiguous, n
<1>7. \A g : About(g)' => About(g)
  BY <1>1, <1>5 DEF About, n
<1>8. Fresh' BY <1>1, <1>7 DEF Used, Fresh
<1>9. Contiguous'
  <2>1. ASSUME NEW i \in 1..Len(input')
        PROVE  input'[i].at \in 1..Length(input'[i].frame) /\ input'[i].frame \notin pending'
    <3>1. CASE i \in 1..n /\ input'[i] = input[i] BY <1>1, <3>1 DEF Used, Contiguous, n
    <3>2. CASE i \in (n + 1)..(n + Length(f)) /\ input'[i].frame = f /\ input'[i].at + n = i
      <4>1. input'[i].at \in Nat BY <1>4
      <4>2. input'[i].at \in 1..Length(f) BY <1>2, <3>2, <4>1
      <4>3. f \notin pending' BY <1>1
      <4> QED BY <3>2, <4>2, <4>3, Zenon
    <3> QED BY <1>5, <3>1, <3>2
  <2>2. ASSUME NEW i \in 1..Len(input'), NEW j \in 1..Len(input'), input'[i].frame = input'[j].frame
        PROVE  input'[i].at + j = input'[j].at + i
    <3>1. CASE i \in 1..n /\ j \in 1..n
      <4>1. input'[i] = input[i] /\ input'[j] = input[j] BY <1>2, <1>3, <3>1
      <4> QED BY <2>2, <3>1, <4>1 DEF Used, Contiguous, n
    <3>2. CASE i \notin 1..n /\ j \notin 1..n
      <4>1. input'[i].at + n = i /\ input'[j].at + n = j BY <1>5, <3>2
      <4>2. input'[i].at \in Nat /\ input'[j].at \in Nat BY <1>4
      <4>3. \A a \in Nat, b \in Nat : a + n = i /\ b + n = j => a + j = b + i BY <1>2
      <4> QED BY <4>1, <4>2, <4>3
    <3>3. CASE i \in 1..n /\ j \notin 1..n
      <4>1. input'[j].frame = f BY <1>5, <3>3
      <4>2. input'[i].frame = input[i].frame BY <1>2, <1>3, <3>3
      <4> QED BY <1>6, <2>2, <3>3, <4>1, <4>2
    <3>4. CASE i \notin 1..n /\ j \in 1..n
      <4>1. input'[i].frame = f BY <1>5, <3>4
      <4>2. input'[j].frame = input[j].frame BY <1>2, <1>3, <3>4
      <4> QED BY <1>6, <2>2, <3>4, <4>1, <4>2
    <3> QED BY <3>1, <3>2, <3>3, <3>4
  <2> QED BY <2>1, <2>2 DEF Contiguous
<1>10. AnswerIsUsedUp' BY <1>1, <1>5 DEF Used, AnswerIsUsedUp, n
<1> QED BY <1>8, <1>9, <1>10 DEF Used

LEMMA UsedInductive == TypeInv /\ Numbered /\ Used /\ [Next]_vars => Used'
<1> SUFFICES ASSUME TypeInv, Numbered, Used, [Next]_vars PROVE Used'
  OBVIOUS
<1>1. ASSUME UNCHANGED <<input, exchange, last>>, pending' \subseteq pending,
             \A d \in Callers : accepted'[d] = accepted[d],
             \A d \in Callers : phase'[d] \in {"locking", "writing"} => phase[d] \in {"locking", "writing"}
      PROVE  Used'
  <2>1. \A f : About(f)' => About(f) BY <1>1 DEF About
  <2> QED BY <1>1, <2>1 DEF Used, Fresh, Contiguous, AnswerIsUsedUp
<1>2. ASSUME NEW c \in Callers, NEW r \in Requests, Call(c, r) PROVE Used'
  <2>1. /\ exchange'[c] = last + 1 /\ last' = last + 1 /\ accepted'[c] = {}
        /\ UNCHANGED <<pending, input>> /\ last \in Nat
        /\ \A d \in Callers : d # c => /\ phase'[d] = phase[d] /\ exchange'[d] = exchange[d]
                                       /\ accepted'[d] = accepted[d]
    BY <1>2 DEF Call, TypeInv, TypeOK
  <2>2. \A f \in Frames : About(f)' => About(f) BY <2>1 DEF About
  <2>3. \A f \in Frames : f.exchange \in Nat BY BoundAssumption DEF Frames
  <2>4. \A f \in Frames : About(f)' => f.exchange <= last' /\ f.exchange # last + 1
    BY <2>1, <2>2, <2>3 DEF Used, Fresh
  <2>5. Fresh' BY <2>1, <2>2, <2>4 DEF Used, Fresh
  <2>6. Contiguous' BY <2>1 DEF Used, Contiguous
  <2>7. AnswerIsUsedUp' BY <2>1 DEF Used, AnswerIsUsedUp
  <2> QED BY <2>5, <2>6, <2>7 DEF Used
<1>3. ASSUME NEW c \in Callers, Lock(c) PROVE Used'
  BY <1>1, <1>3 DEF Lock, TypeInv, TypeOK
<1>4. ASSUME NEW c \in Callers, Write(c) PROVE Used'
  <2>1. PICK e \in BOOLEAN, d \in BOOLEAN :
          pending' = pending \cup {[exchange |-> exchange[c], request |-> request[c],
                                    exception |-> e, damaged |-> d]}
    BY <1>4 DEF Write
  <2> DEFINE g == [exchange |-> exchange[c], request |-> request[c], exception |-> e, damaged |-> d]
  <2>2. g \in Frames /\ g.exchange = exchange[c] /\ exchange[c] # 0
    BY <1>4, BoundAssumption DEF Write, TypeInv, TypeOK, Frames
  <2>3. pending' = pending \cup {g} BY <2>1
  <2> HIDE DEF g
  <2>4. /\ phase'[c] = "awaiting" /\ \A d_1 \in Callers : d_1 # c => phase'[d_1] = phase[d_1]
        /\ UNCHANGED <<exchange, accepted, last, input>>
    BY <1>4 DEF Write, TypeInv, TypeOK
  <2>5. \A f \in Frames : About(f)' => About(f) \/ f = g BY <2>3, <2>4 DEF About
  <2>6. ~About(g) BY <1>4, <2>2 DEF Write, Used, Fresh
  <2>7. g.exchange <= last BY <2>2 DEF Numbered
  <2>8. \A b \in Callers : b # c => g.exchange # exchange[b] BY <2>2 DEF Numbered
  <2>9. Fresh' BY <2>4, <2>5, <2>7, <2>8 DEF Used, Fresh
  <2>10. Contiguous' BY <2>3, <2>4, <2>6 DEF Used, Contiguous, About
  <2>11. AnswerIsUsedUp' BY <2>3, <2>4, <2>6 DEF Used, AnswerIsUsedUp, About
  <2> QED BY <2>9, <2>10, <2>11 DEF Used
<1>5. ASSUME NEW c \in Callers, Receive(c) PROVE Used'
  <2>1. PICK f \in {input[i].frame : i \in 1..Len(input)} :
          Begins(f) /\ Return(c, IF Fits(f, request[c]) THEN {f} ELSE {}, Length(f))
    BY <1>5 DEF Receive
  <2>2. f \in Frames /\ Length(f) \in Nat BY <2>1, BufferHoldsFrames, LengthIsNat DEF TypeInv
  <2>3. CASE Fits(f, request[c])
    <3>1. Return(c, {f}, Length(f)) BY <2>1, <2>3
    <3> QED BY <2>1, <2>2, <3>1, ReturnUses
  <2>4. CASE ~Fits(f, request[c])
    <3>1. Return(c, {}, Length(f)) BY <2>1, <2>4
    <3> QED BY <2>2, <3>1, ReturnUses
  <2> QED BY <2>3, <2>4
<1>6. ASSUME NEW c \in Callers, Exchange(c), ~Write(c), ~Receive(c) PROVE Used'
  <2>1. PICK taken \in Nat : Return(c, {}, taken)
    <3>1. Len(input) \in Nat BY LenProperties DEF TypeInv, TypeOK
    <3> QED BY <1>6, <3>1 DEF Exchange, WriteFails, RejectPrefix, ReceiveException, ReceiveGarbage, Timeout
  <2> QED BY <2>1, ReturnUses
<1>7. ASSUME NEW f \in pending, Deliver(f) PROVE Used'
  BY <1>7, DeliverUses
<1>8. ASSUME NEW f \in pending, Lose(f) PROVE Used'
  BY <1>1, <1>8 DEF Lose
<1>9. CASE UNCHANGED vars BY <1>1, <1>9 DEF vars
<1> QED BY <1>2, <1>3, <1>4, <1>5, <1>6, <1>7, <1>8, <1>9 DEF Next

\* Whatever is late, lost or damaged, and however long a line is out of step, no answer is given twice
\* and none that is given leaves a byte behind.
THEOREM AnswersAreUsedUp == Spec => []AnswerIsUsedUp
<1>1. Init => Used
  <2> SUFFICES ASSUME Init PROVE Used
    OBVIOUS
  <2>1. Len(input) = 0 /\ pending = {} /\ \A c \in Callers : accepted[c] = {} /\ phase[c] = "idle"
    BY EmptySeq DEF Init
  <2>2. \A f : ~About(f) BY <2>1 DEF About
  <2> QED BY <2>1, <2>2 DEF Used, Fresh, Contiguous, AnswerIsUsedUp
<1>2. Used => AnswerIsUsedUp BY DEF Used
<1> QED BY <1>1, <1>2, UsedInductive, NumbersHold, TypeInvHolds, PTL DEF Spec

-----------------------------------------------------------------------------
(* Facts for a module that uses the bus *)

\* The answer to c's last request has reached the port, and is no exception.
Carried(c) ==
  \/ phase[c] = "awaiting" /\ input # <<>> /\ ~input[1].frame.exception
  \/ phase[c] = "idle" /\ accepted[c] # {}

\* On a line in step an answer under way is that of a caller who waits for it.
LEMMA SomebodyAsked ==
  ASSUME InStep, NEW f \in pending
  PROVE  /\ input = <<>> /\ pending = {f}
         /\ \E c \in Callers : phase[c] = "awaiting" /\ Answers(f, c)
<1>1. PICK c \in Callers : phase[c] = "awaiting" BY DEF InStep
<1>2. PICK g \in Frames : /\ Answers(g, c)
                          /\ \/ input = <<>> /\ pending \in {{}, {g}}
                             \/ input = Bytes(g) /\ pending = {}
  BY <1>1 DEF InStep
<1> QED BY <1>1, <1>2

\* No transaction carries an answer...
LEMMA CarriedIsKept ==
  ASSUME TypeInv, InStep, NEW d \in Callers, Lock(d) \/ Exchange(d), NEW c \in Callers, Carried(c)'
  PROVE  Carried(c)
<1> USE DEF TypeInv, TypeOK
<1>1. CASE Lock(d) BY <1>1 DEF Lock, Carried
<1>2. CASE Exchange(d) /\ d # c
  <2>1. phase'[c] = phase[c] /\ accepted'[c] = accepted[c] BY <1>2, ExchangeSteps
  <2>2. phase[c] # "awaiting"
    BY <1>2, ExchangeSteps DEF InStep, OneAtATime, Inside
  <2> QED BY <2>1, <2>2 DEF Carried
<1>3. CASE d = c /\ Write(c)
  <2>1. \A e \in Callers : phase[e] # "awaiting"
    BY <1>3 DEF Write, InStep, OneAtATime, Inside
  <2>2. input' = <<>> /\ phase'[c] = "awaiting" BY <1>3, <2>1 DEF Write, InStep
  <2> QED BY <2>2 DEF Carried
<1>4. CASE d = c /\ Exchange(c) /\ ~Write(c)
  <2>1. phase'[c] = "idle"
    BY <1>4 DEF Exchange, WriteFails, RejectPrefix, ReceiveException, Receive, ReceiveGarbage,
       Timeout, Return
  <2>2. accepted'[c] # {} BY <2>1 DEF Carried
  <2>3. PICK f \in Frames : Begins(f) /\ ~f.exception
    BY <1>4, <2>1, <2>2, ExchangeSteps
  <2>4. input # <<>> /\ input[1].frame = f BY <2>3 DEF Begins
  <2>5. phase[c] = "awaiting"
    BY <1>4, <2>2 DEF Exchange, WriteFails, RejectPrefix, ReceiveException, Receive,
       ReceiveGarbage, Timeout, Return
  <2> QED BY <2>3, <2>4, <2>5 DEF Carried
<1> QED BY <1>1, <1>2, <1>3, <1>4

\* ...its delivery does.
LEMMA CarriedByDelivery ==
  ASSUME TypeInv, InStep, NEW f \in pending, Deliver(f), NEW c \in Callers, Carried(c)'
  PROVE  Carried(c) \/ (phase[c] = "awaiting" /\ Answers(f, c) /\ ~f.exception)
<1>1. UNCHANGED <<phase, request, exchange, accepted>> BY DEF Deliver
<1>2. PICK d \in Callers : phase[d] = "awaiting" /\ Answers(f, d) BY SomebodyAsked
<1>3. f \in Frames BY DEF TypeInv, TypeOK
<1>4. input' = Bytes(f)
  BY <1>3, SomebodyAsked, BytesAreASequence, ConcatEmptySeq DEF Deliver
<1>5. input'[1].frame = f
  <2>1. input'[1] = [frame |-> f, at |-> 1] BY <1>3, <1>4, BytesAreASequence, Zenon
  <2> QED BY <2>1
<1>6. CASE phase[c] = "awaiting"
  <2>1. c = d BY <1>2, <1>6 DEF InStep, OneAtATime, Inside
  <2>2. ~f.exception BY <1>1, <1>5, <1>6 DEF Carried
  <2> QED BY <1>2, <1>6, <2>1, <2>2
<1>7. CASE phase[c] # "awaiting" BY <1>1, <1>7 DEF Carried
<1> QED BY <1>6, <1>7

-----------------------------------------------------------------------------
(* The abstract bus *)

\* The line is in step and everything has its type.
Steady == TypeInv /\ InStep

\* A call is a question that nobody has asked before.
LEMMA CallAsks ==
  ASSUME Steady, NEW c \in Callers, NEW r \in Requests, Call(c, r)
  PROVE  Atomic!Ask(c, r)
<1> USE DEF Steady, TypeInv, TypeOK
<1>1. /\ phase[c] = "idle" /\ phase'[c] = "locking"
      /\ \A d \in Callers : d # c => /\ phase'[d] = phase[d] /\ exchange'[d] = exchange[d]
                                     /\ request'[d] = request[d] /\ accepted'[d] = accepted[d]
  BY DEF Call
<1>2. /\ exchange'[c] = last + 1 /\ request'[c] = r /\ accepted'[c] = {}
      /\ last' = last + 1 /\ pending' = pending
  BY DEF Call
<1>3. Waiting[c] = {} BY <1>1 DEF Waiting
<1>4. Waiting' = [Waiting EXCEPT ![c] = {[exchange |-> last + 1, request |-> r]}]
  BY <1>1, <1>2 DEF Waiting, Question
<1>5. GivenAnswers' = [GivenAnswers EXCEPT ![c] = {}]
  BY <1>1, <1>2 DEF GivenAnswers
<1>6. OffTheLine' = OffTheLine BY <1>1, <1>2 DEF OffTheLine
<1> QED BY <1>2, <1>3, <1>4, <1>5, <1>6 DEF Atomic!Ask

\* With the mutex held by a caller that has not written, nothing is off the line.
LEMMA NobodyHandled ==
  ASSUME InStep, NEW c \in Callers, phase[c] = "writing"
  PROVE  OffTheLine = {}
BY DEF InStep, OneAtATime, Inside, OffTheLine

\* An exchange that ends returns, with its own answer only if its meter was reached.
LEMMA ExchangeReturns ==
  ASSUME Steady, ~Late, NEW c \in Callers, Exchange(c), ~Write(c)
  PROVE  Atomic!Return(c)
<1> USE DEF Steady
<1>1. /\ phase[c] \in {"writing", "awaiting"} /\ phase' = [phase EXCEPT ![c] = "idle"]
      /\ UNCHANGED <<request, exchange, last>>
  BY DEF Exchange, WriteFails, RejectPrefix, ReceiveException, Receive, ReceiveGarbage, Timeout, Return
<1>2. phase'[c] = "idle" /\ \A d \in Callers : d # c => phase'[d] = phase[d]
  BY <1>1 DEF TypeInv, TypeOK
<1>3. Waiting[c] = {Question(c)} BY <1>1 DEF Waiting
<1>4. Waiting' = [Waiting EXCEPT ![c] = {}]
  BY <1>1, <1>2 DEF Waiting, Question
<1>5. \A d \in Callers : d # c => d \notin OffTheLine /\ d \notin OffTheLine'
  BY <1>1, <1>2 DEF OffTheLine, InStep, OneAtATime, Inside
<1>6. OffTheLine' = OffTheLine \ {c}
  BY <1>2, <1>5 DEF OffTheLine
<1>7. \/ GivenAnswers' = [GivenAnswers EXCEPT ![c] = {}]
      \/ c \in OffTheLine /\ GivenAnswers' = [GivenAnswers EXCEPT ![c] = Waiting[c]]
  <2>1. CASE accepted' = [accepted EXCEPT ![c] = {}]
    BY <2>1 DEF GivenAnswers, TypeInv, TypeOK
  <2>2. CASE accepted' # [accepted EXCEPT ![c] = {}]
    <3>1. phase[c] = "awaiting"
      BY <2>2 DEF Exchange, WriteFails, RejectPrefix, ReceiveException, Receive, ReceiveGarbage,
         Timeout, Return
    <3>2. PICK f \in Frames : /\ f.exchange = exchange[c] /\ f.request = request[c]
                              /\ accepted' = [accepted EXCEPT ![c] = {f}]
      BY <2>2, <3>1, CleanReturn DEF Exchange, WriteFails
    <3>3. {[exchange |-> g.exchange, request |-> g.request] : g \in {f}} = {Question(c)}
      BY <3>2 DEF Question
    <3>4. GivenAnswers' = [GivenAnswers EXCEPT ![c] = {Question(c)}]
      BY <3>2, <3>3 DEF GivenAnswers, TypeInv, TypeOK
    <3>5. input # <<>>
      BY <2>2, <3>1 DEF Exchange, WriteFails, RejectPrefix, ReceiveException, Receive,
         ReceiveGarbage, Timeout, Return, Begins
    <3>6. pending = {} BY <3>1, <3>5 DEF InStep
    <3>7. c \in OffTheLine BY <3>1, <3>6 DEF OffTheLine
    <3> QED BY <1>3, <3>4, <3>7
  <2> QED BY <2>1, <2>2
<1> QED BY <1>1, <1>3, <1>4, <1>6, <1>7 DEF Atomic!Return

\* A request that is written is not yet off the line.
LEMMA WriteIsSilent ==
  ASSUME Steady, ~Noise, NEW c \in Callers, Write(c)
  PROVE  UNCHANGED Atomic!vars
<1> USE DEF Steady
<1>1. /\ phase[c] = "writing" /\ phase' = [phase EXCEPT ![c] = "awaiting"]
      /\ UNCHANGED <<request, exchange, accepted, last>>
  BY DEF Write
<1>2. phase'[c] = "awaiting" /\ \A d \in Callers : d # c => phase'[d] = phase[d]
  BY <1>1 DEF TypeInv, TypeOK
<1>3. PICK f \in pending' : f.exchange = exchange[c]
  <2>1. PICK e, d : pending' = pending \cup {[exchange |-> exchange[c], request |-> request[c],
                                              exception |-> e, damaged |-> d]}
    BY DEF Write
  <2> DEFINE f == [exchange |-> exchange[c], request |-> request[c], exception |-> e, damaged |-> d]
  <2>2. f \in pending' /\ f.exchange = exchange[c] BY <2>1
  <2> HIDE DEF f
  <2> QED BY <2>2
<1>4. Waiting' = Waiting BY <1>1, <1>2 DEF Waiting, Question
<1>5. GivenAnswers' = GivenAnswers BY <1>1 DEF GivenAnswers
<1>6. OffTheLine = {} BY <1>1, NobodyHandled
<1>7. OffTheLine' = {}
  BY <1>1, <1>2, <1>3 DEF OffTheLine, InStep, OneAtATime, Inside
<1> QED BY <1>1, <1>4, <1>5, <1>6, <1>7 DEF Atomic!vars

\* An answer under way is delivered, or lost: its request is dealt with.
LEMMA LineHandles ==
  ASSUME Steady, NEW f \in pending, Deliver(f) \/ Lose(f)
  PROVE  \E c \in Callers : Atomic!Handle(c)
<1> USE DEF Steady
<1>1. PICK c \in Callers : phase[c] = "awaiting" /\ Answers(f, c) BY SomebodyAsked
<1>2. pending = {f} /\ f.exchange = exchange[c] BY <1>1, SomebodyAsked DEF Answers
<1>3. pending' = {} /\ UNCHANGED <<phase, request, exchange, accepted, last>>
  BY <1>2 DEF Deliver, Lose
<1>4. \A d \in Callers : phase[d] = "awaiting" => d = c
  BY <1>1 DEF InStep, OneAtATime, Inside
<1>5. OffTheLine = {} /\ OffTheLine' = {c} BY <1>1, <1>2, <1>3, <1>4 DEF OffTheLine
<1>6. Waiting[c] # {} BY <1>1 DEF Waiting
<1>7. UNCHANGED <<Waiting, GivenAnswers>> BY <1>3 DEF Waiting, Question, GivenAnswers
<1> QED BY <1>3, <1>5, <1>6, <1>7 DEF Atomic!Handle

LEMMA AtomicStep ==
  ASSUME Steady, ~Late, ~Noise, [Next]_vars
  PROVE  [Atomic!Next]_(Atomic!vars)
<1>1. ASSUME NEW c \in Callers, NEW r \in Requests, Call(c, r) PROVE Atomic!Next
  BY <1>1, CallAsks DEF Atomic!Next
<1>2. ASSUME NEW c \in Callers, Lock(c) PROVE UNCHANGED Atomic!vars
  <2>1. /\ phase[c] = "locking" /\ phase' = [phase EXCEPT ![c] = "writing"]
        /\ UNCHANGED <<request, exchange, accepted, last, pending>>
    BY <1>2 DEF Lock
  <2>2. phase'[c] = "writing" /\ \A d \in Callers : d # c => phase'[d] = phase[d]
    BY <2>1 DEF Steady, TypeInv, TypeOK
  <2>3. Waiting' = Waiting BY <2>1, <2>2 DEF Waiting, Question
  <2>4. OffTheLine' = OffTheLine BY <2>1, <2>2 DEF OffTheLine
  <2>5. GivenAnswers' = GivenAnswers BY <2>1 DEF GivenAnswers
  <2> QED BY <2>1, <2>3, <2>4, <2>5 DEF Atomic!vars
<1>3. ASSUME NEW c \in Callers, Exchange(c) PROVE Atomic!Next \/ UNCHANGED Atomic!vars
  BY <1>3, WriteIsSilent, ExchangeReturns DEF Atomic!Next
<1>4. ASSUME NEW f \in pending, Deliver(f) \/ Lose(f) PROVE Atomic!Next
  BY <1>4, LineHandles DEF Atomic!Next
<1>5. CASE UNCHANGED vars
  BY <1>5 DEF vars, Atomic!vars, Waiting, Question, OffTheLine, GivenAnswers
<1> QED BY <1>1, <1>2, <1>3, <1>4, <1>5 DEF Next

\* While no answer is late or damaged the bus is atomic for those who use it: no request takes effect
\* during another's exchange or after its own has failed, none twice, and what a call returns answers
\* the very request it made (rtu.go:85-190).
THEOREM Implementation ==
  ASSUME ~Late, ~Noise
  PROVE  Spec => ImplementsAtomicBus
<1>1. Init => Atomic!Init
  <2> SUFFICES ASSUME Init PROVE Atomic!Init
    OBVIOUS
  <2>1. Waiting = [c \in Callers |-> {}] BY DEF Init, Waiting
  <2>2. OffTheLine = {} BY DEF Init, OffTheLine
  <2>3. GivenAnswers = [c \in Callers |-> {}] BY DEF Init, GivenAnswers
  <2> QED BY <2>1, <2>2, <2>3 DEF Init, Atomic!Init
<1>2. TypeInv /\ InStep /\ [Next]_vars => [Atomic!Next]_(Atomic!vars)
  BY AtomicStep DEF Steady
<1> QED BY <1>1, <1>2, TypeInvHolds, StaysInStep, PTL DEF Spec, ImplementsAtomicBus, Atomic!Spec
=============================================================================
