------------------------------- MODULE Framing -------------------------------
(***************************************************************************)
(* How a report is cut into frames and which frames a resend asks for:     *)
(* buildFrames and validateLossIndexes (common/mqttclient/client.go) and   *)
(* EncodeMQTTFrame (common/protocol/mqtt_frame.go).  A payload is known by *)
(* its length; a frame carries the bytes from .. to of it.                 *)
(***************************************************************************)
EXTENDS Integers, Sequences, SequencesExt

CONSTANT Limit  \* the largest uint16: 65535 in the code

ASSUME LimitAssumption == Limit \in Nat \ {0}

Refused == <<>>

uint16(x) == x % (Limit + 1)

-----------------------------------------------------------------------------
(* buildFrames *)

\* Mutant: a payload that fills its frames exactly gets one more.
FrameTotalPlusOne(size, chunk) == size \div chunk + 1

\* How many frames a payload takes, rounded up.
FrameTotal(size, chunk) == (size + chunk - 1) \div chunk

FrameType(index, total) ==
  CASE total = 1 -> "single"
    [] total > 1 /\ index = 0 -> "first"
    [] total > 1 /\ index = total - 1 -> "last"
    [] OTHER -> "middle"

End(index, size, chunk) ==
  IF (index + 1) * chunk > size THEN size ELSE (index + 1) * chunk

Frame(index, size, chunk) ==
  [type |-> FrameType(index, FrameTotal(size, chunk)),
   index |-> uint16(index), total |-> uint16(FrameTotal(size, chunk)),
   from |-> index * chunk + 1, to |-> End(index, size, chunk)]

\* What EncodeMQTTFrame insists on.
Encodable(f) ==
  /\ f.total # 0 /\ f.index < f.total
  /\ f.to >= f.from
  /\ f.to - f.from + 1 <= Limit

\* Mutant: the number of frames is not held against the limit.
buildManyFrames(size, chunk) ==
  IF chunk > 0 /\ FrameTotal(size, chunk) > 0
  THEN [k \in 1..FrameTotal(size, chunk) |-> Frame(k - 1, size, chunk)]
  ELSE Refused

buildFrames(size, chunk) ==
  IF /\ chunk > 0
     /\ FrameTotal(size, chunk) \in 1..Limit
     /\ \A i \in 0..FrameTotal(size, chunk) - 1 : Encodable(Frame(i, size, chunk))
  THEN [k \in 1..FrameTotal(size, chunk) |-> Frame(k - 1, size, chunk)]
  ELSE Refused

-----------------------------------------------------------------------------
(* validateLossIndexes *)

\* Mutant: a frame the list names twice is sent twice.
KeepAll(kept, index) == Append(kept, index)

\* An index is kept the first time it comes.
KeepFirst(kept, index) == IF Contains(kept, index) THEN kept ELSE Append(kept, index)

\* What the loop has kept after n entries of the list.
Kept(loss) ==
  LET kept[n \in 0..Len(loss)] == IF n = 0 THEN <<>> ELSE KeepFirst(kept[n - 1], loss[n])
  IN  kept

validateLossIndexes(loss, count) ==
  IF loss # <<>> /\ \A i \in 1..Len(loss) : loss[i] \in 0..count - 1
  THEN Kept(loss)[Len(loss)]
  ELSE Refused

-----------------------------------------------------------------------------
(* What the server needs of them *)

\* The frames put the payload together again: in their order they carry its bytes without a gap or an
\* overlap, each says its place and their number, and their types tell first, last and only.
Rejoin(frames, size) ==
  /\ Len(frames) > 0
  /\ frames[1].from = 1 /\ frames[Len(frames)].to = size
  /\ \A k \in 1..Len(frames) :
       /\ frames[k].index = k - 1 /\ frames[k].total = Len(frames)
       /\ frames[k].to \in frames[k].from..frames[k].from + Limit - 1
       /\ k > 1 => frames[k].from = frames[k - 1].to + 1
       /\ frames[k].type \in {"single", "first"} <=> k = 1
       /\ frames[k].type \in {"single", "last"} <=> k = Len(frames)
=============================================================================
