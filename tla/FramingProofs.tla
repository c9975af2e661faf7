---------------------------- MODULE FramingProofs ----------------------------
(***************************************************************************)
(* What buildFrames makes of a report and validateLossIndexes of a list of *)
(* lost frames, for every payload, chunk size, limit and list.             *)
(***************************************************************************)
EXTENDS Framing, WellFoundedInduction, TLAPS

USE LimitAssumption

\* Division with remainder, as Go's / and % do it on numbers that are not negative.
LEMMA Division ==
  ASSUME NEW a \in Nat, NEW d \in Nat \ {0}
  PROVE  /\ a \div d \in Nat /\ a % d \in 0..d - 1
         /\ a = d * (a \div d) + (a % d)
OBVIOUS

\* All frames but the last are full, and the last is not empty.
LEMMA LastChunk ==
  ASSUME NEW size \in Nat \ {0}, NEW chunk \in Nat \ {0}
  PROVE  /\ FrameTotal(size, chunk) \in Nat \ {0}
         /\ (FrameTotal(size, chunk) - 1) * chunk < size
         /\ size <= FrameTotal(size, chunk) * chunk
<1> DEFINE a == size + chunk - 1
           q == a \div chunk
           r == a % chunk
<1>1. a \in Nat /\ a >= chunk
  OBVIOUS
<1>2. q \in Nat /\ r \in 0..chunk - 1 /\ a = chunk * q + r
  BY <1>1, Division
<1> HIDE DEF q, r
<1>3. q # 0
  BY <1>1, <1>2
<1>4. (q - 1) * chunk = chunk * q - chunk /\ q * chunk = chunk * q
  BY <1>2
<1>5. FrameTotal(size, chunk) = q
  BY DEF FrameTotal, q
<1>6. chunk * q \in Nat
  BY <1>2
<1> QED
  BY <1>2, <1>3, <1>4, <1>5, <1>6

LEMMA Monotonic ==
  ASSUME NEW a \in Nat, NEW b \in Nat, NEW c \in Nat, a <= b
  PROVE  a * c <= b * c
<1>1. b - a \in Nat /\ b * c = a * c + (b - a) * c
  OBVIOUS
<1>2. (b - a) * c \in Nat /\ a * c \in Nat
  BY <1>1
<1> QED
  BY <1>1, <1>2

\* A frame begins where the one before it ended; it is full unless it is the last.
LEMMA FrameBounds ==
  ASSUME NEW size \in Nat \ {0}, NEW chunk \in Nat \ {0}, NEW i \in 0..FrameTotal(size, chunk) - 1
  PROVE  /\ i * chunk \in Nat /\ i * chunk < size
         /\ End(i, size, chunk) \in i * chunk + 1..i * chunk + chunk
         /\ End(i, size, chunk) <= size
         /\ i = FrameTotal(size, chunk) - 1 => End(i, size, chunk) = size
         /\ i # FrameTotal(size, chunk) - 1 => End(i, size, chunk) = (i + 1) * chunk
<1> DEFINE total == FrameTotal(size, chunk)
<1>1. total \in Nat \ {0} /\ (total - 1) * chunk < size /\ size <= total * chunk
  BY LastChunk
<1> HIDE DEF total
<1>2. i \in Nat /\ i <= total - 1
  BY <1>1 DEF total
<1>3. i * chunk \in Nat /\ (i + 1) * chunk = i * chunk + chunk
  BY <1>2
<1>4. i * chunk <= (total - 1) * chunk
  BY <1>1, <1>2, Monotonic
<1>5. (total - 1) * chunk \in Nat
  BY <1>1
<1>6. CASE i = total - 1
  <2>1. (i + 1) * chunk = total * chunk
    BY <1>1, <1>6
  <2>2. End(i, size, chunk) = size
    BY <1>1, <1>3, <2>1 DEF End
  <2> QED
    BY <1>1, <1>3, <1>4, <1>5, <1>6, <2>1, <2>2 DEF total
<1>7. CASE i # total - 1
  <2>1. (i + 1) * chunk <= (total - 1) * chunk
    BY <1>1, <1>2, <1>7, Monotonic
  <2>2. End(i, size, chunk) = (i + 1) * chunk
    BY <1>1, <1>3, <1>5, <2>1 DEF End
  <2> QED
    BY <1>1, <1>3, <1>4, <1>5, <1>7, <2>1, <2>2 DEF total
<1> QED
  BY <1>6, <1>7

\* A report that takes no more frames than a uint16 counts has that many.
LEMMA FramesCounted ==
  ASSUME NEW size \in Nat \ {0}, NEW chunk \in Nat \ {0}, size <= chunk * Limit
  PROVE  FrameTotal(size, chunk) \in 1..Limit
<1> DEFINE total == FrameTotal(size, chunk)
<1>1. total \in Nat \ {0} /\ (total - 1) * chunk < size
  BY LastChunk
<1> HIDE DEF total
<1>2. SUFFICES ASSUME ~(total <= Limit) PROVE FALSE
  BY <1>1 DEF total
<1>3. Limit * chunk <= (total - 1) * chunk
  BY <1>1, <1>2, Monotonic
<1>4. Limit * chunk = chunk * Limit /\ chunk * Limit \in Nat /\ (total - 1) * chunk \in Nat
  BY <1>1
<1> QED
  BY <1>1, <1>3, <1>4

\* A report that takes more is refused.
LEMMA TooManyFrames ==
  ASSUME NEW size \in Nat \ {0}, NEW chunk \in Nat \ {0}, size > chunk * Limit
  PROVE  buildFrames(size, chunk) = Refused
<1> DEFINE total == FrameTotal(size, chunk)
<1>1. total \in Nat \ {0} /\ size <= total * chunk
  BY LastChunk
<1> HIDE DEF total
<1>2. SUFFICES ASSUME total <= Limit PROVE FALSE
  BY <1>1, LimitAssumption DEF buildFrames, total
<1>3. total * chunk <= Limit * chunk
  BY <1>1, <1>2, Monotonic
<1>4. Limit * chunk = chunk * Limit /\ chunk * Limit \in Nat /\ total * chunk \in Nat
  BY <1>1
<1> QED
  BY <1>1, <1>3, <1>4

\* Within the limit, the numbers in a frame's header are not cut.
LEMMA HeaderFits ==
  ASSUME NEW x \in 0..Limit
  PROVE  uint16(x) = x
BY DEF uint16

\* Every frame passes the checks of EncodeMQTTFrame.
LEMMA FramesEncodable ==
  ASSUME NEW size \in Nat \ {0}, NEW chunk \in 1..Limit, FrameTotal(size, chunk) \in 1..Limit,
         NEW i \in 0..FrameTotal(size, chunk) - 1
  PROVE  Encodable(Frame(i, size, chunk))
<1>1. /\ i * chunk \in Nat
      /\ End(i, size, chunk) \in i * chunk + 1..i * chunk + chunk
  BY FrameBounds
<1>2. uint16(i) = i /\ uint16(FrameTotal(size, chunk)) = FrameTotal(size, chunk)
  BY HeaderFits
<1> QED
  BY <1>1, <1>2 DEF Encodable, Frame

\* The type of a frame tells whether it is the first and whether it is the last.
LEMMA TypesTellPlaces ==
  ASSUME NEW total \in Nat \ {0}, NEW i \in 0..total - 1
  PROVE  /\ FrameType(i, total) \in {"single", "first"} <=> i = 0
         /\ FrameType(i, total) \in {"single", "last"} <=> i = total - 1
<1>1. CASE total = 1
  BY <1>1 DEF FrameType
<1>2. CASE total # 1 /\ i = 0
  BY <1>2 DEF FrameType
<1>3. CASE total # 1 /\ i # 0 /\ i = total - 1
  BY <1>3 DEF FrameType
<1>4. CASE total # 1 /\ i # 0 /\ i # total - 1
  BY <1>4 DEF FrameType
<1> QED
  BY <1>1, <1>2, <1>3, <1>4

\* With a chunk size that Validate accepts, a report that takes no more frames than a uint16 counts is
\* never refused, and its frames rejoin to it (client.go:733-768, mqtt_frame.go:34-67).
THEOREM ReportRejoins ==
  ASSUME NEW size \in Nat \ {0}, NEW chunk \in 1..Limit, size <= chunk * Limit
  PROVE  Rejoin(buildFrames(size, chunk), size)
<1> DEFINE total == FrameTotal(size, chunk)
           frames == [k \in 1..total |-> Frame(k - 1, size, chunk)]
<1>1. total \in 1..Limit
  BY FramesCounted
<1>2. buildFrames(size, chunk) = frames
  BY <1>1, FramesEncodable DEF buildFrames
<1>3. Len(frames) = total /\ \A k \in 1..total : frames[k] = Frame(k - 1, size, chunk)
  BY <1>1
<1>4. frames[1].from = 1 /\ frames[total].to = size
  <2>1. frames[1].from = 1
    BY <1>1, <1>3 DEF Frame
  <2>2. End(total - 1, size, chunk) = size
    BY <1>1, FrameBounds
  <2>3. frames[total] = Frame(total - 1, size, chunk)
    BY <1>1, <1>3
  <2>4. Frame(total - 1, size, chunk).to = End(total - 1, size, chunk)
    BY DEF Frame
  <2> QED
    BY <2>1, <2>2, <2>3, <2>4
<1>5. ASSUME NEW k \in 1..total
      PROVE  /\ frames[k].index = k - 1 /\ frames[k].total = total
             /\ frames[k].to \in frames[k].from..frames[k].from + Limit - 1
             /\ k > 1 => frames[k].from = frames[k - 1].to + 1
             /\ frames[k].type \in {"single", "first"} <=> k = 1
             /\ frames[k].type \in {"single", "last"} <=> k = total
  <2>1. frames[k] = Frame(k - 1, size, chunk) /\ k - 1 \in 0..total - 1
    BY <1>1, <1>3
  <2>2. frames[k].index = k - 1 /\ frames[k].total = total
    BY <1>1, <2>1, HeaderFits DEF Frame
  <2>3. frames[k].to \in frames[k].from..frames[k].from + Limit - 1
    <3>1. /\ (k - 1) * chunk \in Nat
          /\ End(k - 1, size, chunk) \in (k - 1) * chunk + 1..(k - 1) * chunk + chunk
      BY <2>1, FrameBounds
    <3> QED
      BY <2>1, <3>1 DEF Frame
  <2>4. ASSUME k > 1 PROVE frames[k].from = frames[k - 1].to + 1
    <3>1. k - 1 \in 1..total /\ k - 2 \in 0..total - 1 /\ k - 2 # total - 1
      BY <1>1, <2>4
    <3>2. End(k - 2, size, chunk) = (k - 2 + 1) * chunk
      BY <3>1, FrameBounds
    <3>3. frames[k - 1] = Frame(k - 2, size, chunk)
      BY <1>3, <3>1
    <3> QED
      BY <2>1, <3>1, <3>2, <3>3 DEF Frame
  <2>5. /\ frames[k].type \in {"single", "first"} <=> k = 1
        /\ frames[k].type \in {"single", "last"} <=> k = total
    <3>1. frames[k].type = FrameType(k - 1, total)
      BY <2>1 DEF Frame
    <3>2. total \in Nat \ {0} /\ k - 1 \in 0..total - 1 /\ (k - 1 = 0 <=> k = 1) /\ (k - 1 = total - 1 <=> k = total)
      BY <1>1, <2>1
    <3> HIDE DEF total, frames
    <3> QED
      BY <3>1, <3>2, TypesTellPlaces
  <2> QED
    BY <2>2, <2>3, <2>4, <2>5
<1>6. SUFFICES Rejoin(frames, size)
  BY <1>2
<1>7. total > 0
  BY <1>1
<1> HIDE DEF frames, total
<1> QED
  BY <1>3, <1>4, <1>5, <1>7 DEF Rejoin
-----------------------------------------------------------------------------
(* The recursion of validateLossIndexes *)

Smaller == {ss \in Nat \X Nat : ss[1] < ss[2]}

\* Induction without a predicate: a set of numbers that is not empty has a least one.  A claim about
\* every n is proved by taking the least n it fails for.
LEMMA LeastNumber ==
  ASSUME NEW S \in SUBSET Nat, S # {}
  PROVE  \E x \in S : \A y \in S : x <= y
<1>1. IsWellFoundedOn(Smaller, Nat)
  BY NatLessThanWellFounded DEF OpToRel, Smaller
<1>2. PICK x \in S : \A y \in S : ~(<<y, x>> \in Smaller)
  BY <1>1, WFMin
<1>3. ASSUME NEW y \in S PROVE x <= y
  <2>1. x \in Nat /\ y \in Nat
    OBVIOUS
  <2>2. SUFFICES ASSUME y < x PROVE FALSE
    BY <2>1
  <2>3. <<y, x>> \in Smaller
    BY <2>1, <2>2 DEF Smaller
  <2> QED
    BY <1>2, <2>3
<1> QED
  BY <1>3

\* f holds what the loop has kept after each of the first m entries.
Keeps(f, loss, m) ==
  f = [n \in 0..m |-> IF n = 0 THEN <<>> ELSE KeepFirst(f[n - 1], loss[n])]

\* There is such a function, however long the list.
LEMMA LoopRuns ==
  ASSUME NEW loss \in Seq(Int), NEW m \in 0..Len(loss)
  PROVE  \E f : Keeps(f, loss, m)
<1> DEFINE Stuck == {n \in Nat : ~ \E f : Keeps(f, loss, n)}
<1> SUFFICES ASSUME Stuck # {} PROVE FALSE
  <2>1. m \in Nat
    OBVIOUS
  <2> QED
    BY <2>1
<1>1. PICK least \in Stuck : \A n \in Stuck : least <= n
  BY LeastNumber
<1>2. CASE least = 0
  <2>1. Keeps([n \in 0..0 |-> <<>>], loss, 0)
    BY DEF Keeps
  <2> QED
    BY <1>2, <2>1
<1>3. CASE least # 0
  <2>1. least \in Nat /\ least - 1 \in Nat /\ ~(least <= least - 1)
    BY <1>3
  <2>2. least - 1 \notin Stuck
    BY <1>1, <2>1
  <2>3. PICK f : Keeps(f, loss, least - 1)
    BY <2>1, <2>2
  <2> DEFINE g == [n \in 0..least |-> IF n = least THEN KeepFirst(f[least - 1], loss[least]) ELSE f[n]]
  <2>4. \A n \in 0..least - 1 : f[n] = IF n = 0 THEN <<>> ELSE KeepFirst(f[n - 1], loss[n])
    BY <2>1, <2>3 DEF Keeps
  <2>5. ASSUME NEW n \in 0..least
        PROVE  g[n] = IF n = 0 THEN <<>> ELSE KeepFirst(g[n - 1], loss[n])
    <3>1. CASE n = 0
      BY <1>3, <2>1, <2>4, <3>1
    <3>2. CASE n = least /\ n # 0
      BY <2>1, <3>2
    <3>3. CASE n # least /\ n # 0
      <4>1. n - 1 \in 0..least /\ n - 1 # least /\ n \in 0..least - 1
        BY <2>1, <3>3
      <4> QED
        BY <2>4, <3>3, <4>1
    <3> QED
      BY <3>1, <3>2, <3>3
  <2>6. g = [n \in 0..least |-> g[n]]
    OBVIOUS
  <2> HIDE DEF g
  <2>7. Keeps(g, loss, least)
    BY <2>5, <2>6 DEF Keeps
  <2> QED
    BY <2>7
<1> QED
  BY <1>2, <1>3

\* What Kept is after each entry.
LEMMA KeptSteps ==
  ASSUME NEW loss \in Seq(Int)
  PROVE  /\ Kept(loss)[0] = <<>>
         /\ \A n \in 1..Len(loss) : Kept(loss)[n] = KeepFirst(Kept(loss)[n - 1], loss[n])
<1>1. Kept(loss) = CHOOSE f : Keeps(f, loss, Len(loss))
  BY DEF Kept, Keeps
<1>2. Len(loss) \in 0..Len(loss)
  OBVIOUS
<1>3. Keeps(Kept(loss), loss, Len(loss))
  BY <1>1, <1>2, LoopRuns
<1> DEFINE kept == Kept(loss)
<1>4. kept = [n \in 0..Len(loss) |-> IF n = 0 THEN <<>> ELSE KeepFirst(kept[n - 1], loss[n])]
  BY <1>3 DEF Keeps
<1> HIDE DEF kept
<1>5. \A n \in 0..Len(loss) : kept[n] = IF n = 0 THEN <<>> ELSE KeepFirst(kept[n - 1], loss[n])
  BY <1>4
<1>6. 0 \in 0..Len(loss) /\ \A n \in 1..Len(loss) : n \in 0..Len(loss) /\ n # 0
  OBVIOUS
<1> QED
  BY <1>5, <1>6 DEF kept

LEMMA Members ==
  ASSUME NEW s \in Seq(Int), NEW x
  PROVE  x \in ToSet(s) <=> \E i \in 1..Len(s) : s[i] = x
BY DEF ToSet

\* One more entry: it is in, once, and nothing else changes.
LEMMA KeepFirstKeeps ==
  ASSUME NEW kept \in Seq(Int), NEW index \in Int,
         \A i, j \in 1..Len(kept) : kept[i] = kept[j] => i = j
  PROVE  LET more == KeepFirst(kept, index)
         IN  /\ more \in Seq(Int)
             /\ \A i, j \in 1..Len(more) : more[i] = more[j] => i = j
             /\ ToSet(more) = ToSet(kept) \cup {index}
<1>1. CASE Contains(kept, index)
  <2>1. \E i \in 1..Len(kept) : kept[i] = index
    BY <1>1 DEF Contains
  <2>2. index \in ToSet(kept)
    BY <2>1, Members
  <2> QED
    BY <1>1, <2>2 DEF KeepFirst
<1>2. CASE ~Contains(kept, index)
  <2> DEFINE more == Append(kept, index)
  <2>1. /\ more \in Seq(Int) /\ Len(more) = Len(kept) + 1 /\ more[Len(kept) + 1] = index
        /\ \A i \in 1..Len(kept) : more[i] = kept[i]
    OBVIOUS
  <2>2. \A i \in 1..Len(kept) : kept[i] # index
    BY <1>2 DEF Contains
  <2> HIDE DEF more
  <2>3. ASSUME NEW i \in 1..Len(more), NEW j \in 1..Len(more), more[i] = more[j]
        PROVE  i = j
    <3>1. \A k \in 1..Len(more) : k \in 1..Len(kept) \/ k = Len(kept) + 1
      BY <2>1
    <3>2. i \in 1..Len(kept) /\ j = Len(kept) + 1 => FALSE
      BY <2>1, <2>2, <2>3
    <3>3. j \in 1..Len(kept) /\ i = Len(kept) + 1 => FALSE
      BY <2>1, <2>2, <2>3
    <3>4. i \in 1..Len(kept) /\ j \in 1..Len(kept) => i = j
      BY <2>1, <2>3
    <3> QED
      BY <3>1, <3>2, <3>3, <3>4
  <2>4. ASSUME NEW x
        PROVE  x \in ToSet(more) <=> x \in ToSet(kept) \cup {index}
    <3>1. x \in ToSet(more) <=> \E i \in 1..Len(kept) + 1 : more[i] = x
      BY <2>1, Members
    <3>2. x \in ToSet(kept) <=> \E i \in 1..Len(kept) : kept[i] = x
      BY Members
    <3>3. \A i \in 1..Len(kept) + 1 : i \in 1..Len(kept) \/ i = Len(kept) + 1
      OBVIOUS
    <3>4. 1..Len(kept) \subseteq 1..Len(kept) + 1 /\ Len(kept) + 1 \in 1..Len(kept) + 1
      OBVIOUS
    <3> QED
      BY <2>1, <3>1, <3>2, <3>3, <3>4
  <2> QED
    BY <1>2, <2>1, <2>3, <2>4 DEF KeepFirst, more
<1> QED
  BY <1>1, <1>2

\* After every entry the loop has kept each index that came so far, once.
LEMMA KeptOnce ==
  ASSUME NEW loss \in Seq(Int), NEW n \in 0..Len(loss)
  PROVE  /\ Kept(loss)[n] \in Seq(Int)
         /\ \A i, j \in 1..Len(Kept(loss)[n]) : Kept(loss)[n][i] = Kept(loss)[n][j] => i = j
         /\ ToSet(Kept(loss)[n]) = {loss[i] : i \in 1..n}
<1> DEFINE kept == Kept(loss)
           Good(k) == /\ kept[k] \in Seq(Int)
                      /\ \A i, j \in 1..Len(kept[k]) : kept[k][i] = kept[k][j] => i = j
                      /\ ToSet(kept[k]) = {loss[i] : i \in 1..k}
           Bad == {k \in 0..Len(loss) : ~Good(k)}
<1>1. /\ kept[0] = <<>>
      /\ \A k \in 1..Len(loss) : kept[k] = KeepFirst(kept[k - 1], loss[k])
  BY KeptSteps
<1> HIDE DEF kept
<1>2. Good(0)
  BY <1>1 DEF ToSet
<1>3. ASSUME NEW k \in 1..Len(loss), Good(k - 1) PROVE Good(k)
  <2>1. loss[k] \in Int /\ kept[k] = KeepFirst(kept[k - 1], loss[k])
    BY <1>1
  <2>2. /\ kept[k] \in Seq(Int)
        /\ \A i, j \in 1..Len(kept[k]) : kept[k][i] = kept[k][j] => i = j
        /\ ToSet(kept[k]) = ToSet(kept[k - 1]) \cup {loss[k]}
    <3> DEFINE before == kept[k - 1]
               after == KeepFirst(before, loss[k])
    <3>1. before \in Seq(Int) /\ \A i, j \in 1..Len(before) : before[i] = before[j] => i = j
      BY <1>3
    <3>2. kept[k] = after
      BY <2>1
    <3> HIDE DEF before
    <3>3. /\ after \in Seq(Int)
          /\ \A i, j \in 1..Len(after) : after[i] = after[j] => i = j
          /\ ToSet(after) = ToSet(before) \cup {loss[k]}
      BY <2>1, <3>1, KeepFirstKeeps
    <3> HIDE DEF after
    <3> QED
      BY <3>2, <3>3 DEF before
  <2>3. {loss[i] : i \in 1..k} = {loss[i] : i \in 1..k - 1} \cup {loss[k]}
    <3>1. 1..k = (1..k - 1) \cup {k}
      OBVIOUS
    <3> QED
      BY <3>1
  <2> QED
    BY <1>3, <2>2, <2>3
<1> SUFFICES ASSUME Bad # {} PROVE FALSE
  BY DEF kept
<1>4. PICK least \in Bad : \A k \in Bad : least <= k
  <2>1. Bad \in SUBSET Nat
    OBVIOUS
  <2> HIDE DEF Bad
  <2> QED
    BY <2>1, LeastNumber
<1> HIDE DEF Good
<1>5. least \in 1..Len(loss) /\ least - 1 \in 0..Len(loss) /\ ~(least <= least - 1)
  BY <1>2
<1>6. Good(least - 1)
  BY <1>4, <1>5
<1> QED
  BY <1>3, <1>5, <1>6

\* What a resend sends: every frame the list names, once, and none that does not exist; a list that is
\* empty or names a frame that does not exist is refused, and no other (client.go:778-797).
THEOREM ResendSendsTheLoss ==
  ASSUME NEW loss \in Seq(Int), NEW count
  PROVE  LET resent == validateLossIndexes(loss, count)
         IN  IF loss = <<>> \/ \E i \in 1..Len(loss) : loss[i] \notin 0..count - 1
             THEN resent = Refused
             ELSE /\ resent \in Seq(0..count - 1) /\ resent # Refused
                  /\ \A i, j \in 1..Len(resent) : resent[i] = resent[j] => i = j
                  /\ ToSet(resent) = ToSet(loss)
<1>1. CASE loss = <<>> \/ \E i \in 1..Len(loss) : loss[i] \notin 0..count - 1
  BY <1>1 DEF validateLossIndexes
<1>2. CASE ~(loss = <<>> \/ \E i \in 1..Len(loss) : loss[i] \notin 0..count - 1)
  <2> DEFINE resent == Kept(loss)[Len(loss)]
  <2>1. validateLossIndexes(loss, count) = resent
    BY <1>2 DEF validateLossIndexes
  <2>2. /\ resent \in Seq(Int)
        /\ \A i, j \in 1..Len(resent) : resent[i] = resent[j] => i = j
        /\ ToSet(resent) = {loss[i] : i \in 1..Len(loss)}
    <3>1. Len(loss) \in 0..Len(loss)
      OBVIOUS
    <3> QED
      BY <3>1, KeptOnce
  <2> HIDE DEF resent
  <2>3. ToSet(resent) = ToSet(loss)
    <3>1. \A x : x \in ToSet(loss) <=> \E i \in 1..Len(loss) : loss[i] = x
      BY Members
    <3> QED
      BY <2>2, <3>1
  <2>4. \A i \in 1..Len(resent) : resent[i] \in ToSet(loss)
    BY <2>2, <2>3, Members
  <2>5. \A x \in ToSet(loss) : x \in 0..count - 1
    BY <1>2, Members
  <2>6. resent \in Seq(0..count - 1)
    <3>1. \A T : (\A i \in 1..Len(resent) : resent[i] \in T) => resent \in Seq(T)
      BY <2>2
    <3>2. \A i \in 1..Len(resent) : resent[i] \in 0..count - 1
      BY <2>4, <2>5
    <3> QED
      BY <3>1, <3>2, Zenon
  <2>7. resent # <<>>
    <3>1. loss[1] \in ToSet(resent)
      BY <1>2, <2>2
    <3>2. PICK i \in 1..Len(resent) : resent[i] = loss[1]
      BY <2>2, <3>1, Members
    <3> QED
      BY <2>2, <3>2
  <2> QED
    BY <1>2, <2>1, <2>2, <2>3, <2>6, <2>7 DEF Refused
<1> QED
  BY <1>1, <1>2
=============================================================================
