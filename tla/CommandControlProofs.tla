------------------------ MODULE CommandControlProofs ------------------------
(***************************************************************************)
(* Proofs about CommandControl for any set of meters, any requests, any   *)
(* queue and cache size.                                                   *)
(***************************************************************************)
EXTENDS CommandControl, TLAPS

(***************************************************************************)
(* The inductive invariant.  The cache's order is the end of the history   *)
(* of executed keys; while a command is being confirmed its key is already *)
(* in the history and not yet in the cache.  Nothing repeats in the        *)
(* history, and every cached acknowledgement is the one of its key.        *)
(***************************************************************************)
OrderIsRecent ==
  /\ Len(order) <= CacheSize
  /\ Len(recent) <= CacheSize + 1
  /\ IF pc = "confirming" THEN recent = Append(order, cacheKey(cur))
     ELSE order = LastOf(recent, CacheSize)
  /\ pc \in {"writing", "confirming"} => cacheKey(cur) \notin DOMAIN values

ValuesAreOfKeys ==
  \A k \in DOMAIN values : values[k].meter = k[1] /\ values[k].id = k[2]

\* On a line in step the write that is being confirmed was carried out.
Confirming == inStep /\ pc = "confirming" => coil[Output(cur)] = cur.want

IInv ==
  /\ TypeOK
  /\ OrderIsRecent
  /\ NoRepeatInWindow
  /\ ValuesAreOfKeys
  /\ AckIsForThisCommand
  /\ Confirming
  /\ SuccessMeansMoved
-----------------------------------------------------------------------------
\* Sequences of at most n + 1 elements, and their last n.
LEMMA TailProps ==
  ASSUME NEW S, NEW s \in Seq(S), s # <<>>
  PROVE  /\ Tail(s) \in Seq(S) /\ Len(Tail(s)) = Len(s) - 1
         /\ \A i \in 1..Len(s)-1 : Tail(s)[i] = s[i+1]
         /\ Len(s) \in Nat \ {0} /\ DOMAIN Tail(s) = 1..Len(s)-1
OBVIOUS

LEMMA AppendProps ==
  ASSUME NEW S, NEW s \in Seq(S), NEW e \in S
  PROVE  /\ Append(s, e) \in Seq(S) /\ Len(Append(s, e)) = Len(s) + 1
         /\ \A i \in 1..Len(s) : Append(s, e)[i] = s[i]
         /\ Append(s, e)[Len(s) + 1] = e
         /\ DOMAIN Append(s, e) = 1..Len(s)+1
         /\ Len(s) \in Nat /\ DOMAIN s = 1..Len(s)
OBVIOUS

\* Dropping the first element of a sequence without repetitions drops it from the range.
LEMMA TailRange ==
  ASSUME NEW S, NEW s \in Seq(S), s # <<>>, IsInjective(s)
  PROVE  Range(Tail(s)) = Range(s) \ {s[1]} /\ IsInjective(Tail(s))
<1>1. \A i \in 1..Len(s)-1 : Tail(s)[i] = s[i+1] /\ s[i+1] # s[1]
  BY TailProps DEF IsInjective
<1>2. ASSUME NEW x \in Range(s), x # s[1] PROVE x \in Range(Tail(s))
  <2>1. PICK i \in 1..Len(s) : x = s[i]
    BY DEF Range
  <2>2. i # 1 /\ i-1 \in 1..Len(s)-1
    BY <1>2, <2>1
  <2>3. Tail(s)[i-1] = x
    BY <1>1, <2>1, <2>2
  <2> QED
    BY <2>2, <2>3, TailProps DEF Range
<1>3. Range(Tail(s)) \subseteq Range(s) \ {s[1]}
  BY <1>1, TailProps DEF Range
<1>4. IsInjective(Tail(s))
  BY <1>1, TailProps DEF IsInjective
<1> QED
  BY <1>2, <1>3, <1>4

\* One key more at the end of a sequence without repetitions that does not have it.
LEMMA AppendRange ==
  ASSUME NEW S, NEW s \in Seq(S), NEW e \in S
  PROVE  /\ Range(Append(s, e)) = Range(s) \cup {e}
         /\ IsInjective(s) /\ e \notin Range(s) => IsInjective(Append(s, e))
<1>1. Range(Append(s, e)) = Range(s) \cup {e}
  <2>1. \A x \in Range(s) \cup {e} : x \in Range(Append(s, e))
    BY AppendProps DEF Range
  <2>2. \A x \in Range(Append(s, e)) : x \in Range(s) \cup {e}
    BY AppendProps DEF Range
  <2> QED
    BY <2>1, <2>2
<1>2. ASSUME IsInjective(s), e \notin Range(s) PROVE IsInjective(Append(s, e))
  BY <1>2, AppendProps DEF IsInjective, Range
<1> QED
  BY <1>1, <1>2
-----------------------------------------------------------------------------
\* ackCache.put keeps its two fields in step: the keys of values are those of order, none twice, no
\* more than CacheSize, and every acknowledgement stays under its key.
LEMMA PutKeepsCache ==
  ASSUME TypeOK, Len(order) <= CacheSize, IsInjective(order), ValuesAreOfKeys,
         NEW key \in Keys, key \notin DOMAIN values,
         NEW a \in Acks, a.meter = key[1], a.id = key[2],
         put(key, a)
  PROVE  /\ order' = LastOf(Append(order, key), CacheSize)
         /\ order' \in Seq(Keys) /\ Len(order') <= CacheSize
         /\ values' \in [Range(order') -> Acks]
         /\ ValuesAreOfKeys'
<1> DEFINE grown == Append(order, key)
<1>1. /\ order \in Seq(Keys) /\ values \in [Range(order) -> Acks] /\ CacheSize \in Nat \ {0}
      /\ Len(order) \in Nat
  BY SizeAssumption DEF TypeOK
<1>2. /\ grown \in Seq(Keys) /\ Len(grown) = Len(order) + 1
      /\ Range(grown) = Range(order) \cup {key} /\ IsInjective(grown)
      /\ grown # <<>>
  BY <1>1, AppendProps, AppendRange
<1>3. order' = LastOf(grown, CacheSize)
  BY DEF put
<1> DEFINE stored == [k \in DOMAIN values \cup {key} |-> IF k = key THEN a ELSE values[k]]
<1>4. /\ stored \in [Range(grown) -> Acks]
      /\ \A k \in DOMAIN stored : stored[k].meter = k[1] /\ stored[k].id = k[2]
  BY <1>1, <1>2 DEF ValuesAreOfKeys
<1>5. values' = IF Len(order) + 1 > CacheSize
                THEN [k \in DOMAIN stored \ {Head(order)} |-> stored[k]] ELSE stored
  BY DEF put
<1> HIDE DEF stored, grown
<1>6. CASE Len(order) + 1 > CacheSize
  <2>1. order' = Tail(grown)
    BY <1>1, <1>2, <1>3, <1>6 DEF LastOf
  <2>2. Head(order) = grown[1]
    BY <1>1, <1>6, AppendProps DEF grown
  <2>3. Range(order') = Range(grown) \ {Head(order)}
    BY <1>2, <2>1, <2>2, TailRange
  <2>4. values' = [k \in Range(order') |-> stored[k]]
    BY <1>4, <1>5, <1>6, <2>3
  <2>5. order' \in Seq(Keys) /\ Len(order') <= CacheSize
    BY <1>1, <1>2, <2>1, TailProps
  <2>6. Range(order') \subseteq DOMAIN stored
    BY <1>4, <2>3
  <2>7. values' \in [Range(order') -> Acks]
    BY <1>4, <2>4, <2>6
  <2>8. ValuesAreOfKeys'
    BY <1>4, <2>4, <2>6 DEF ValuesAreOfKeys
  <2> QED
    BY <1>3, <2>5, <2>7, <2>8 DEF grown
<1>7. CASE ~(Len(order) + 1 > CacheSize)
  <2>1. order' = grown /\ values' = stored
    BY <1>1, <1>2, <1>3, <1>5, <1>7 DEF LastOf
  <2> QED
    BY <1>1, <1>2, <1>3, <1>4, <1>7, <2>1 DEF ValuesAreOfKeys, grown
<1> QED
  BY <1>6, <1>7

\* A key executed now is appended to the history, of which the cache's order was the end.
LEMMA HistoryGrows ==
  ASSUME TypeOK, OrderIsRecent, NoRepeatInWindow, pc # "confirming", NEW key \in Keys
  PROVE  /\ LastOf(Append(recent, key), CacheSize + 1) = Append(order, key)
         /\ IsInjective(order)
<1>1. /\ order \in Seq(Keys) /\ recent \in Seq(Keys) /\ CacheSize \in Nat \ {0}
      /\ order = LastOf(recent, CacheSize) /\ Len(recent) <= CacheSize + 1
      /\ Len(recent) \in Nat
  BY SizeAssumption DEF TypeOK, OrderIsRecent
<1>2. CASE Len(recent) > CacheSize
  <2>1. order = Tail(recent) /\ Len(recent) = CacheSize + 1 /\ recent # <<>>
    BY <1>1, <1>2 DEF LastOf
  <2>2. LastOf(Append(recent, key), CacheSize + 1) = Tail(Append(recent, key))
    BY <1>1, <2>1, AppendProps DEF LastOf
  <2>3. Tail(Append(recent, key)) = Append(Tail(recent), key)
    BY <1>1, <2>1
  <2> QED
    BY <1>1, <2>1, <2>2, <2>3, TailRange DEF NoRepeatInWindow
<1>3. CASE ~(Len(recent) > CacheSize)
  BY <1>1, <1>3, AppendProps DEF LastOf, NoRepeatInWindow
<1> QED
  BY <1>2, <1>3
-----------------------------------------------------------------------------
\* What the end of an execution establishes, given that the key has just been appended to the history.
LEMMA FinishKeeps ==
  ASSUME IInv, pc \in {"writing", "confirming"}, NEW success \in BOOLEAN, Finish(success),
         NEW h, h = Append(order, cacheKey(cur)), recent' = h,
         UNCHANGED <<process, queue, cur, relay, inStep>>,
         coil' \in [Outputs -> States],
         inStep /\ success => relay[Output(cur)] = cur.want /\ coil'[Output(cur)] = cur.want
  PROVE  IInv'
<1> DEFINE key == cacheKey(cur)
           a == AckOf(cur, success)
<1>1. /\ cur \in Commands /\ key \in Keys /\ key \notin DOMAIN values
      /\ Len(order) <= CacheSize /\ order \in Seq(Keys)
      /\ a \in Acks /\ a.meter = key[1] /\ a.id = key[2] /\ a.meter = cur.meter /\ a.id = cur.id
      /\ a.success = success
  BY DEF IInv, TypeOK, OrderIsRecent, Commands, Keys, cacheKey, AckOf, Acks
<1>2. IsInjective(order)
  <2>1. CASE pc = "writing"
    BY <1>1, <2>1, HistoryGrows DEF IInv
  <2>2. CASE pc = "confirming"
    <3>1. recent = Append(order, key) /\ IsInjective(recent)
      BY <2>2 DEF IInv, OrderIsRecent, NoRepeatInWindow
    <3>2. /\ DOMAIN order = 1..Len(order) /\ DOMAIN recent = 1..Len(order)+1 /\ Len(order) \in Nat
          /\ \A i \in 1..Len(order) : recent[i] = order[i]
      BY <1>1, <3>1, AppendProps
    <3> QED
      BY <3>1, <3>2 DEF IsInjective
  <2> QED
    BY <2>1, <2>2
<1>3. ack' = a /\ fresh' = TRUE /\ put(key, a) /\ pc' = "acking" /\ attempt' = 0 /\ cur' = cur
  BY DEF Finish
<1> HIDE DEF a, key
<1>4. /\ order' = LastOf(Append(order, key), CacheSize)
      /\ order' \in Seq(Keys) /\ Len(order') <= CacheSize
      /\ values' \in [Range(order') -> Acks]
      /\ ValuesAreOfKeys'
  BY <1>1, <1>2, <1>3, PutKeepsCache DEF IInv
<1>5. recent' \in Seq(Keys) /\ IsInjective(recent') /\ Len(recent') <= CacheSize + 1
  <2>1. recent' = Append(order, key) /\ key \notin Range(order) /\ Len(order) \in Nat /\ CacheSize \in Nat
    BY <1>1, SizeAssumption DEF key, IInv, TypeOK
  <2> QED
    BY <1>1, <1>2, <2>1, AppendRange, AppendProps
<1>6. TypeOK'
  BY <1>1, <1>3, <1>4, <1>5, SizeAssumption DEF IInv, TypeOK, process, Range
<1>7. OrderIsRecent'
  BY <1>3, <1>4, <1>5 DEF OrderIsRecent, key
<1>8. AckIsForThisCommand' /\ Confirming'
  BY <1>1, <1>3 DEF AckIsForThisCommand, Confirming
<1>9. SuccessMeansMoved'
  BY <1>1, <1>3 DEF SuccessMeansMoved, Output
<1> QED
  BY <1>4, <1>5, <1>6, <1>7, <1>8, <1>9 DEF IInv, NoRepeatInWindow

LEMMA InitInv == Init => IInv
<1> SUFFICES ASSUME Init PROVE IInv
  OBVIOUS
<1>1. Range(<<>>) = {} /\ IsInjective(<<>>) /\ <<>> \in [{} -> Acks]
      /\ <<>> \in Seq(Commands) /\ <<>> \in Seq(Keys) /\ Len(<<>>) = 0
  BY DEF Range, IsInjective
<1>2. TypeOK
  <2>1. relay \in [Outputs -> States] /\ coil \in [Outputs -> States]
    BY DEF Init
  <2>2. values \in [Range(order) -> Acks] /\ order \in Seq(Keys) /\ recent \in Seq(Keys)
    BY <1>1 DEF Init
  <2>3. queue \in Seq(Commands) /\ Len(queue) <= QueueCapacity /\ attempt \in 0..ConfirmAttempts
    BY <1>1, SizeAssumption DEF Init
  <2> QED
    BY <2>1, <2>2, <2>3 DEF Init, TypeOK
<1>3. OrderIsRecent
  BY SizeAssumption DEF Init, OrderIsRecent, LastOf
<1> QED
  BY <1>1, <1>2, <1>3
  DEF Init, IInv, NoRepeatInWindow, ValuesAreOfKeys, AckIsForThisCommand, Confirming, SuccessMeansMoved

LEMMA StepInv == IInv /\ [Next]_vars => IInv'
<1> SUFFICES ASSUME IInv, [Next]_vars PROVE IInv'
  OBVIOUS
<1> USE DEF process, cache, outputs
<1>1. ASSUME NEW r \in Requests, HandleSet(r)
      PROVE  IInv'
  <2>1. PICK c \in decodeSetRequest(r) :
          queue' = IF Len(queue) < QueueCapacity THEN Append(queue, c) ELSE queue
    BY <1>1 DEF HandleSet
  <2>2. c \in Commands
    BY DEF decodeSetRequest, resolveMeterID, Commands
  <2>3. queue' \in Seq(Commands) /\ Len(queue') <= QueueCapacity
    BY <2>1, <2>2, SizeAssumption DEF IInv, TypeOK
  <2> QED
    BY <1>1, <2>3 DEF HandleSet, IInv, TypeOK, OrderIsRecent, NoRepeatInWindow, ValuesAreOfKeys,
       AckIsForThisCommand, Confirming, SuccessMeansMoved
<1>2. CASE ServeRepeated
  <2>1. /\ cur' \in Commands /\ queue' \in Seq(Commands) /\ Len(queue') <= QueueCapacity
        /\ cacheKey(cur') \in DOMAIN values /\ ack' = values[cacheKey(cur')]
    BY <1>2, SizeAssumption DEF ServeRepeated, IInv, TypeOK
  <2>2. ack' \in Acks /\ ack'.id = cur'.id /\ ack'.meter = cur'.meter
    BY <2>1 DEF IInv, TypeOK, ValuesAreOfKeys, cacheKey
  <2>3. TypeOK'
    BY <1>2, <2>1, <2>2 DEF ServeRepeated, IInv, TypeOK
  <2> QED
    BY <1>2, <2>2, <2>3 DEF ServeRepeated, IInv, OrderIsRecent, NoRepeatInWindow, ValuesAreOfKeys,
       AckIsForThisCommand, Confirming, SuccessMeansMoved
<1>3. CASE Serve
  <2>1. /\ cur' \in Commands /\ queue' \in Seq(Commands) /\ Len(queue') <= QueueCapacity
        /\ cacheKey(cur') \notin DOMAIN values
    BY <1>3, SizeAssumption DEF Serve, IInv, TypeOK
  <2>2. TypeOK'
    BY <1>3, <2>1 DEF Serve, IInv, TypeOK
  <2>3. OrderIsRecent'
    BY <1>3, <2>1 DEF Serve, IInv, OrderIsRecent, cacheKey
  <2> QED
    BY <1>3, <2>2, <2>3 DEF Serve, IInv, NoRepeatInWindow, ValuesAreOfKeys,
       AckIsForThisCommand, Confirming, SuccessMeansMoved
<1>4. ASSUME pc = "writing", recent' = LastOf(Append(recent, cacheKey(cur)), CacheSize + 1)
      PROVE  recent' = Append(order, cacheKey(cur)) /\ cur \in Commands /\ cacheKey(cur) \in Keys
  <2>1. cur \in Commands /\ cacheKey(cur) \in Keys
    BY <1>4 DEF IInv, TypeOK, Commands, Keys, cacheKey
  <2> QED
    BY <1>4, <2>1, HistoryGrows DEF IInv
<1>5. CASE WriteConfirmed
  <2>1. recent' = Append(order, cacheKey(cur)) /\ cur \in Commands /\ cacheKey(cur) \in Keys
    BY <1>4, <1>5 DEF WriteConfirmed
  <2>2. Output(cur) \in Outputs /\ cur.want \in States
    BY <2>1 DEF Commands, Outputs, Output
  <2>3. coil' \in [Outputs -> States] /\ (inStep => coil'[Output(cur)] = cur.want)
    BY <1>5, <2>2 DEF WriteConfirmed, IInv, TypeOK
  <2>4. cacheKey(cur) \notin Range(order) /\ IsInjective(order) /\ order \in Seq(Keys)
    BY <1>5, <2>1, HistoryGrows DEF WriteConfirmed, IInv, OrderIsRecent, TypeOK
  <2>5. recent' \in Seq(Keys) /\ IsInjective(recent') /\ Len(recent') <= CacheSize + 1
    BY <2>1, <2>4, AppendRange, AppendProps, SizeAssumption DEF IInv, OrderIsRecent
  <2>6. TypeOK'
    BY <1>5, <2>1, <2>3, <2>5, SizeAssumption DEF WriteConfirmed, IInv, TypeOK
  <2>7. OrderIsRecent'
    BY <1>5, <2>1, <2>5 DEF WriteConfirmed, IInv, OrderIsRecent, cacheKey
  <2> QED
    BY <1>5, <2>3, <2>5, <2>6, <2>7 DEF WriteConfirmed, IInv, NoRepeatInWindow, ValuesAreOfKeys,
       AckIsForThisCommand, Confirming, SuccessMeansMoved, Output
<1>6. CASE WriteFails
  <2>1. recent' = Append(order, cacheKey(cur)) /\ cur \in Commands
    BY <1>4, <1>6 DEF WriteFails
  <2>2. Output(cur) \in Outputs /\ cur.want \in States
    BY <2>1 DEF Commands, Outputs, Output
  <2>3. coil' \in [Outputs -> States]
    BY <1>6, <2>2 DEF WriteFails, IInv, TypeOK
  <2> QED
    BY <1>6, <2>1, <2>3, FinishKeeps DEF WriteFails
<1>7. CASE ReadWanted
  <2>1. /\ recent = Append(order, cacheKey(cur)) /\ coil \in [Outputs -> States]
        /\ inStep => coil[Output(cur)] = cur.want /\ relay[Output(cur)] = cur.want
    BY <1>7 DEF ReadWanted, Shown, IInv, OrderIsRecent, Confirming, TypeOK
  <2> QED
    BY <1>7, <2>1, FinishKeeps DEF ReadWanted
<1>8. CASE ReadOther \/ ReadFails
  <2>1. recent = Append(order, cacheKey(cur)) /\ coil \in [Outputs -> States]
    BY <1>8 DEF ReadOther, ReadsOther, ReadFails, IInv, OrderIsRecent, TypeOK
  <2>2. CASE Finish(FALSE)
    BY <1>8, <2>1, <2>2, FinishKeeps DEF ReadOther, ReadsOther, ReadFails
  <2>3. CASE ~Finish(FALSE)
    <3>1. /\ attempt < ConfirmAttempts /\ attempt' = attempt + 1
          /\ UNCHANGED <<process, queue, pc, cur, ack, fresh, cache, outputs, recent>>
      BY <1>8, <2>3 DEF ReadOther, ReadFails
    <3>2. TypeOK'
      BY <3>1, SizeAssumption DEF IInv, TypeOK
    <3> QED
      BY <3>1, <3>2 DEF IInv, OrderIsRecent, NoRepeatInWindow, ValuesAreOfKeys, AckIsForThisCommand,
         Confirming, SuccessMeansMoved
  <2> QED
    BY <2>2, <2>3
<1>9. CASE PublishACK \/ ReportSwitches
  <2>1. /\ pc \in {"acking", "reporting"} /\ pc' \in {"idle", "reporting"}
        /\ UNCHANGED <<process, queue, attempt, cache, outputs, recent>>
        /\ ack' \in {ack, None} /\ fresh' \in {fresh, FALSE}
        /\ (cur' = cur \/ (cur' = None /\ pc' = "idle"))
    BY <1>9 DEF PublishACK, ReportSwitches
  <2>2. TypeOK'
    BY <2>1 DEF IInv, TypeOK
  <2>3. OrderIsRecent'
    BY <2>1 DEF IInv, OrderIsRecent
  <2> QED
    BY <2>1, <2>2, <2>3 DEF IInv, NoRepeatInWindow, ValuesAreOfKeys, AckIsForThisCommand, Confirming,
       SuccessMeansMoved
<1>10. ASSUME NEW o \in Outputs, Settle(o)
       PROVE  IInv'
  <2>1. relay' = [relay EXCEPT ![o] = coil[o]]
        /\ UNCHANGED <<process, queue, pc, cur, attempt, ack, fresh, cache, coil, inStep, recent>>
    BY <1>10 DEF Settle
  <2>2. TypeOK'
    BY <2>1 DEF IInv, TypeOK
  <2>3. SuccessMeansMoved'
    <3>1. ASSUME cur \in Commands PROVE Output(cur) \in Outputs
      BY <3>1 DEF Commands, Outputs, Output
    <3> QED
      BY <2>1, <3>1 DEF IInv, TypeOK, SuccessMeansMoved, Output
  <2> QED
    BY <2>1, <2>2, <2>3 DEF IInv, OrderIsRecent, NoRepeatInWindow, ValuesAreOfKeys, AckIsForThisCommand,
       Confirming
<1>11. CASE Cancel \/ Ends(TRUE) \/ Ends(FALSE) \/ UNCHANGED vars
  <2>1. /\ UNCHANGED <<queue, pc, cur, attempt, ack, fresh, cache, outputs, recent>>
        /\ up' \in BOOLEAN /\ cancelled' \in BOOLEAN
    BY <1>11 DEF Cancel, Ends, vars, IInv, TypeOK
  <2>2. TypeOK'
    BY <2>1 DEF IInv, TypeOK
  <2>3. OrderIsRecent'
    BY <2>1 DEF IInv, OrderIsRecent
  <2> QED
    BY <2>1, <2>2, <2>3 DEF IInv, NoRepeatInWindow, ValuesAreOfKeys, AckIsForThisCommand, Confirming,
       SuccessMeansMoved
<1>12. CASE Restart
  <2>1. Range(<<>>) = {} /\ IsInjective(<<>>) /\ <<>> \in [{} -> Acks]
      /\ <<>> \in Seq(Commands) /\ <<>> \in Seq(Keys) /\ Len(<<>>) = 0
    BY DEF Range, IsInjective
  <2>2. TypeOK'
    <3>1. values' \in [Range(order') -> Acks] /\ order' \in Seq(Keys) /\ recent' \in Seq(Keys)
      BY <1>12, <2>1 DEF Restart
    <3>2. queue' \in Seq(Commands) /\ Len(queue') <= QueueCapacity /\ attempt' \in 0..ConfirmAttempts
      BY <1>12, <2>1, SizeAssumption DEF Restart
    <3> QED
      BY <1>12, <3>1, <3>2 DEF Restart, IInv, TypeOK
  <2>3. OrderIsRecent'
    BY <1>12, SizeAssumption DEF Restart, OrderIsRecent, LastOf
  <2> QED
    BY <1>12, <2>1, <2>2, <2>3 DEF Restart, IInv, NoRepeatInWindow, ValuesAreOfKeys, AckIsForThisCommand,
       Confirming, SuccessMeansMoved
<1>13. ASSUME NEW o \in Outputs, NEW state \in States, CarryOut(o, state)
       PROVE  IInv'
  <2>1. ~inStep /\ coil' = [coil EXCEPT ![o] = state]
        /\ UNCHANGED <<process, queue, pc, cur, attempt, ack, fresh, cache, relay, inStep, recent>>
    BY <1>13 DEF CarryOut
  <2>2. TypeOK'
    BY <2>1 DEF IInv, TypeOK
  <2> QED
    BY <2>1, <2>2 DEF IInv, OrderIsRecent, NoRepeatInWindow, ValuesAreOfKeys, AckIsForThisCommand,
       Confirming, SuccessMeansMoved
<1> QED
  BY <1>1, <1>2, <1>3, <1>5, <1>6, <1>7, <1>8, <1>9, <1>10, <1>11, <1>12, <1>13 DEF Next, Loop
-----------------------------------------------------------------------------
LEMMA Invariant == Spec => []IInv
BY InitInv, StepInv, PTL DEF Spec

\* Every variable keeps its type; ackCache's map has exactly the keys of its order.
THEOREM TypeCorrect == Spec => []TypeOK
<1>1. IInv => TypeOK
  BY DEF IInv
<1> QED
  BY Invariant, <1>1, PTL

\* However requests repeat, overlap and are interrupted, one process executes no request twice within
\* CacheSize + 1 executions.
THEOREM NoRepeat == Spec => []NoRepeatInWindow
<1>1. IInv => NoRepeatInWindow
  BY DEF IInv
<1> QED
  BY Invariant, <1>1, PTL

\* Every published acknowledgement carries the id and the meter of the command it answers.
THEOREM AckMatchesCommand == Spec => []AckIsForThisCommand
<1>1. IInv => AckIsForThisCommand
  BY DEF IInv
<1> QED
  BY Invariant, <1>1, PTL

\* On a line in step a fresh success is published only while the output is, and is held, in the state
\* asked for.  (Out of step it may not be: the run driver_late of module Qs300 shows one that is not.)
THEOREM SuccessIsReal == Spec => []SuccessMeansMoved
<1>1. IInv => SuccessMeansMoved
  BY DEF IInv
<1> QED
  BY Invariant, <1>1, PTL
-----------------------------------------------------------------------------
(* The refinement: what the cache holds is the log of AckLog. *)

\* The cache seen as a log is a sequence as long as the cache's order.
LogShape ==
  /\ Log \in Seq(Promise!Entries) /\ Len(Log) = Len(order) /\ Len(order) \in Nat
  /\ DOMAIN order = 1..Len(order) /\ DOMAIN Log = 1..Len(order)
  /\ \A i \in 1..Len(order) : Log[i] = Entry(order[i], values[order[i]])

LEMMA LogIsSequence == TypeOK => LogShape
<1> SUFFICES ASSUME TypeOK PROVE LogShape
  OBVIOUS
<1>1. order \in Seq(Keys) /\ values \in [Range(order) -> Acks]
  BY DEF TypeOK
<1>2. \A i \in 1..Len(order) : order[i] \in Keys /\ values[order[i]] \in Acks
  BY <1>1 DEF Range
<1>3. DOMAIN order = 1..Len(order) /\ Len(order) \in Nat
  BY <1>1
<1>4. Log \in [1..Len(order) -> Promise!Entries]
  BY <1>2, <1>3 DEF Log, Entry, Promise!Entries
<1> QED
  BY <1>3, <1>4 DEF Log, LogShape

LEMMA LogStaysSequence == TypeOK' => LogShape'
BY LogIsSequence, PTL

\* The end of an execution is the execution of the log: one entry more, the oldest one dropped.
LEMMA FinishExecutes ==
  ASSUME IInv, IInv', pc \in {"writing", "confirming"}, NEW success \in BOOLEAN, Finish(success),
         UNCHANGED cur
  PROVE  Promise!Next
<1> DEFINE key == cacheKey(cur)
           a == AckOf(cur, success)
           e == Entry(key, a)
           n == Len(order)
<1>1. /\ cur \in Commands /\ key \in Keys /\ a \in Acks /\ e \in Promise!Entries
  BY DEF IInv, TypeOK, Commands, Keys, cacheKey, AckOf, Acks, Promise!Entries, Entry
<1>2. /\ order \in Seq(Keys) /\ n \in Nat /\ n <= CacheSize /\ CacheSize \in Nat \ {0}
      /\ DOMAIN values = Range(order) /\ key \notin Range(order)
  BY SizeAssumption DEF IInv, TypeOK, OrderIsRecent
<1>3. ack' = a /\ put(key, a) /\ pc' = "acking"
  BY DEF Finish
<1>4. Told = {} /\ Told' = {e}
  BY <1>3 DEF Told
<1>5. /\ \A i \in 1..n : order[i] \in Range(order) /\ order[i] # key
      /\ \A i, j \in 1..n : order[i] = order[j] => i = j
  <2>1. \A i \in 1..n : order[i] \in Range(order) /\ order[i] # key
    BY <1>2 DEF Range
  <2>2. IsInjective(order)
    <3>1. CASE pc = "writing"
      BY <1>1, <3>1, HistoryGrows DEF IInv
    <3>2. CASE pc = "confirming"
      <4>1. recent = Append(order, key) /\ IsInjective(recent)
        BY <3>2 DEF IInv, OrderIsRecent, NoRepeatInWindow
      <4>2. /\ DOMAIN order = 1..n /\ DOMAIN recent = 1..n+1
            /\ \A i \in 1..n : recent[i] = order[i]
        BY <1>1, <1>2, <4>1, AppendProps
      <4> QED
        BY <4>1, <4>2, <1>2 DEF IsInjective
    <3> QED
      BY <3>1, <3>2
  <2> QED
    BY <2>1, <2>2, <1>2 DEF IsInjective
<1> DEFINE stored == [k \in DOMAIN values \cup {key} |-> IF k = key THEN a ELSE values[k]]
<1>6. /\ order' = LastOf(Append(order, key), CacheSize)
      /\ values' = IF n + 1 > CacheSize
                   THEN [k \in DOMAIN stored \ {Head(order)} |-> stored[k]] ELSE stored
  BY <1>3 DEF put
<1>7. /\ stored[key] = a /\ \A i \in 1..n : stored[order[i]] = values[order[i]]
      /\ DOMAIN stored = Range(order) \cup {key}
  BY <1>2, <1>5
<1>8. /\ Log \in Seq(Promise!Entries) /\ Len(Log) = n /\ DOMAIN Log = 1..n
      /\ \A i \in 1..n : Log[i] = Entry(order[i], values[order[i]])
  BY LogIsSequence DEF IInv, LogShape
<1>9. /\ Log' \in Seq(Promise!Entries) /\ Len(Log') = Len(order')
      /\ \A i \in 1..Len(order') : Log'[i] = Entry(order'[i], values'[order'[i]])
  BY LogStaysSequence DEF IInv, LogShape, Promise!Entries, Entry
<1> HIDE DEF key, a, e, stored
<1>10. Log' = Promise!Remember(e)
  <2>1. CASE n + 1 > CacheSize
    <3>1. /\ order' = Tail(Append(order, key)) /\ n = CacheSize
          /\ values' = [k \in DOMAIN stored \ {Head(order)} |-> stored[k]] /\ Head(order) = order[1]
      BY <1>1, <1>2, <1>6, <2>1, AppendProps DEF LastOf
    <3>2. /\ Len(order') = n
          /\ \A i \in 1..n : order'[i] = IF i = n THEN key ELSE order[i+1]
      BY <1>1, <1>2, <3>1, AppendProps, TailProps
    <3>3. \A i \in 1..n : values'[order'[i]] = IF i = n THEN a ELSE values[order[i+1]]
      <4> TAKE i \in 1..n
      <4>1. CASE i = n
        BY <1>2, <1>5, <1>7, <3>1, <3>2, <4>1
      <4>2. CASE i # n
        <5>1. i + 1 \in 1..n /\ 1 \in 1..n /\ order'[i] = order[i+1]
          BY <1>2, <3>2, <4>2
        <5>2. order[i+1] # order[1] /\ order[i+1] \in DOMAIN stored
          BY <1>2, <1>5, <1>7, <5>1
        <5> QED
          BY <1>7, <3>1, <4>2, <5>1, <5>2
      <4> QED
        BY <4>1, <4>2
    <3>4. \A i \in 1..n : Log'[i] = IF i = n THEN e ELSE Log[i+1]
      <4> TAKE i \in 1..n
      <4>1. Log'[i] = Entry(order'[i], values'[order'[i]])
        BY <1>9, <3>2
      <4>2. CASE i = n
        BY <3>2, <3>3, <4>1, <4>2 DEF e
      <4>3. CASE i # n
        <5>1. i + 1 \in 1..n
          BY <1>2, <4>3
        <5> QED
          BY <1>8, <3>2, <3>3, <4>1, <4>3, <5>1
      <4> QED
        BY <4>2, <4>3
    <3>5. Promise!Remember(e) = Append(Tail(Log), e)
      BY <1>2, <1>8, <3>1 DEF Promise!Remember
    <3>6. /\ Append(Tail(Log), e) \in Seq(Promise!Entries) /\ Len(Append(Tail(Log), e)) = n
          /\ \A i \in 1..n : Append(Tail(Log), e)[i] = IF i = n THEN e ELSE Log[i+1]
      BY <1>1, <1>2, <1>8, <3>1
    <3> QED
      BY <1>9, <3>2, <3>4, <3>5, <3>6
  <2>2. CASE ~(n + 1 > CacheSize)
    <3>1. order' = Append(order, key) /\ n < CacheSize /\ values' = stored
      BY <1>1, <1>2, <1>6, <2>2, AppendProps DEF LastOf
    <3>2. Len(order') = n + 1 /\ \A i \in 1..n+1 : order'[i] = IF i = n+1 THEN key ELSE order[i]
      BY <1>1, <1>2, <3>1, AppendProps
    <3>3. \A i \in 1..n+1 : Log'[i] = IF i = n+1 THEN e ELSE Log[i]
      BY <1>2, <1>7, <1>8, <1>9, <3>1, <3>2 DEF e
    <3>4. Promise!Remember(e) = Append(Log, e)
      BY <1>2, <1>8, <3>1 DEF Promise!Remember
    <3>5. /\ Append(Log, e) \in Seq(Promise!Entries) /\ Len(Append(Log, e)) = n + 1
          /\ \A i \in 1..n+1 : Append(Log, e)[i] = IF i = n+1 THEN e ELSE Log[i]
      BY <1>1, <1>2, <1>8
    <3> QED
      BY <1>9, <3>2, <3>3, <3>4, <3>5
  <2> QED
    BY <2>1, <2>2
<1>11. \A i \in DOMAIN Log : Log[i].key # e.key
  BY <1>5, <1>8 DEF Entry, e
<1>12. Promise!Execute(e)
  BY <1>4, <1>10, <1>11 DEF Promise!Execute
<1> QED
  BY <1>1, <1>12 DEF Promise!Next

LEMMA StepRefines == IInv /\ IInv' /\ [Next]_vars => [Promise!Next]_(Promise!vars)
<1> SUFFICES ASSUME IInv, IInv', [Next]_vars PROVE [Promise!Next]_(Promise!vars)
  OBVIOUS
<1> USE DEF process, cache, outputs
<1>1. ASSUME UNCHANGED cache, Told' = Told PROVE UNCHANGED Promise!vars
  BY <1>1 DEF Promise!vars, Log
<1>2. ASSUME UNCHANGED <<pc, cur, ack, cache>> PROVE UNCHANGED Promise!vars
  BY <1>1, <1>2 DEF Told
<1>3. ASSUME UNCHANGED cache, pc # "acking", pc' # "acking" PROVE UNCHANGED Promise!vars
  BY <1>1, <1>3 DEF Told
<1>4. ASSUME NEW success \in BOOLEAN, Finish(success), pc \in {"writing", "confirming"}, UNCHANGED cur
      PROVE  Promise!Next
  BY <1>4, FinishExecutes
<1>5. CASE ServeRepeated
  <2>1. /\ pc # "acking" /\ pc' = "acking" /\ UNCHANGED cache
        /\ cacheKey(cur') \in DOMAIN values /\ ack' = values[cacheKey(cur')]
    BY <1>5 DEF ServeRepeated
  <2>2. DOMAIN values = Range(order)
    BY DEF IInv, TypeOK
  <2>3. PICK i \in DOMAIN order : cacheKey(cur') = order[i]
    BY <2>1, <2>2 DEF Range
  <2>4. i \in DOMAIN Log /\ Log[i] = Entry(cacheKey(cur'), ack')
    BY <2>1, <2>3 DEF Log
  <2>5. Told = {} /\ Told' = {Log[i]} /\ UNCHANGED Log
    BY <2>1, <2>4 DEF Told, Log
  <2>6. Promise!Repeat
    BY <2>4, <2>5 DEF Promise!Repeat
  <2> QED
    BY <2>6 DEF Promise!Next
<1>6. CASE PublishACK
  <2>1. Told # {} /\ Told' = {} /\ UNCHANGED Log
    BY <1>6 DEF PublishACK, Told, Log
  <2> QED
    BY <2>1 DEF Promise!Publish, Promise!Next
<1>7. CASE Restart
  <2>1. Log' = <<>> /\ Told' = {}
    BY <1>7 DEF Restart, Log, Told
  <2> QED
    BY <2>1 DEF Promise!Forget, Promise!Next
<1>8. CASE Serve \/ WriteConfirmed \/ ReportSwitches
  BY <1>3, <1>8 DEF Serve, WriteConfirmed, ReportSwitches
<1>9. CASE WriteFails
  BY <1>4, <1>9 DEF WriteFails
<1>10. CASE ReadWanted
  BY <1>4, <1>10 DEF ReadWanted
<1>11. CASE ReadOther
  <2>1. CASE Finish(FALSE)
    BY <1>4, <1>11, <2>1 DEF ReadOther, ReadsOther
  <2>2. CASE ~Finish(FALSE)
    BY <1>2, <1>11, <2>2 DEF ReadOther
  <2> QED
    BY <2>1, <2>2
<1>12. CASE ReadFails
  BY <1>4, <1>12 DEF ReadFails
<1>13. ASSUME NEW r \in Requests, HandleSet(r) PROVE UNCHANGED Promise!vars
  BY <1>2, <1>13 DEF HandleSet
<1>14. ASSUME NEW o \in Outputs, Settle(o) PROVE UNCHANGED Promise!vars
  BY <1>2, <1>14 DEF Settle
<1>15. ASSUME NEW o \in Outputs, NEW state \in States, CarryOut(o, state) PROVE UNCHANGED Promise!vars
  BY <1>2, <1>15 DEF CarryOut
<1>16. CASE Cancel \/ Ends(TRUE) \/ Ends(FALSE) \/ UNCHANGED vars
  BY <1>2, <1>16 DEF Cancel, Ends, vars
<1> QED
  BY <1>5, <1>6, <1>7, <1>8, <1>9, <1>10, <1>11, <1>12, <1>13, <1>14, <1>15, <1>16 DEF Next, Loop

\* The controller and its cache implement AckLog, for every cache size.
THEOREM Implementation == Spec => ImplementsAckLog
<1>1. Init => Promise!Init
  BY DEF Init, Promise!Init, Log, Told
<1>2. IInv /\ IInv' /\ [Next]_vars => [Promise!Next]_(Promise!vars)
  BY StepRefines
<1> QED
  BY <1>1, <1>2, Invariant, PTL DEF Spec, ImplementsAckLog, Promise!Spec
-----------------------------------------------------------------------------
(* The outputs: module DigitalOutput's promise *)

\* An output that is told a state is among those on, or no longer.
LEMMA SetOutput ==
  ASSUME inStep, NEW f \in [Outputs -> States], NEW o \in Outputs, NEW state \in States
  PROVE  OnOf([f EXCEPT ![o] = state]) = Switching!With(OnOf(f), o, state = "on")
<1> DEFINE g == [f EXCEPT ![o] = state]
<1>1. g[o] = state /\ \A p \in Outputs : p # o => g[p] = f[p] OBVIOUS
<1> HIDE DEF g
<1>2. \A p \in Outputs : g[p] = "on" <=> IF p = o THEN state = "on" ELSE f[p] = "on"
  BY <1>1
<1> QED BY <1>2 DEF OnOf, Switching!With, g

\* The control that is being executed, as the server sees it.
Asked == [output |-> Output(cur), want |-> cur.want = "on"]

LEMMA AskedIsAControl ==
  ASSUME cur \in Commands
  PROVE  Output(cur) \in Outputs /\ cur.want \in States /\ Asked \in [output : Outputs, want : BOOLEAN]
<1>1. Output(cur) \in Outputs /\ cur.want \in States BY DEF Commands, Output, Outputs
<1>2. (cur.want = "on") \in BOOLEAN OBVIOUS
<1> QED BY <1>1, <1>2 DEF Asked

\* What the mapping makes of each place the loop can be in.
LEMMA Places ==
  /\ Executing => Verdict = "open" /\ Controlled = {Asked}
  /\ Concluded /\ ack.success => Verdict = "success" /\ Controlled = {Asked}
  /\ Concluded /\ ~ack.success => Verdict = "failure" /\ Controlled = {Asked}
  /\ ~Executing /\ ~Concluded => Verdict = "none" /\ Controlled = {}
BY DEF Executing, Concluded, Verdict, Controlled, Asked

LEMMA PlacesAfter ==
  /\ Executing' => Verdict' = "open" /\ Controlled' = {Asked'}
  /\ Concluded' /\ ack'.success => Verdict' = "success" /\ Controlled' = {Asked'}
  /\ Concluded' /\ ~ack'.success => Verdict' = "failure" /\ Controlled' = {Asked'}
  /\ ~Executing' /\ ~Concluded' => Verdict' = "none" /\ Controlled' = {}
BY DEF Executing, Concluded, Verdict, Controlled, Asked

\* The end of an execution ends the control.
LEMMA FinishEnds ==
  ASSUME Executing, NEW success \in BOOLEAN, Finish(success), cur' = cur, inStep' = inStep
  PROVE  /\ Verdict = "open" /\ Verdict' = IF success THEN "success" ELSE "failure"
         /\ Controlled = {Asked} /\ Controlled' = {Asked}
<1>1. ack'.success = success /\ Concluded' BY DEF Finish, AckOf, Executing, Concluded
<1>2. Asked' = Asked BY DEF Asked, Output
<1> QED BY <1>1, <1>2, Places, PlacesAfter

\* The line stays as it is, in step or out of it.
LEMMA LineStays == [Next]_vars => inStep' = inStep
<1> SUFFICES ASSUME [Next]_vars PROVE inStep' = inStep
  OBVIOUS
<1> USE DEF outputs
<1>1. ASSUME NEW r \in Requests, HandleSet(r) PROVE inStep' = inStep
  BY <1>1 DEF HandleSet
<1>2. CASE Loop
  BY <1>2 DEF Loop, ServeRepeated, Serve, WriteConfirmed, WriteFails, ReadWanted, ReadOther, ReadFails,
     PublishACK, ReportSwitches, Ends
<1>3. ASSUME NEW o \in Outputs, Settle(o) PROVE inStep' = inStep
  BY <1>3 DEF Settle
<1>4. ASSUME NEW o \in Outputs, NEW state \in States, CarryOut(o, state) PROVE inStep' = inStep
  BY <1>4 DEF CarryOut
<1> QED BY <1>1, <1>2, <1>3, <1>4 DEF Next, Cancel, Ends, Restart, vars

\* Out of step nothing is shown of the outputs and their control.
LEMMA NothingShown ==
  /\ ~inStep => OnOf(coil) = {} /\ OnOf(relay) = {} /\ Verdict = "none" /\ Controlled = {}
  /\ ~inStep' => OnOf(coil)' = {} /\ OnOf(relay)' = {} /\ Verdict' = "none" /\ Controlled' = {}
<1>1. ~inStep => OnOf(coil) = {} /\ OnOf(relay) = {} /\ ~Executing /\ ~Concluded
  BY DEF OnOf, Executing, Concluded
<1>2. ~inStep' => OnOf(coil)' = {} /\ OnOf(relay)' = {} /\ ~Executing' /\ ~Concluded'
  BY DEF OnOf, Executing, Concluded
<1> QED BY <1>1, <1>2, Places, PlacesAfter

LEMMA SwitchingStepInStep ==
  ASSUME IInv, [Next]_vars, inStep
  PROVE  [Switching!Next]_(Switching!vars)
<1> USE DEF outputs
<1>1. /\ coil \in [Outputs -> States] /\ relay \in [Outputs -> States]
      /\ pc # "idle" => cur \in Commands
      /\ inStep' = inStep
  BY LineStays DEF IInv, TypeOK
<1>2. ASSUME UNCHANGED <<pc, cur, ack, fresh, outputs>> PROVE UNCHANGED Switching!vars
  BY <1>2 DEF Switching!vars, OnOf, Controlled, Verdict, Executing, Concluded, Output
<1>3. ASSUME ~Executing, ~Concluded, ~Executing', ~Concluded', UNCHANGED outputs
      PROVE  UNCHANGED Switching!vars
  <2>1. Verdict' = Verdict /\ Controlled' = Controlled BY <1>3, Places, PlacesAfter
  <2> QED BY <1>3, <2>1 DEF Switching!vars, OnOf
<1>4. ASSUME NEW r \in Requests, HandleSet(r) PROVE UNCHANGED Switching!vars
  BY <1>2, <1>4 DEF HandleSet
<1>5. CASE ServeRepeated
  <2>1. pc = "idle" /\ pc' = "acking" /\ fresh' = FALSE /\ UNCHANGED outputs
    BY <1>5 DEF ServeRepeated
  <2> QED BY <1>3, <2>1 DEF Executing, Concluded
<1>6. CASE Serve
  <2>1. pc = "idle" /\ pc' = "writing" /\ cur' \in Commands /\ UNCHANGED outputs
    BY <1>6 DEF Serve, IInv, TypeOK
  <2>2. Verdict = "none" /\ Verdict' = "open" /\ Controlled' = {Asked'}
    BY <1>1, <2>1, Places, PlacesAfter DEF Executing, Concluded
  <2>3. Asked' \in [output : Outputs, want : BOOLEAN]
    <3>1. Output(cur') \in Outputs /\ (cur'.want = "on") \in BOOLEAN
      BY <2>1 DEF Commands, Output, Outputs
    <3> QED BY <3>1 DEF Asked, Output
  <2>4. Switching!Begin(Asked') BY <2>1, <2>2 DEF Switching!Begin, OnOf
  <2> QED BY <2>3, <2>4 DEF Switching!Next
<1>7. ASSUME Executing, coil' = [coil EXCEPT ![Output(cur)] = cur.want]
      PROVE  \E c \in {Asked} : OnOf(coil)' = Switching!With(OnOf(coil), c.output, c.want)
  <2>1. cur \in Commands BY <1>1, <1>7 DEF Executing
  <2>2. OnOf(coil)' = OnOf([coil EXCEPT ![Output(cur)] = cur.want]) BY <1>1, <1>7 DEF OnOf
  <2>3. OnOf(coil)' = Switching!With(OnOf(coil), Output(cur), cur.want = "on")
    BY <1>1, <2>1, <2>2, AskedIsAControl, SetOutput
  <2> QED BY <2>3 DEF Asked
<1>8. CASE WriteConfirmed
  <2>1. /\ Executing /\ Executing' /\ cur' = cur /\ relay' = relay
        /\ coil' = [coil EXCEPT ![Output(cur)] = cur.want]
    BY <1>1, <1>8 DEF WriteConfirmed, Executing
  <2>2. Asked' = Asked BY <2>1 DEF Asked, Output
  <2>3. Verdict = "open" /\ Verdict' = "open" /\ Controlled = {Asked} /\ Controlled' = {Asked}
    BY <2>1, <2>2, Places, PlacesAfter
  <2>4. OnOf(relay)' = OnOf(relay) BY <1>1, <2>1 DEF OnOf
  <2> QED BY <1>7, <2>1, <2>3, <2>4 DEF Switching!Next, Switching!Write
<1>9. ASSUME Executing, Finish(FALSE), UNCHANGED <<cur, relay>>,
             UNCHANGED coil \/ coil' = [coil EXCEPT ![Output(cur)] = cur.want]
      PROVE  Switching!Next
  <2>1. Verdict = "open" /\ Verdict' = "failure" /\ Controlled = {Asked} /\ Controlled' = {Asked}
    BY <1>1, <1>9, FinishEnds
  <2>2. OnOf(relay)' = OnOf(relay) /\ (UNCHANGED coil => OnOf(coil)' = OnOf(coil)) BY <1>1, <1>9 DEF OnOf
  <2> QED BY <1>7, <1>9, <2>1, <2>2 DEF Switching!Next, Switching!Fail
<1>10. CASE WriteFails BY <1>9, <1>10 DEF WriteFails, Executing
<1>11. CASE ReadWanted
  <2>1. Executing /\ Finish(TRUE) /\ cur' = cur /\ UNCHANGED outputs BY <1>11 DEF ReadWanted, Executing
  <2>2. Verdict = "open" /\ Verdict' = "success" /\ Controlled = {Asked} /\ Controlled' = {Asked}
    BY <1>1, <2>1, FinishEnds
  <2>3. cur \in Commands /\ relay[Output(cur)] = cur.want /\ coil[Output(cur)] = cur.want
    BY <1>1, <1>11 DEF ReadWanted, Shown, IInv, Confirming
  <2>4. /\ (Output(cur) \in OnOf(coil)) = (cur.want = "on")
        /\ (Output(cur) \in OnOf(relay)) = (cur.want = "on")
    BY <2>3, AskedIsAControl DEF OnOf
  <2>5. \A c \in {Asked} : /\ (c.output \in OnOf(coil)) = c.want
                           /\ (c.output \in OnOf(relay)) = c.want
    BY <2>4 DEF Asked
  <2>6. OnOf(relay)' = OnOf(relay) /\ OnOf(coil)' = OnOf(coil) BY <2>1 DEF OnOf
  <2> QED BY <2>2, <2>5, <2>6 DEF Switching!Next, Switching!Succeed
<1>12. CASE ReadOther \/ ReadFails
  <2>1. CASE Finish(FALSE) BY <1>9, <1>12, <2>1 DEF ReadOther, ReadsOther, ReadFails, Executing
  <2>2. CASE ~Finish(FALSE) BY <1>2, <1>12, <2>2 DEF ReadOther, ReadFails
  <2> QED BY <2>1, <2>2
<1>13. CASE PublishACK \/ Restart
  <2>1. ~Executing' /\ ~Concluded' /\ UNCHANGED outputs
    BY <1>13 DEF PublishACK, Restart, Executing, Concluded
  <2>2. Verdict' = "none" /\ Controlled' = {} BY <2>1, PlacesAfter
  <2> QED BY <2>1, <2>2 DEF Switching!Next, Switching!Forget, OnOf
<1>14. CASE ReportSwitches BY <1>3, <1>14 DEF ReportSwitches, Executing, Concluded
<1>15. ASSUME NEW o \in Outputs, Settle(o) PROVE Switching!Next
  <2>1. relay' = [relay EXCEPT ![o] = coil[o]] /\ UNCHANGED <<pc, cur, ack, fresh, coil>>
    BY <1>15 DEF Settle
  <2>2. OnOf(relay)' = OnOf([relay EXCEPT ![o] = coil[o]]) BY <1>1, <2>1 DEF OnOf
  <2>3. coil[o] \in States BY <1>1
  <2>4. OnOf(relay)' = Switching!With(OnOf(relay), o, coil[o] = "on")
    BY <1>1, <2>2, <2>3, SetOutput
  <2>5. (coil[o] = "on") = (o \in OnOf(coil)) BY DEF OnOf
  <2>6. UNCHANGED <<OnOf(coil), Controlled, Verdict>>
    BY <1>1, <2>1 DEF OnOf, Controlled, Verdict, Executing, Concluded, Output
  <2> QED BY <2>4, <2>5, <2>6 DEF Switching!Next, Switching!Follow
<1>16. CASE Cancel \/ Ends(TRUE) \/ Ends(FALSE) \/ UNCHANGED vars
  BY <1>2, <1>16 DEF Cancel, Ends, vars
<1>17. ASSUME NEW o \in Outputs, NEW state \in States PROVE ~CarryOut(o, state)
  BY DEF CarryOut
<1> QED BY <1>4, <1>5, <1>6, <1>8, <1>10, <1>11, <1>12, <1>13, <1>14, <1>15, <1>16, <1>17 DEF Next, Loop

LEMMA SwitchingStep ==
  ASSUME IInv, [Next]_vars
  PROVE  [Switching!Next]_(Switching!vars)
<1>1. inStep' = inStep BY LineStays
<1>2. CASE inStep BY <1>2, SwitchingStepInStep
<1>3. CASE ~inStep BY <1>1, <1>3, NothingShown DEF Switching!vars
<1> QED BY <1>2, <1>3

\* On a line in step, whatever the server sends and however often, and whenever the process ends or
\* starts again, an output
\* is only given the state of the control that is being executed, and a success is only told of one
\* whose coil and relay are both in it and stay there.
THEOREM SwitchingImplementation == Spec => ImplementsDigitalOutput
<1>1. Init => Switching!Init
  <2> SUFFICES ASSUME Init PROVE Switching!Init OBVIOUS
  <2>1. pc = "idle" /\ coil = relay BY DEF Init
  <2>2. Verdict = "none" /\ Controlled = {} BY <2>1, Places DEF Executing, Concluded
  <2>3. OnOf(coil) \subseteq Outputs BY DEF OnOf
  <2> QED BY <2>1, <2>2, <2>3 DEF Switching!Init
<1>2. IInv /\ [Next]_vars => [Switching!Next]_(Switching!vars) BY SwitchingStep
<1> QED BY <1>1, <1>2, Invariant, PTL DEF Spec, ImplementsDigitalOutput, Switching!Spec
=============================================================================
