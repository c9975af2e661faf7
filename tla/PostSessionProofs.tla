-------------------------- MODULE PostSessionProofs --------------------------
(***************************************************************************)
(* Proofs about PostSession for every number of publishers, session ids,  *)
(* frames and rounds, every clock and every server.                        *)
(***************************************************************************)
EXTENDS PostSession, TLAPS

(***************************************************************************)
(* The inductive invariant.  Registered is PendingTablesAgree with what    *)
(* keeps it true: every call's entry is its own, is older than the next    *)
(* business id, and idle publishers have none.  ServerKnows says that the  *)
(* server's report under a business id is the one under its session id,    *)
(* which findPending by business id relies on.  RepliesAreTrue follows an  *)
(* "accepted" from the server to the publisher.                            *)
(***************************************************************************)
Bounded ==
  \A p \in Publishers : pc[p] \in {"sending", "pausing", "waiting", "ok"} => retransmits[p] <= MaxRetransmits

Registered ==
  /\ pendingBySession = pendingByBusiness
  /\ pendingBySession = {post[p] : p \in Busy}
  /\ \A p \in Busy : post[p] \in Posts /\ post[p].owner = p /\ post[p].business <= nextBusiness
  /\ \A p \in Publishers \ Busy : post[p] = NoPost
  /\ \A p, q \in Busy : p # q =>
       post[p].session # post[q].session /\ post[p].business # post[q].business

ServerKnows ==
  /\ nextBusiness >= SessionCount - 1
  /\ \A p \in Busy : post[p].business >= SessionCount
  /\ \A s \in SessionIds : /\ server[s].business <= nextBusiness
                           /\ server[s].business = NoId \/ server[s].business >= SessionCount
  /\ \A p \in Busy, s \in SessionIds :
       server[s].business = post[p].business => s = post[p].session

RepliesAreTrue ==
  /\ \A p \in Busy : \A a \in inbox[p] :
       a.cmd = Accepted => Complete(post[p].business, post[p].session)
  /\ \A h \in handler :
       /\ h.to.business <= nextBusiness
       /\ h.answer.cmd = Accepted /\ ChannelIsRead(h) => Complete(h.to.business, h.to.session)

CallInv == TypeOK /\ Bounded /\ Registered

ReplyInv == ServerKnows /\ RepliesAreTrue /\ OkMeansAccepted
-----------------------------------------------------------------------------
\* registerPending's probe ends at a session id that no entry has.
LEMMA FreshSession ==
  ASSUME NEW s \in FirstFreeSession
  PROVE  s \in SessionIds /\ \A e \in pendingBySession : e.session # s
BY DEF FirstFreeSession

\* nextBusinessIDLocked moves forward whatever the clock says.
LEMMA FreshBusiness ==
  ASSUME nextBusiness \in Nat, NEW now \in Clock
  PROVE  nextBusinessID(now) \in Nat /\ nextBusinessID(now) > nextBusiness
BY ClockAssumption DEF nextBusinessID

LEMMA FramesGathered ==
  ASSUME TypeOK, NEW b \in Nat, NEW s \in SessionIds, NEW i \in Frames
  PROVE  Gathered(b, s, i) \in [business : Nat \cup {NoId}, got : SUBSET Frames]
BY DEF TypeOK, Gathered

LEMMA LossIsFrames ==
  ASSUME NEW p \in Publishers, NEW a, MayResend(p, a), a.cmd = ResendLost
  PROVE  a.loss \subseteq Frames
BY DEF MayResend, ValidLoss

\* What findPending returns is an entry of one of the tables.
LEMMA FoundIsPending ==
  ASSUME NEW reply, NEW e \in findPending(reply)
  PROVE  e \in pendingBySession \cup pendingByBusiness
BY DEF findPending
-----------------------------------------------------------------------------
\* A step that registers and removes nobody leaves the tables in order.
LEMMA QuietTables ==
  ASSUME TypeOK, Registered,
         UNCHANGED <<pendingBySession, pendingByBusiness, post, Busy>>,
         nextBusiness' \in Nat, nextBusiness' >= nextBusiness
  PROVE  Registered'
<1>1. \A q \in Busy : post[q].business \in Nat /\ post[q].business <= nextBusiness'
  BY DEF Registered, TypeOK, Posts
<1>2. pendingBySession' = pendingByBusiness'
  BY DEF Registered
<1>3. \A e : e \in {post'[q] : q \in Busy'} <=> e \in {post[q] : q \in Busy}
  OBVIOUS
<1>4. pendingBySession' = {post'[q] : q \in Busy'}
  BY <1>3 DEF Registered
<1>5. \A q \in Busy' : post'[q] \in Posts /\ post'[q].owner = q /\ post'[q].business <= nextBusiness'
  BY <1>1 DEF Registered
<1>6. /\ \A q \in Publishers \ Busy' : post'[q] = NoPost
      /\ \A q, r \in Busy' : q # r =>
           post'[q].session # post'[r].session /\ post'[q].business # post'[r].business
  BY DEF Registered
<1> QED
  BY <1>2, <1>4, <1>5, <1>6 DEF Registered
-----------------------------------------------------------------------------
LEMMA InitCall == Init => CallInv
<1> SUFFICES ASSUME Init PROVE CallInv
  OBVIOUS
<1>1. PICK now \in Clock : nextBusiness = now - 1
  BY DEF Init
<1>2. now \in SessionCount..MaxBusiness
  BY ClockAssumption
<1>3. nextBusiness \in Nat
  BY <1>1, <1>2, ClockAssumption
<1>4. server \in [SessionIds -> [business : Nat \cup {NoId}, got : SUBSET Frames]]
  BY DEF Init, NoReport
<1>5. retransmits \in [Publishers -> 0..MaxRetransmits+1]
  BY SizeAssumption DEF Init
<1>6. TypeOK
  BY <1>3, <1>4, <1>5 DEF Init, TypeOK
<1>7. Bounded
  BY SizeAssumption DEF Init, Bounded
<1>8. Busy = {}
  BY DEF Init, Busy
<1>9. Registered
  BY <1>8 DEF Init, Registered
<1> QED
  BY <1>6, <1>7, <1>9 DEF CallInv

LEMMA StepCall == CallInv /\ [Next]_vars => CallInv'
<1> SUFFICES ASSUME CallInv, [Next]_vars PROVE CallInv'
  OBVIOUS
<1> USE DEF CallInv
<1>1. ASSUME NEW p \in Publishers, Begin(p)
      PROVE  CallInv'
  <2>1. PICK now \in Clock, s \in FirstFreeSession :
          LET new == [owner |-> p, business |-> nextBusinessID(now), session |-> s] IN
          /\ nextBusiness' = nextBusinessID(now)
          /\ nextSession' = s
          /\ pendingBySession' = pendingBySession \cup {new}
          /\ pendingByBusiness' = pendingByBusiness \cup {new}
          /\ post' = [post EXCEPT ![p] = new]
    BY <1>1 DEF Begin
  <2> DEFINE new == [owner |-> p, business |-> nextBusinessID(now), session |-> s]
  <2>2. /\ nextBusinessID(now) \in Nat /\ nextBusinessID(now) > nextBusiness
        /\ s \in SessionIds /\ \A e \in pendingBySession : e.session # s
    BY <2>1, FreshSession, FreshBusiness DEF TypeOK
  <2>3. new \in Posts /\ new.owner = p /\ new.business = nextBusinessID(now) /\ new.session = s
    BY <2>2 DEF Posts
  <2>4. /\ nextBusiness' = new.business
        /\ nextSession' = s
        /\ pendingBySession' = pendingBySession \cup {new}
        /\ pendingByBusiness' = pendingByBusiness \cup {new}
        /\ post' = [post EXCEPT ![p] = new]
    BY <2>1
  <2> HIDE DEF new
  <2>5. TypeOK'
    <3>1. /\ nextSession' \in SessionIds
          /\ nextBusiness' \in Nat
          /\ pendingBySession' \in SUBSET Posts
          /\ pendingByBusiness' \in SUBSET Posts
          /\ post' \in [Publishers -> Posts \cup {NoPost}]
      BY <2>2, <2>3, <2>4 DEF TypeOK
    <3>2. retransmits' \in [Publishers -> 0..MaxRetransmits+1]
      BY <1>1, SizeAssumption DEF TypeOK, Begin
    <3> QED
      BY <1>1, <3>1, <3>2 DEF TypeOK, Begin
  <2>6. Bounded'
    BY <1>1, SizeAssumption DEF Begin, Bounded, TypeOK
  <2>7. /\ p \notin Busy /\ Busy' = Busy \cup {p} /\ post'[p] = new
        /\ \A q \in Publishers \ {p} : post'[q] = post[q]
    BY <1>1, <2>4 DEF Begin, Busy, TypeOK
  <2>8. Registered'
    <3>1. pendingBySession' = pendingByBusiness'
      BY <2>4 DEF Registered
    <3>2. pendingBySession' = {post'[r] : r \in Busy'}
      BY <2>4, <2>7 DEF Registered, Busy
    <3>3. \A q \in Busy' : post'[q] \in Posts /\ post'[q].owner = q /\ post'[q].business <= nextBusiness'
      BY <2>2, <2>3, <2>4, <2>7 DEF Registered, TypeOK, Posts, Busy
    <3>4. \A q \in Publishers \ Busy' : post'[q] = NoPost
      BY <2>7 DEF Registered
    <3>5. \A q \in Busy : post[q].session # new.session /\ post[q].business # new.business
      BY <2>2, <2>3 DEF Registered, TypeOK, Posts
    <3>6. \A q, r \in Busy' : q # r =>
            post'[q].session # post'[r].session /\ post'[q].business # post'[r].business
      BY <2>7, <3>5 DEF Registered, Busy
    <3> QED
      BY <3>1, <3>2, <3>3, <3>4, <3>6 DEF Registered
  <2> QED
    BY <2>5, <2>6, <2>8
<1>2. ASSUME NEW p \in Publishers, Exhausted(p)
      PROVE  CallInv'
  <2>1. nextBusiness' \in Nat /\ nextBusiness' > nextBusiness
    BY <1>2, FreshBusiness DEF Exhausted, TypeOK
  <2>2. TypeOK' /\ Bounded'
    BY <1>2, <2>1 DEF Exhausted, TypeOK, Bounded
  <2>3. UNCHANGED <<pendingBySession, pendingByBusiness, post, Busy>>
    BY <1>2 DEF Exhausted, Busy
  <2> QED
    BY <2>1, <2>2, <2>3, QuietTables DEF TypeOK
<1>3. ASSUME NEW p \in Publishers, PublishFrame(p)
      PROVE  CallInv'
  <2>1. PICK i \in todo[p], arrived \in BOOLEAN, written \in BOOLEAN :
          /\ todo' = [todo EXCEPT ![p] = IF written THEN @ \ {i} ELSE {}]
          /\ server' = IF arrived /\ i \in Frames
                       THEN [server EXCEPT ![post[p].session] =
                               Gathered(post[p].business, post[p].session, i)]
                       ELSE server
          /\ pc' = [pc EXCEPT ![p] = IF ~written THEN "failed"
                                     ELSE IF todo[p] = {i} THEN "waiting" ELSE "pausing"]
    BY <1>3 DEF PublishFrame
  <2>2. post[p] \in Posts /\ i \in Frames
    BY <1>3, <2>1 DEF PublishFrame, Registered, Busy, TypeOK
  <2>3. Gathered(post[p].business, post[p].session, i) \in [business : Nat \cup {NoId}, got : SUBSET Frames]
    BY <2>2, FramesGathered DEF Posts
  <2>4. server' \in [SessionIds -> [business : Nat \cup {NoId}, got : SUBSET Frames]]
    BY <2>1, <2>2, <2>3 DEF TypeOK
  <2>5. TypeOK'
    BY <1>3, <2>1, <2>4 DEF PublishFrame, TypeOK, table
  <2>6. Bounded'
    BY <1>3, <2>1 DEF PublishFrame, TypeOK, Bounded
  <2>7. UNCHANGED <<pendingBySession, pendingByBusiness, post, Busy, nextBusiness>>
    BY <1>3, <2>1 DEF PublishFrame, Busy, TypeOK, table
  <2> QED
    BY <2>5, <2>6, <2>7, QuietTables DEF TypeOK
<1>4. ASSUME NEW p \in Publishers, NextFrame(p) \/ StopWhilePausing(p) \/ StopWhileWaiting(p) \/ ReplyTimeout(p)
      PROVE  CallInv'
  <2>1. TypeOK' /\ Bounded'
    BY <1>4 DEF NextFrame, StopWhilePausing, StopWhileWaiting, ReplyTimeout, TypeOK, Bounded, table
  <2>2. UNCHANGED <<pendingBySession, pendingByBusiness, post, Busy, nextBusiness>>
    BY <1>4 DEF NextFrame, StopWhilePausing, StopWhileWaiting, ReplyTimeout, Busy, TypeOK, table
  <2> QED
    BY <2>1, <2>2, QuietTables DEF TypeOK
<1>5. ASSUME NEW p \in Publishers, TakeReply(p)
      PROVE  CallInv'
  <2>1. PICK a \in inbox[p] :
          /\ retransmits' = [retransmits EXCEPT ![p] = @ + Rounds(p, a)]
          /\ pc' = [pc EXCEPT ![p] = IF a.cmd = Accepted THEN "ok"
                                     ELSE IF MayResend(p, a) THEN "sending" ELSE "failed"]
          /\ todo' = [todo EXCEPT ![p] = IF ~MayResend(p, a) THEN {}
                                         ELSE IF a.cmd = ResendLost THEN a.loss ELSE Frames]
    BY <1>5 DEF TakeReply
  <2>2. /\ retransmits[p] \in Nat /\ retransmits[p] <= MaxRetransmits
        /\ Rounds(p, a) \in {0, 1}
        /\ a.cmd = Accepted => Rounds(p, a) = 0
    BY <1>5 DEF TakeReply, TypeOK, Bounded, Rounds, Accepted, ResendLost, ResendAll
  <2>3. retransmits' \in [Publishers -> 0..MaxRetransmits+1]
    BY <2>1, <2>2, SizeAssumption DEF TypeOK
  <2>4. todo' \in [Publishers -> SUBSET Frames]
    BY <2>1, LossIsFrames DEF TypeOK
  <2>5. TypeOK'
    BY <1>5, <2>1, <2>3, <2>4 DEF TakeReply, TypeOK, table
  <2>6. Bounded'
    BY <1>5, <2>1, <2>2 DEF TakeReply, TypeOK, Bounded, MayResend
  <2>7. UNCHANGED <<pendingBySession, pendingByBusiness, post, Busy, nextBusiness>>
    BY <1>5, <2>1 DEF TakeReply, Busy, TypeOK, table
  <2> QED
    BY <2>5, <2>6, <2>7, QuietTables DEF TypeOK
<1>6. ASSUME NEW p \in Publishers, Return(p)
      PROVE  CallInv'
  <2>1. TypeOK' /\ Bounded'
    BY <1>6, SizeAssumption DEF Return, TypeOK, Bounded, Remaining
  <2>2. /\ p \in Busy /\ Busy' = Busy \ {p} /\ post'[p] = NoPost
        /\ \A q \in Publishers \ {p} : post'[q] = post[q]
    BY <1>6 DEF Return, Busy, TypeOK
  <2>3. \A q \in Busy : post[q] \in Remaining(p, pendingBySession) <=> q # p
    BY <2>2 DEF Remaining, Registered, Posts
  <2>4. pendingBySession' = {post[q] : q \in Busy'}
    BY <1>6, <2>2, <2>3 DEF Return, Registered, Remaining
  <2>5. pendingBySession' = {post'[q] : q \in Busy'}
    BY <2>2, <2>4 DEF Busy
  <2>6. pendingBySession' = pendingByBusiness'
    BY <1>6 DEF Return, Registered
  <2>7. Registered'
    BY <1>6, <2>2, <2>5, <2>6 DEF Return, Registered, Busy
  <2> QED
    BY <2>1, <2>7
<1>7. ASSUME NEW s \in SessionIds, HandlePostReply(s)
      PROVE  CallInv'
  <2>1. PICK answer \in Answers, name \in Names(server[s].business, s) :
          handler' = {[to |-> e, answer |-> answer] :
                        e \in findPending([cmd |-> answer.cmd, id |-> name[1], session |-> name[2]])}
    BY <1>7 DEF HandlePostReply
  <2>2. handler' \in SUBSET [to : Posts, answer : Answers]
    BY <2>1, FoundIsPending DEF TypeOK
  <2>3. TypeOK' /\ Bounded'
    BY <1>7, <2>2 DEF HandlePostReply, TypeOK, Bounded, table
  <2>4. UNCHANGED <<pendingBySession, pendingByBusiness, post, Busy, nextBusiness>>
    BY <1>7 DEF HandlePostReply, Busy, table
  <2> QED
    BY <2>3, <2>4, QuietTables DEF TypeOK
<1>8. CASE DeliverReply
  <2>1. inbox' \in [Publishers -> SUBSET Answers]
    BY <1>8 DEF DeliverReply, TypeOK, Posts
  <2>2. TypeOK' /\ Bounded'
    BY <1>8, <2>1 DEF DeliverReply, TypeOK, Bounded, table
  <2>3. UNCHANGED <<pendingBySession, pendingByBusiness, post, Busy, nextBusiness>>
    BY <1>8 DEF DeliverReply, Busy, table
  <2> QED
    BY <2>2, <2>3, QuietTables DEF TypeOK
<1>9. CASE Stop \/ UNCHANGED vars
  <2>1. TypeOK' /\ Bounded'
    BY <1>9 DEF Stop, vars, table, TypeOK, Bounded
  <2>2. UNCHANGED <<pendingBySession, pendingByBusiness, post, Busy, nextBusiness>>
    BY <1>9 DEF Stop, vars, table, Busy
  <2> QED
    BY <2>1, <2>2, QuietTables DEF TypeOK
<1> QED
  BY <1>1, <1>2, <1>3, <1>4, <1>5, <1>6, <1>7, <1>8, <1>9 DEF Next, Work
-----------------------------------------------------------------------------
\* With the server's replies in time, an "accepted" finds only the call it is about, whichever of
\* its names the server used.
LEMMA AcceptedFindsItsCall ==
  ASSUME CallInv, ServerKnows, NEW s \in SessionIds, Timely(s),
         NEW name \in Names(server[s].business, s),
         NEW e \in findPending([cmd |-> Accepted, id |-> name[1], session |-> name[2]])
  PROVE  e.business = server[s].business /\ e.session = s
<1> DEFINE reply == [cmd |-> Accepted, id |-> name[1], session |-> name[2]]
<1>1. PICK p \in Busy : e = post[p] /\ e \in pendingBySession
  BY FoundIsPending DEF CallInv, Registered
<1>2. e.business \in Nat /\ e.business >= SessionCount
  BY <1>1 DEF CallInv, Registered, ServerKnows, Posts
<1>3. s # NoId /\ s < SessionCount /\ SessionCount \in Nat /\ s \in Int
  BY ClockAssumption DEF SessionIds, NoId
<1>4. \/ name[1] = server[s].business
      \/ name[1] = s
      \/ name[1] = NoId /\ name[2] = s
  BY DEF Names
<1>5. name[1] = server[s].business => name[2] = s \/ name[2] = NoId
  BY <1>3 DEF Names
<1>6. reply.cmd \notin {ResendLost, ResendAll, GivenUp}
  BY DEF Accepted, ResendLost, ResendAll, GivenUp
<1>7. \/ e.business = name[1]
      \/ name[1] \in SessionIds /\ e.session = name[1]
      \/ name[1] \notin SessionIds /\ e.session = name[2]
  BY <1>6 DEF findPending
<1>8. CASE e.business = name[1]
  <2>1. name[1] = server[s].business
    BY <1>2, <1>3, <1>4, <1>8 DEF NoId
  <2> QED
    BY <1>1, <1>8, <2>1 DEF ServerKnows
<1>9. CASE name[1] \in SessionIds /\ e.session = name[1]
  <2>1. server[s].business \notin SessionIds
    BY <1>3 DEF ServerKnows, SessionIds, NoId
  <2>2. name[1] = s
    BY <1>4, <1>9, <2>1 DEF SessionIds, NoId
  <2> QED
    BY <1>1, <1>9, <2>2 DEF Timely
<1>10. CASE name[1] \notin SessionIds /\ e.session = name[2]
  <2>1. e.session # NoId
    BY <1>1 DEF CallInv, Registered, Posts, SessionIds, NoId
  <2>2. name[2] = s
    BY <1>4, <1>5, <1>10, <2>1
  <2> QED
    BY <1>1, <1>10, <2>2 DEF Timely
<1> QED
  BY <1>7, <1>8, <1>9, <1>10

LEMMA InitReply == Init => ReplyInv
<1> SUFFICES ASSUME Init PROVE ReplyInv
  OBVIOUS
<1>1. PICK now \in Clock : nextBusiness = now - 1
  BY DEF Init
<1>2. now \in SessionCount..MaxBusiness
  BY ClockAssumption
<1>3. Busy = {}
  BY DEF Init, Busy
<1>4. \A s \in SessionIds : server[s].business = NoId
  BY DEF Init, NoReport
<1>5. ServerKnows
  BY <1>1, <1>2, <1>3, <1>4, ClockAssumption DEF ServerKnows, NoId
<1>6. RepliesAreTrue /\ OkMeansAccepted
  BY <1>3 DEF Init, RepliesAreTrue, OkMeansAccepted
<1> QED
  BY <1>5, <1>6 DEF ReplyInv

\* A step that leaves the server, the calls' entries and the last business id alone keeps what the
\* server knows.
LEMMA QuietServer ==
  ASSUME ServerKnows, UNCHANGED <<server, post, Busy, nextBusiness>>
  PROVE  ServerKnows'
BY DEF ServerKnows

\* One frame more at the server: what was complete stays complete, for this call and every other.
LEMMA FrameKeepsReports ==
  ASSUME CallInv, NEW p \in Busy, NEW i \in Frames,
         server' = [server EXCEPT ![post[p].session] = Gathered(post[p].business, post[p].session, i)],
         NEW q \in Busy, Complete(post[q].business, post[q].session)
  PROVE  server'[post[q].session] = [business |-> post[q].business, got |-> Frames]
<1>1. post[p].session \in SessionIds /\ post[q].session \in SessionIds
  BY DEF CallInv, Registered, Posts
<1>2. CASE q = p
  <2>1. server[post[p].session].business = post[p].business /\ server[post[p].session].got = Frames
    BY <1>2 DEF Complete
  <2>2. Gathered(post[p].business, post[p].session, i) = [business |-> post[p].business, got |-> Frames]
    BY <2>1 DEF Gathered
  <2> QED
    BY <1>1, <1>2, <2>2 DEF CallInv, TypeOK
<1>3. CASE q # p
  BY <1>1, <1>3 DEF Complete, CallInv, Registered, TypeOK
<1> QED
  BY <1>2, <1>3

LEMMA StepReply ==
  ASSUME ~LateReplies
  PROVE  CallInv /\ ReplyInv /\ [Next]_vars => ReplyInv'
<1> SUFFICES ASSUME CallInv, ReplyInv, [Next]_vars PROVE ReplyInv'
  OBVIOUS
<1>1. ASSUME NEW p \in Publishers, Begin(p)
      PROVE  ReplyInv'
  <2>1. PICK now \in Clock, s \in FirstFreeSession :
          /\ nextBusiness' = nextBusinessID(now)
          /\ post' = [post EXCEPT ![p] = [owner |-> p, business |-> nextBusinessID(now), session |-> s]]
    BY <1>1 DEF Begin
  <2> DEFINE new == [owner |-> p, business |-> nextBusinessID(now), session |-> s]
  <2>2. /\ nextBusiness' > nextBusiness
        /\ nextBusiness' >= SessionCount
        /\ nextBusiness \in Nat /\ nextBusiness' \in Nat /\ SessionCount \in Nat
    BY <2>1, FreshBusiness, ClockAssumption DEF CallInv, TypeOK, ReplyInv, ServerKnows, nextBusinessID
  <2>3. /\ p \notin Busy /\ Busy' = Busy \cup {p} /\ post'[p] = new
        /\ new.business = nextBusiness' /\ new.owner = p
        /\ \A q \in Publishers \ {p} : post'[q] = post[q]
    BY <1>1, <2>1 DEF Begin, Busy, CallInv, TypeOK
  <2> HIDE DEF new
  <2>4. /\ server' = server /\ handler' = handler
        /\ inbox' = [inbox EXCEPT ![p] = {}]
        /\ pc' = [pc EXCEPT ![p] = "sending"]
    BY <1>1 DEF Begin
  <2>5. \A t \in SessionIds : server[t].business \in Int
    BY DEF CallInv, TypeOK, NoId
  <2>6. ServerKnows'
    <3>1. \A q \in Busy' : post'[q].business >= SessionCount
      BY <2>2, <2>3 DEF ReplyInv, ServerKnows, Busy
    <3>2. \A t \in SessionIds : /\ server'[t].business <= nextBusiness'
                                /\ server'[t].business = NoId \/ server'[t].business >= SessionCount
      BY <2>2, <2>4, <2>5 DEF ReplyInv, ServerKnows
    <3>3. \A t \in SessionIds : server[t].business # new.business
      BY <2>2, <2>3, <2>5 DEF ReplyInv, ServerKnows
    <3>4. \A q \in Busy', t \in SessionIds :
            server'[t].business = post'[q].business => t = post'[q].session
      BY <2>3, <2>4, <3>3 DEF ReplyInv, ServerKnows, Busy
    <3> QED
      BY <2>2, <3>1, <3>2, <3>4 DEF ServerKnows
  <2>7. \A q \in Busy' : \A a \in inbox'[q] :
          a.cmd = Accepted => Complete(post[q].business, post[q].session)'
    <3>1. \A q \in Busy : post'[q] = post[q] /\ inbox'[q] = inbox[q]
      BY <2>3, <2>4 DEF CallInv, TypeOK, Busy
    <3>2. inbox'[p] = {}
      BY <2>4 DEF CallInv, TypeOK
    <3> QED
      BY <2>3, <2>4, <3>1, <3>2 DEF ReplyInv, RepliesAreTrue, Complete
  <2>8. \A h \in handler' : /\ h.to.business <= nextBusiness'
                            /\ h.to # new
    BY <2>2, <2>3, <2>4 DEF ReplyInv, RepliesAreTrue, CallInv, TypeOK, Posts
  <2>9. \A h \in handler' :
          h.answer.cmd = Accepted /\ post'[h.to.owner] = h.to => Complete(h.to.business, h.to.session)'
    BY <2>3, <2>4, <2>8 DEF ReplyInv, RepliesAreTrue, Complete, ChannelIsRead, CallInv, TypeOK, Posts
  <2>10. RepliesAreTrue'
    BY <2>7, <2>8, <2>9 DEF RepliesAreTrue, ChannelIsRead, Complete
  <2>11. OkMeansAccepted'
    BY <2>3, <2>4 DEF ReplyInv, OkMeansAccepted, Complete, CallInv, TypeOK
  <2> QED
    BY <2>6, <2>10, <2>11 DEF ReplyInv
<1>2. ASSUME NEW p \in Publishers, Exhausted(p)
      PROVE  ReplyInv'
  <2>1. nextBusiness' \in Nat /\ nextBusiness \in Nat /\ nextBusiness' > nextBusiness
    BY <1>2, FreshBusiness DEF Exhausted, CallInv, TypeOK
  <2>2. UNCHANGED <<server, post, Busy, pc, inbox, handler>>
    BY <1>2 DEF Exhausted, Busy
  <2>3. \A t \in SessionIds : server[t].business \in Int
    BY DEF CallInv, TypeOK, NoId
  <2>4. ServerKnows'
    BY <2>1, <2>2, <2>3, ClockAssumption DEF ReplyInv, ServerKnows
  <2>5. \A h \in handler' : h.to.business <= nextBusiness'
    BY <2>1, <2>2 DEF ReplyInv, RepliesAreTrue, CallInv, TypeOK, Posts
  <2>6. RepliesAreTrue' /\ OkMeansAccepted'
    BY <2>2, <2>5 DEF ReplyInv, RepliesAreTrue, OkMeansAccepted, ChannelIsRead, Complete
  <2> QED
    BY <2>4, <2>6 DEF ReplyInv
<1>3. ASSUME NEW p \in Publishers, PublishFrame(p)
      PROVE  ReplyInv'
  <2>1. PICK i \in todo[p] :
          /\ \/ i \in Frames /\ server' = [server EXCEPT ![post[p].session] =
                                             Gathered(post[p].business, post[p].session, i)]
             \/ server' = server
          /\ \A q \in Publishers : pc'[q] = "ok" => pc[q] = "ok"
    BY <1>3 DEF PublishFrame, CallInv, TypeOK
  <2>2. UNCHANGED <<post, Busy, inbox, handler, nextBusiness>>
    BY <1>3 DEF PublishFrame, Busy, CallInv, TypeOK, table
  <2>3. p \in Busy /\ post[p] \in Posts
    BY <1>3 DEF PublishFrame, Busy, CallInv, Registered
  <2>4. \A q \in Busy : Complete(post[q].business, post[q].session) =>
                          Complete(post[q].business, post[q].session)'
    BY <2>1, <2>2, <2>3, FrameKeepsReports DEF Complete
  <2>5. \A t \in SessionIds : \/ server'[t].business = server[t].business
                              \/ server'[t].business = post[p].business /\ t = post[p].session
    BY <2>1, <2>3 DEF Gathered, Posts, CallInv, TypeOK
  <2>6. ServerKnows'
    BY <2>2, <2>3, <2>5 DEF ReplyInv, ServerKnows, CallInv, Registered
  <2>7. \A h \in handler : ChannelIsRead(h) => h.to.owner \in Busy /\ post[h.to.owner] = h.to
    BY DEF ChannelIsRead, CallInv, Registered, TypeOK, Posts, NoPost, NoId
  <2>8. RepliesAreTrue'
    BY <2>2, <2>4, <2>7 DEF ReplyInv, RepliesAreTrue, ChannelIsRead, Complete
  <2>9. \A q \in Publishers : pc[q] = "ok" => q \in Busy
    BY DEF Busy
  <2>10. OkMeansAccepted'
    BY <2>1, <2>2, <2>4, <2>9 DEF ReplyInv, OkMeansAccepted, Complete
  <2> QED
    BY <2>6, <2>8, <2>10 DEF ReplyInv
<1>4. ASSUME NEW p \in Publishers, NextFrame(p) \/ StopWhilePausing(p) \/ StopWhileWaiting(p) \/ ReplyTimeout(p)
      PROVE  ReplyInv'
  <2>1. /\ UNCHANGED <<server, post, Busy, nextBusiness, inbox, handler>>
        /\ \A q \in Publishers : pc'[q] = "ok" => pc[q] = "ok"
    BY <1>4 DEF NextFrame, StopWhilePausing, StopWhileWaiting, ReplyTimeout, Busy, CallInv, TypeOK, table
  <2>2. ServerKnows'
    BY <2>1, QuietServer DEF ReplyInv
  <2> QED
    BY <2>1, <2>2 DEF ReplyInv, RepliesAreTrue, OkMeansAccepted, ChannelIsRead, Complete
<1>5. ASSUME NEW p \in Publishers, TakeReply(p)
      PROVE  ReplyInv'
  <2>1. PICK a \in inbox[p] : pc' = [pc EXCEPT ![p] = IF a.cmd = Accepted THEN "ok"
                                     ELSE IF MayResend(p, a) THEN "sending" ELSE "failed"]
    BY <1>5 DEF TakeReply
  <2>2. /\ p \in Busy
        /\ UNCHANGED <<server, post, Busy, nextBusiness, handler>>
        /\ inbox' = [inbox EXCEPT ![p] = {}]
    BY <1>5, <2>1 DEF TakeReply, Busy, CallInv, TypeOK, table
  <2>3. ServerKnows'
    BY <2>2, QuietServer DEF ReplyInv
  <2>4. RepliesAreTrue'
    BY <2>2 DEF ReplyInv, RepliesAreTrue, ChannelIsRead, Complete, CallInv, TypeOK, Busy
  <2>5. OkMeansAccepted'
    BY <2>1, <2>2 DEF ReplyInv, RepliesAreTrue, OkMeansAccepted, Complete, CallInv, TypeOK
  <2> QED
    BY <2>3, <2>4, <2>5 DEF ReplyInv
<1>6. ASSUME NEW p \in Publishers, Return(p)
      PROVE  ReplyInv'
  <2>1. /\ Busy' = Busy \ {p}
        /\ UNCHANGED <<server, nextBusiness, handler>>
        /\ \A q \in Publishers \ {p} : post'[q] = post[q] /\ inbox'[q] = inbox[q] /\ pc'[q] = pc[q]
        /\ pc'[p] = "idle" /\ post'[p] = NoPost
    BY <1>6 DEF Return, Busy, CallInv, TypeOK
  <2>2. ServerKnows'
    BY <2>1 DEF ReplyInv, ServerKnows, Busy
  <2>3. \A h \in handler : h.to # NoPost /\ h.to.owner \in Publishers
    BY DEF CallInv, TypeOK, Posts, NoPost, NoId
  <2>4. RepliesAreTrue'
    BY <2>1, <2>3 DEF ReplyInv, RepliesAreTrue, ChannelIsRead, Complete, Busy
  <2>5. OkMeansAccepted'
    BY <2>1 DEF ReplyInv, OkMeansAccepted, Complete
  <2> QED
    BY <2>2, <2>4, <2>5 DEF ReplyInv
<1>7. ASSUME NEW s \in SessionIds, HandlePostReply(s)
      PROVE  ReplyInv'
  <2>1. PICK a \in Answers, name \in Names(server[s].business, s) :
          /\ Timely(s)
          /\ a.cmd = Accepted => Complete(server[s].business, s)
          /\ handler' = {[to |-> e, answer |-> a] :
                           e \in findPending([cmd |-> a.cmd, id |-> name[1], session |-> name[2]])}
    BY <1>7 DEF HandlePostReply
  <2>2. UNCHANGED <<server, post, Busy, nextBusiness, inbox, pc>>
    BY <1>7 DEF HandlePostReply, Busy, table
  <2>3. ServerKnows'
    BY <2>2, QuietServer DEF ReplyInv
  <2>4. ASSUME NEW h \in handler'
        PROVE  /\ h.to.business <= nextBusiness
               /\ h.answer.cmd = Accepted => Complete(h.to.business, h.to.session)
    <3>1. PICK e \in findPending([cmd |-> a.cmd, id |-> name[1], session |-> name[2]]) :
            h = [to |-> e, answer |-> a]
      BY <2>1
    <3>2. h.to = e /\ h.answer = a
      BY <3>1
    <3>3. e.business <= nextBusiness
      BY FoundIsPending DEF CallInv, Registered
    <3>4. ASSUME a.cmd = Accepted PROVE Complete(e.business, e.session)
      BY <2>1, <3>4, AcceptedFindsItsCall DEF ReplyInv
    <3> QED
      BY <3>2, <3>3, <3>4
  <2>5. RepliesAreTrue' /\ OkMeansAccepted'
    BY <2>2, <2>4 DEF ReplyInv, RepliesAreTrue, OkMeansAccepted, Complete
  <2> QED
    BY <2>3, <2>5 DEF ReplyInv
<1>8. CASE DeliverReply
  <2>1. /\ UNCHANGED <<server, post, Busy, nextBusiness, pc>>
        /\ handler' = {}
    BY <1>8 DEF DeliverReply, Busy, table
  <2>2. PICK h \in handler :
          inbox' = IF ChannelIsRead(h) /\ inbox[h.to.owner] = {}
                   THEN [inbox EXCEPT ![h.to.owner] = {h.answer}] ELSE inbox
    BY <1>8 DEF DeliverReply
  <2>3. ServerKnows'
    BY <2>1, QuietServer DEF ReplyInv
  <2>4. \A q \in Busy : \A a \in inbox'[q] :
          a.cmd = Accepted => Complete(post[q].business, post[q].session)
    BY <2>2 DEF ReplyInv, RepliesAreTrue, ChannelIsRead, CallInv, TypeOK, Busy
  <2> QED
    BY <2>1, <2>3, <2>4 DEF ReplyInv, RepliesAreTrue, OkMeansAccepted, Complete
<1>9. CASE Stop \/ UNCHANGED vars
  <2>1. UNCHANGED <<server, post, Busy, nextBusiness, inbox, handler, pc>>
    BY <1>9 DEF Stop, vars, table, Busy
  <2>2. ServerKnows'
    BY <2>1, QuietServer DEF ReplyInv
  <2> QED
    BY <2>1, <2>2 DEF ReplyInv, RepliesAreTrue, OkMeansAccepted, ChannelIsRead, Complete
<1> QED
  BY <1>1, <1>2, <1>3, <1>4, <1>5, <1>6, <1>7, <1>8, <1>9 DEF Next, Work
-----------------------------------------------------------------------------
LEMMA CallInvariant == Spec => []CallInv
BY InitCall, StepCall, PTL DEF Spec

LEMMA ReplyInvariant ==
  ASSUME ~LateReplies
  PROVE  Spec => []ReplyInv
<1>1. CallInv /\ ReplyInv /\ [Next]_vars => ReplyInv'
  BY StepReply
<1> QED
  BY InitReply, <1>1, CallInvariant, PTL DEF Spec

\* Every variable keeps its type: the retransmission counter stays within one of its limit and a
\* round never names a frame that does not exist.
THEOREM TypeCorrect == Spec => []TypeOK
<1>1. CallInv => TypeOK
  BY DEF CallInv
<1> QED
  BY CallInvariant, <1>1, PTL

\* The two pending tables hold exactly the running calls, each under a session id of its own, on
\* every return path of publishPost and however registrations and removals interleave.
THEOREM TablesAgree == Spec => []PendingTablesAgree
<1>1. CallInv => PendingTablesAgree
  BY DEF CallInv, Registered, PendingTablesAgree
<1> QED
  BY CallInvariant, <1>1, PTL

\* No server makes a call retransmit more than MaxRetransmits rounds or index past its frames.
THEOREM RetransmissionIsBounded == Spec => []RetransmissionBounded
<1>1. CallInv => RetransmissionBounded
  BY DEF CallInv, TypeOK, Bounded, RetransmissionBounded
<1> QED
  BY CallInvariant, <1>1, PTL

\* No wall clock makes a business id repeat or go back.
THEOREM BusinessIdsAlwaysGrow == Spec => BusinessIdsGrow
<1> DEFINE Grows == \A e \in pendingByBusiness' \ pendingByBusiness :
                      e.business > nextBusiness /\ e.business = nextBusiness'
<1>1. CallInv /\ [Next]_vars => [Grows]_vars
  <2> SUFFICES ASSUME CallInv, [Next]_vars, NEW e \in pendingByBusiness' \ pendingByBusiness
               PROVE  e.business > nextBusiness /\ e.business = nextBusiness'
    OBVIOUS
  <2>1. PICK p \in Publishers : Begin(p)
    BY DEF Next, Work, vars, table, Exhausted, PublishFrame, NextFrame, StopWhilePausing, TakeReply,
           StopWhileWaiting, ReplyTimeout, Return, Remaining, HandlePostReply, DeliverReply, Stop
  <2>2. PICK now \in Clock, s \in FirstFreeSession :
          /\ nextBusiness' = nextBusinessID(now)
          /\ pendingByBusiness' = pendingByBusiness \cup
               {[owner |-> p, business |-> nextBusinessID(now), session |-> s]}
    BY <2>1 DEF Begin
  <2> QED
    BY <2>2, FreshBusiness DEF CallInv, TypeOK
<1> QED
  BY CallInvariant, <1>1, PTL DEF Spec, BusinessIdsGrow

\* If no reply comes after its session id went to another report, Publish returns nil only when the
\* server has every frame.
THEOREM OkIsAccepted ==
  ASSUME ~LateReplies
  PROVE  Spec => []OkMeansAccepted
<1>1. ReplyInv => OkMeansAccepted
  BY DEF ReplyInv
<1> QED
  BY ReplyInvariant, <1>1, PTL
-----------------------------------------------------------------------------
LEMMA RefinementInit == Init => Report!Init
<1> SUFFICES ASSUME Init PROVE Report!Init
  OBVIOUS
<1>1. nextBusiness \in Nat
  BY InitCall DEF CallInv, TypeOK
<1>2. Busy = {}
  BY DEF Init, Busy
<1>3. Phase = [p \in Publishers |-> "idle"]
  BY DEF Init, Phase
<1>4. CallId = [p \in Publishers |-> -1]
  BY DEF Init, CallId, NoPost, NoId
<1>5. ServerHasIt = [p \in Publishers |-> FALSE]
  BY <1>2 DEF ServerHasIt
<1> QED
  BY <1>1, <1>3, <1>4, <1>5 DEF Report!Init, Report!NoCall

LEMMA RefinementStep ==
  ASSUME ~LateReplies
  PROVE  CallInv /\ ReplyInv /\ [Next]_vars => [Report!Next]_(Report!vars)
<1> SUFFICES ASSUME CallInv, ReplyInv, [Next]_vars PROVE [Report!Next]_(Report!vars)
  OBVIOUS
<1>1. ASSUME NEW p \in Publishers, Begin(p)
      PROVE  Report!Call(p)
  <2>1. PICK now \in Clock, s \in FirstFreeSession :
          /\ nextBusiness' = nextBusinessID(now)
          /\ post' = [post EXCEPT ![p] = [owner |-> p, business |-> nextBusinessID(now), session |-> s]]
    BY <1>1 DEF Begin
  <2>2. nextBusiness' \in Nat /\ nextBusiness' > nextBusiness /\ s \in SessionIds
    BY <2>1, FreshBusiness, FreshSession DEF CallInv, TypeOK
  <2>3. /\ pc[p] = "idle" /\ pc' = [pc EXCEPT ![p] = "sending"]
        /\ server' = server /\ p \notin Busy /\ Busy' = Busy \cup {p}
    BY <1>1 DEF Begin, Busy, CallInv, TypeOK
  <2>4. Phase[p] = "idle" /\ Phase' = [Phase EXCEPT ![p] = "open"]
    BY <2>3 DEF Phase, CallInv, TypeOK
  <2>5. CallId' = [CallId EXCEPT ![p] = nextBusiness']
    BY <2>1 DEF CallId, CallInv, TypeOK
  <2>6. server[s].business # nextBusiness'
    BY <2>2 DEF ReplyInv, ServerKnows, CallInv, TypeOK, NoId
  <2>7. ServerHasIt' = ServerHasIt
    <3>1. ServerHasIt[p] = FALSE
      BY <2>3 DEF ServerHasIt
    <3>2. ServerHasIt'[p] = FALSE
      <4>1. post'[p].business = nextBusiness' /\ post'[p].session = s
        BY <2>1 DEF CallInv, TypeOK
      <4>2. server'[s] # [business |-> nextBusiness', got |-> Frames]
        BY <2>3, <2>6
      <4> QED
        BY <4>1, <4>2 DEF ServerHasIt, Complete
    <3>3. \A q \in Publishers \ {p} : ServerHasIt'[q] = ServerHasIt[q]
      BY <2>1, <2>3 DEF ServerHasIt, Complete, CallInv, TypeOK
    <3> QED
      BY <3>1, <3>2, <3>3 DEF ServerHasIt
  <2> QED
    BY <2>2, <2>4, <2>5, <2>7 DEF Report!Call
<1>2. ASSUME NEW p \in Publishers, Exhausted(p)
      PROVE  Report!Refuse(p)
  <2>1. nextBusiness' \in Nat /\ nextBusiness' > nextBusiness
    BY <1>2, FreshBusiness DEF Exhausted, CallInv, TypeOK
  <2>2. pc[p] = "idle" /\ UNCHANGED <<pc, post, server, Busy>>
    BY <1>2 DEF Exhausted, Busy
  <2>3. Phase[p] = "idle" /\ UNCHANGED <<Phase, CallId, ServerHasIt>>
    BY <2>2 DEF Phase, CallId, ServerHasIt, Complete
  <2> QED
    BY <2>1, <2>3 DEF Report!Refuse
<1>3. ASSUME NEW p \in Publishers, PublishFrame(p)
      PROVE  Report!Receive(p) \/ Report!Fail(p) \/ UNCHANGED Report!vars
  <2>1. PICK i \in todo[p] :
          \/ i \in Frames /\ server' = [server EXCEPT ![post[p].session] =
                                          Gathered(post[p].business, post[p].session, i)]
          \/ server' = server
    BY <1>3 DEF PublishFrame
  <2>2. /\ pc[p] = "sending" /\ p \in Busy
        /\ UNCHANGED <<post, Busy, nextBusiness>>
        /\ pc' = [pc EXCEPT ![p] = pc'[p]]
        /\ pc'[p] \in {"failed", "waiting", "pausing"}
    BY <1>3 DEF PublishFrame, Busy, CallInv, TypeOK, table
  <2>3. Phase[p] = "open" /\ (Phase' = Phase \/ Phase' = [Phase EXCEPT ![p] = "failed"])
    BY <2>2 DEF Phase, CallInv, TypeOK
  <2>4. UNCHANGED <<CallId, nextBusiness>>
    BY <2>2 DEF CallId
  <2>5. \A q \in Publishers : ServerHasIt[q] => ServerHasIt'[q]
    BY <2>1, <2>2, FrameKeepsReports DEF ServerHasIt, Complete
  <2>6. \A q \in Busy \ {p} : post[q].session # post[p].session /\ post[q].session \in SessionIds
    BY <2>2 DEF CallInv, Registered, Posts
  <2>7. \A q \in Publishers \ {p} : ServerHasIt'[q] = ServerHasIt[q]
    BY <2>1, <2>2, <2>6 DEF ServerHasIt, Complete, CallInv, TypeOK
  <2>8. ServerHasIt' = ServerHasIt \/ ServerHasIt' = [ServerHasIt EXCEPT ![p] = TRUE]
    BY <2>5, <2>7 DEF ServerHasIt
  <2> QED
    BY <2>3, <2>4, <2>8 DEF Report!Receive, Report!Fail, Report!vars
<1>4. ASSUME NEW p \in Publishers, NextFrame(p) \/ StopWhilePausing(p) \/ StopWhileWaiting(p) \/ ReplyTimeout(p)
      PROVE  Report!Fail(p) \/ UNCHANGED Report!vars
  <2>1. /\ pc[p] \in {"pausing", "waiting"}
        /\ pc' = [pc EXCEPT ![p] = "sending"] \/ pc' = [pc EXCEPT ![p] = "failed"]
        /\ UNCHANGED <<post, server, Busy, nextBusiness>>
    BY <1>4 DEF NextFrame, StopWhilePausing, StopWhileWaiting, ReplyTimeout, Busy, CallInv, TypeOK, table
  <2>2. Phase[p] = "open" /\ (Phase' = Phase \/ Phase' = [Phase EXCEPT ![p] = "failed"])
    BY <2>1 DEF Phase, CallInv, TypeOK
  <2>3. UNCHANGED <<CallId, ServerHasIt, nextBusiness>>
    BY <2>1 DEF CallId, ServerHasIt, Complete
  <2> QED
    BY <2>2, <2>3 DEF Report!Fail, Report!vars
<1>5. ASSUME NEW p \in Publishers, TakeReply(p)
      PROVE  Report!Succeed(p) \/ Report!Fail(p) \/ UNCHANGED Report!vars
  <2>1. PICK a \in inbox[p] : pc' = [pc EXCEPT ![p] = IF a.cmd = Accepted THEN "ok"
                                     ELSE IF MayResend(p, a) THEN "sending" ELSE "failed"]
    BY <1>5 DEF TakeReply
  <2>2. pc[p] = "waiting" /\ p \in Busy /\ UNCHANGED <<post, server, Busy, nextBusiness>>
    BY <1>5, <2>1 DEF TakeReply, Busy, CallInv, TypeOK, table
  <2>3. UNCHANGED <<CallId, ServerHasIt, nextBusiness>>
    BY <2>2 DEF CallId, ServerHasIt, Complete
  <2>4. Phase[p] = "open"
    BY <2>2 DEF Phase
  <2>5. CASE a.cmd = Accepted
    <3>1. ServerHasIt[p]
      BY <2>2, <2>5 DEF ServerHasIt, ReplyInv, RepliesAreTrue
    <3>2. Phase' = [Phase EXCEPT ![p] = "accepted"]
      BY <2>1, <2>5 DEF Phase, CallInv, TypeOK
    <3> QED
      BY <2>3, <2>4, <3>1, <3>2 DEF Report!Succeed
  <2>6. CASE a.cmd # Accepted
    <3>1. Phase' = Phase \/ Phase' = [Phase EXCEPT ![p] = "failed"]
      BY <2>1, <2>2, <2>6 DEF Phase, CallInv, TypeOK
    <3> QED
      BY <2>3, <2>4, <3>1 DEF Report!Fail, Report!vars
  <2> QED
    BY <2>5, <2>6
<1>6. ASSUME NEW p \in Publishers, Return(p)
      PROVE  Report!Return(p)
  <2>1. /\ pc[p] \in {"ok", "failed"} /\ pc' = [pc EXCEPT ![p] = "idle"]
        /\ post' = [post EXCEPT ![p] = NoPost]
        /\ UNCHANGED <<server, nextBusiness>> /\ Busy' = Busy \ {p}
    BY <1>6 DEF Return, Busy, CallInv, TypeOK
  <2>2. Phase[p] \in {"accepted", "failed"} /\ Phase' = [Phase EXCEPT ![p] = "idle"]
    BY <2>1 DEF Phase, CallInv, TypeOK
  <2>3. CallId' = [CallId EXCEPT ![p] = -1]
    BY <2>1 DEF CallId, NoPost, NoId, CallInv, TypeOK
  <2>4. \A q \in Publishers \ {p} : ServerHasIt'[q] = ServerHasIt[q]
    BY <2>1 DEF ServerHasIt, Complete, CallInv, TypeOK
  <2>5. ServerHasIt'[p] = FALSE
    BY <2>1 DEF ServerHasIt
  <2>6. ServerHasIt' = [ServerHasIt EXCEPT ![p] = FALSE]
    BY <2>4, <2>5 DEF ServerHasIt
  <2> QED
    BY <2>1, <2>2, <2>3, <2>6 DEF Report!Return, Report!NoCall
<1>7. ASSUME NEW s \in SessionIds, HandlePostReply(s) \/ DeliverReply \/ Stop \/ UNCHANGED vars
      PROVE  UNCHANGED Report!vars
  <2>1. UNCHANGED <<pc, post, server, nextBusiness, Busy>>
    BY <1>7 DEF HandlePostReply, DeliverReply, Stop, vars, table, Busy
  <2>2. UNCHANGED <<Phase, CallId, ServerHasIt>>
    BY <2>1 DEF Phase, CallId, ServerHasIt, Complete
  <2> QED
    BY <2>1, <2>2 DEF Report!vars
<1>8. SessionIds # {}
  BY ClockAssumption DEF SessionIds
<1> QED
  BY <1>1, <1>2, <1>3, <1>4, <1>5, <1>6, <1>7, <1>8 DEF Next, Work, Report!Next

\* Under the same condition, what publishPost does with tables, frames, replies and retransmissions
\* is a Reporting: each step is one of its steps or changes nothing of it.
THEOREM Implementation ==
  ASSUME ~LateReplies
  PROVE  Spec => ImplementsReporting
<1>1. CallInv /\ ReplyInv /\ [Next]_vars => [Report!Next]_(Report!vars)
  BY RefinementStep
<1> QED
  BY RefinementInit, <1>1, CallInvariant, ReplyInvariant, PTL DEF Spec, ImplementsReporting, Report!Spec
=============================================================================
