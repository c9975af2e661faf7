------------------------------ MODULE AtomicBus ------------------------------
(***************************************************************************)
(* What the RS485 bus promises those who call ReadHoldingRegisters and     *)
(* WriteSingleCoil (meter/modbus/rtu.go) while no answer is late or        *)
(* damaged: "one question, one answer" for every goroutine, as if it had   *)
(* the line to itself.  Between a call and its return the request leaves   *)
(* the line once, acted upon or lost; no other request does until that     *)
(* call has returned, and none does after its own has.  What a call        *)
(* returns is an error, or the answer to the very request it made.         *)
(***************************************************************************)
EXTENDS Naturals

CONSTANTS Callers, Requests

VARIABLES
  asked,    \* the question each caller waits with, as a set: none or one
  handled,  \* the caller whose request has left the line, as a set
  answer,   \* the question whose answer each caller got last, as a set
  last      \* the number of calls so far

vars == <<asked, handled, answer, last>>

Init ==
  /\ asked = [c \in Callers |-> {}]
  /\ handled = {}
  /\ answer = [c \in Callers |-> {}]
  /\ last = 0

Ask(c, r) ==
  /\ asked[c] = {}
  /\ asked' = [asked EXCEPT ![c] = {[exchange |-> last + 1, request |-> r]}]
  /\ answer' = [answer EXCEPT ![c] = {}]
  /\ last' = last + 1
  /\ UNCHANGED handled

\* The meter acts on the request, or the line loses it.
Handle(c) ==
  /\ asked[c] # {} /\ handled = {}
  /\ handled' = {c}
  /\ UNCHANGED <<asked, answer, last>>

\* An error may be returned at any time, an answer only once the meter has been asked.
Return(c) ==
  /\ asked[c] # {}
  /\ asked' = [asked EXCEPT ![c] = {}]
  /\ \/ answer' = [answer EXCEPT ![c] = {}]
     \/ c \in handled /\ answer' = [answer EXCEPT ![c] = asked[c]]
  /\ handled' = handled \ {c}
  /\ UNCHANGED last

Next == \E c \in Callers : (\E r \in Requests : Ask(c, r)) \/ Handle(c) \/ Return(c)

Spec == Init /\ [][Next]_vars
=============================================================================
