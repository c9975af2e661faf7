-------------------------------- MODULE AckLog --------------------------------
(***************************************************************************)
(* What the controller promises the server about the acknowledgement of a  *)
(* set request (meter/controller: Controller.Run and ackCache).  A request *)
(* has one outcome for as long as it is among the last Memory executed: it *)
(* is executed once, and every acknowledgement of it, whenever it is asked *)
(* for again, is the one the execution ended with, a failure as well as a  *)
(* success.  A restart forgets all of it.                                  *)
(***************************************************************************)
EXTENDS Naturals, Sequences

CONSTANTS Keys,    \* a meter and a request id
          Acks,
          Memory   \* executions remembered

VARIABLES log,     \* the last executions, the oldest first
          told     \* the entry being acknowledged, if any

vars == <<log, told>>

Entries == [key : Keys, ack : Acks]

Init == log = <<>> /\ told = {}

\* The log with one more execution, the oldest dropped if it gets too long.
Remember(e) == IF Len(log) < Memory THEN Append(log, e) ELSE Append(Tail(log), e)

\* A request not in the log is executed and its outcome acknowledged.
Execute(e) ==
  /\ told = {}
  /\ \A i \in DOMAIN log : log[i].key # e.key
  /\ log' = Remember(e)
  /\ told' = {e}

\* One in the log is only acknowledged again.
Repeat ==
  /\ told = {}
  /\ \E i \in DOMAIN log : told' = {log[i]}
  /\ UNCHANGED log

Publish == told # {} /\ told' = {} /\ UNCHANGED log

Forget == log' = <<>> /\ told' = {}

Next == (\E e \in Entries : Execute(e)) \/ Repeat \/ Publish \/ Forget

Spec == Init /\ [][Next]_vars
=============================================================================
