------------------------------ MODULE Reporting ------------------------------
(***************************************************************************)
(* What Client.Publish promises a caller that reports one measurement or  *)
(* one switch status (common/mqttclient/client.go, publishPost).  A call  *)
(* takes a business id later than every earlier one, the server may       *)
(* receive the whole report while the call runs, and the call returns nil *)
(* only if the server did.  An error promises nothing: the server may     *)
(* hold a report whose caller was told it failed.                         *)
(***************************************************************************)
EXTENDS Integers

CONSTANT Publishers \* the goroutines that call Publish

VARIABLES phase,     \* where each caller's call stands
          id,        \* the business id of each caller's call, NoCall outside one
          received,  \* whether the server holds the whole report of that call
          lastId     \* the business id given out last

vars == <<phase, id, received, lastId>>

NoCall == -1

Init ==
  /\ phase = [p \in Publishers |-> "idle"]
  /\ id = [p \in Publishers |-> NoCall]
  /\ received = [p \in Publishers |-> FALSE]
  /\ lastId \in Nat

\* A call begins with an id that no call had before.
Call(p) ==
  /\ phase[p] = "idle"
  /\ lastId' \in Nat
  /\ lastId' > lastId
  /\ id' = [id EXCEPT ![p] = lastId']
  /\ phase' = [phase EXCEPT ![p] = "open"]
  /\ UNCHANGED received

\* A call is turned away at once: an id is spent and nothing else happens.
Refuse(p) ==
  /\ phase[p] = "idle"
  /\ lastId' \in Nat
  /\ lastId' > lastId
  /\ UNCHANGED <<phase, id, received>>

\* The server now holds the whole report.
Receive(p) ==
  /\ phase[p] = "open"
  /\ received' = [received EXCEPT ![p] = TRUE]
  /\ UNCHANGED <<id, lastId>>
  /\ \/ UNCHANGED phase
     \/ phase' = [phase EXCEPT ![p] = "failed"]

\* The call is decided: success needs the report to be with the server.
Succeed(p) ==
  /\ phase[p] = "open"
  /\ received[p]
  /\ phase' = [phase EXCEPT ![p] = "accepted"]
  /\ UNCHANGED <<id, received, lastId>>

Fail(p) ==
  /\ phase[p] = "open"
  /\ phase' = [phase EXCEPT ![p] = "failed"]
  /\ UNCHANGED <<id, received, lastId>>

Return(p) ==
  /\ phase[p] \in {"accepted", "failed"}
  /\ phase' = [phase EXCEPT ![p] = "idle"]
  /\ id' = [id EXCEPT ![p] = NoCall]
  /\ received' = [received EXCEPT ![p] = FALSE]
  /\ UNCHANGED lastId

Next == \E p \in Publishers : Call(p) \/ Refuse(p) \/ Receive(p) \/ Succeed(p) \/ Fail(p) \/ Return(p)

Spec == Init /\ [][Next]_vars
=============================================================================
