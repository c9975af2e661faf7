----------------------------- MODULE DigitalOutput -----------------------------
(***************************************************************************)
(* What a remote control of a meter's digital output promises the server   *)
(* (Controller.execute with ControlDigitalOutput), whatever it takes to    *)
(* keep it.  One control is open at a time.  While it is, its output's     *)
(* coil may be given the state it wants, and no coil is given any other.   *)
(* It ends in a success only with coil and relay both in that state, and   *)
(* they then stay there until another control begins; a failure tells      *)
(* nothing of the coil.  Relays follow their coils when they like.         *)
(***************************************************************************)
CONSTANTS Outputs, Controls   \* a control: [output : Outputs, want : BOOLEAN]

VARIABLES
  coil,     \* the outputs told to be on
  relay,    \* the outputs that are on
  control,  \* the control that is open or ended last, as a set
  verdict   \* "none", "open", "success" or "failure"

vars == <<coil, relay, control, verdict>>

\* The outputs that are on once o is as it is wanted.
With(on, o, want) == IF want THEN on \cup {o} ELSE on \ {o}

Init ==
  /\ coil \subseteq Outputs /\ relay = coil
  /\ control = {} /\ verdict = "none"

Begin(c) ==
  /\ verdict # "open"
  /\ control' = {c} /\ verdict' = "open"
  /\ UNCHANGED <<coil, relay>>

Write ==
  /\ verdict = "open"
  /\ \E c \in control : coil' = With(coil, c.output, c.want)
  /\ UNCHANGED <<relay, control, verdict>>

Succeed ==
  /\ verdict = "open"
  /\ \A c \in control : (c.output \in coil) = c.want /\ (c.output \in relay) = c.want
  /\ verdict' = "success"
  /\ UNCHANGED <<coil, relay, control>>

\* The failure may be that of a write that was carried out.
Fail ==
  /\ verdict = "open"
  /\ UNCHANGED coil \/ \E c \in control : coil' = With(coil, c.output, c.want)
  /\ verdict' = "failure"
  /\ UNCHANGED <<relay, control>>

\* The control is over and told, or forgotten in a crash.
Forget == control' = {} /\ verdict' = "none" /\ UNCHANGED <<coil, relay>>

Follow(o) ==
  /\ relay' = With(relay, o, o \in coil)
  /\ UNCHANGED <<coil, control, verdict>>

Next ==
  \/ \E c \in Controls : Begin(c)
  \/ Write \/ Succeed \/ Fail \/ Forget
  \/ \E o \in Outputs : Follow(o)

Spec == Init /\ [][Next]_vars
=============================================================================
